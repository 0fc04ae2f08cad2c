------------------------ MODULE ComposerAndContentProofs ------------------------
(***************************************************************************)
(* Proofs about ComposerSync, for any units, options and releases, and     *)
(* about ObservedContent, for any relations, templates, rules, actions.    *)
(***************************************************************************)
EXTENDS ComposerRefinement, ObservedContent, SequenceTheorems, WellFoundedInduction,
        FiniteSetTheorems, TLAPS

(***************************************************************************)
(* Folds.                                                                  *)
(***************************************************************************)

\* What is folded over sequences here, by its name: an operator cannot be a parameter of a lemma.
Apply(c, a, b) ==
    IF c.fold = "newest" THEN Newest(a, b)
    ELSE IF c.fold = "act" THEN Append(a, Act(IF a = << >> THEN c.state ELSE Last(a).state, b, c.values))
    ELSE IF c.fold = "load" THEN Load(c.language, a, b)
    ELSE IF c.fold = "operate" THEN Operate(a, b, c.asks)
    ELSE IF c.fold = "intend" THEN Intended(a, b)
    ELSE IF c.fold = "first" THEN IF b \in Range(a) THEN a ELSE Append(a, b)
    ELSE {}

\* FoldLeft(op, base, seq), as its definition has it: g takes a set of positions to what folding
\* over these comes to.
FoldStep(c, base, seq, g, s) ==
    IF s = {} THEN base ELSE Apply(c, g[s \ {Max(s)}], seq[Max(s)])

IsFold(c, base, seq, n, g) == g = [s \in SUBSET (1 .. n) |-> FoldStep(c, base, seq, g, s)]

\* Every set of numbers that is not empty has a least one.
LEMMA Least ==
    ASSUME NEW T, T \subseteq Nat, T # {}
    PROVE  \E m \in T : \A n \in T : m <= n
<1>1. IsWellFoundedOn(OpToRel(<, Nat), Nat)
  BY NatLessThanWellFounded
<1>2. \E m \in T : \A n \in T : ~ (<<n, m>> \in OpToRel(<, Nat))
  BY <1>1, WFMin
<1>3. PICK m \in T : \A n \in T : ~ (<<n, m>> \in OpToRel(<, Nat))
  BY <1>2
<1>4. \A n \in T : ~(n < m)
  BY <1>3 DEF OpToRel
<1>5. \A n \in T : n \in Nat /\ m \in Nat
  OBVIOUS
<1>6. QED
  BY <1>4, <1>5

\* What holds of 0 and of each number's successor holds up to any number.
LEMMA Upward ==
    ASSUME NEW n \in Nat, NEW P, 0 \in P, \A i \in 0 .. n - 1 : i \in P => i + 1 \in P
    PROVE  \A j \in 0 .. n : j \in P
<1> DEFINE T == {j \in 0 .. n : j \notin P}
<1>1. SUFFICES ASSUME T # {} PROVE FALSE
  OBVIOUS
<1>2. PICK j \in T : \A i \in T : j <= i
  <2>1. T \subseteq Nat
    OBVIOUS
  <2> HIDE DEF T
  <2>2. QED
    BY <1>1, <2>1, Least
<1>3. j # 0 /\ j \in 0 .. n
  BY <1>2
<1>4. j - 1 \in 0 .. n - 1 /\ j - 1 \notin T /\ j - 1 + 1 = j
  BY <1>2, <1>3
<1>5. QED
  BY <1>2, <1>4

\* The greatest of numbers up to n is one of them.
LEMMA MaxIsThere ==
    ASSUME NEW n \in Nat, NEW s \in SUBSET (1 .. n), s # {}
    PROVE  Max(s) \in s /\ \A k \in s : k <= Max(s)
<1> DEFINE T == {m \in Nat : \A k \in s : k <= m}
<1>1. n \in T
  OBVIOUS
<1>2. PICK m \in T : \A k \in T : m <= k
  BY <1>1, Least
<1>3. m \in s
  <2>1. SUFFICES ASSUME m \notin s PROVE FALSE
    OBVIOUS
  <2>2. \A k \in s : k \in Nat /\ k >= 1 /\ k <= m - 1
    BY <1>2, <2>1
  <2>3. m - 1 \in Nat
    <3>1. PICK k \in s : TRUE
      OBVIOUS
    <3>2. k \in Nat /\ k >= 1 /\ k <= m - 1 /\ m \in Nat
      BY <3>1, <2>2, <1>2
    <3>3. QED
      BY <3>2
  <2>4. QED
    BY <1>2, <2>2, <2>3
<1>4. \E x \in s : \A y \in s : x >= y
  BY <1>2, <1>3
<1>5. QED
  BY <1>4 DEF Max

\* There is a function that takes each set of positions to what folding over it comes to.
LEMMA FoldExists ==
    ASSUME NEW c, NEW base, NEW seq, NEW n \in Nat
    PROVE  \E g : IsFold(c, base, seq, n, g)
<1> DEFINE T == {m \in Nat : ~ \E g : IsFold(c, base, seq, m, g)}
<1>1. SUFFICES ASSUME T # {} PROVE FALSE
  OBVIOUS
<1>2. PICK m \in T : \A k \in T : m <= k
  BY <1>1, Least
<1>3. CASE m = 0
  <2> DEFINE g == [s \in SUBSET (1 .. 0) |-> base]
  <2>1. \A s \in SUBSET (1 .. 0) : s = {}
    OBVIOUS
  <2>2. IsFold(c, base, seq, 0, g)
    BY <2>1 DEF IsFold, FoldStep
  <2>3. QED
    BY <1>2, <1>3, <2>2
<1>4. CASE m # 0
  <2>1. m - 1 \in Nat /\ m - 1 \notin T
    BY <1>2, <1>4
  <2>2. PICK f : IsFold(c, base, seq, m - 1, f)
    BY <2>1
  <2> DEFINE g == [s \in SUBSET (1 .. m) |->
                     IF m \in s THEN Apply(c, f[s \ {m}], seq[m]) ELSE f[s]]
  <2>3. ASSUME NEW s \in SUBSET (1 .. m) PROVE g[s] = FoldStep(c, base, seq, g, s)
    <3>1. CASE m \in s
      <4>1. Max(s) = m
        <5>1. m \in Nat /\ s \in SUBSET (1 .. m) /\ s # {}
          BY <3>1
        <5>2. Max(s) \in s /\ m <= Max(s)
          BY <3>1, <5>1, MaxIsThere
        <5>3. Max(s) \in 1 .. m
          BY <5>1, <5>2
        <5>4. QED
          BY <5>1, <5>2, <5>3
      <4>2. s \ {m} \in SUBSET (1 .. m) /\ m \notin s \ {m} /\ s # {}
        BY <3>1
      <4>3. g[s \ {m}] = f[s \ {m}] /\ g[s] = Apply(c, f[s \ {m}], seq[m])
        BY <3>1, <4>2
      <4>4. QED
        BY <4>1, <4>2, <4>3 DEF FoldStep
    <3>2. CASE m \notin s
      <4>1. s \in SUBSET (1 .. m - 1) /\ g[s] = f[s]
        BY <1>2, <3>2
      <4>2. g[s] = FoldStep(c, base, seq, f, s)
        BY <4>1, <2>2 DEF IsFold
      <4>3. CASE s = {}
        BY <4>2, <4>3 DEF FoldStep
      <4>4. CASE s # {}
        <5>1. Max(s) \in s
          BY <2>1, <4>1, <4>4, MaxIsThere
        <5>2. s \ {Max(s)} \in SUBSET (1 .. m) /\ m \notin s \ {Max(s)}
          BY <3>2
        <5>3. g[s \ {Max(s)}] = f[s \ {Max(s)}]
          BY <5>2
        <5>4. QED
          BY <4>2, <5>3 DEF FoldStep
      <4>5. QED
        BY <4>3, <4>4
    <3>3. QED
      BY <3>1, <3>2
  <2>4. g = [s \in SUBSET (1 .. m) |-> FoldStep(c, base, seq, g, s)]
    BY <2>3
  <2>5. QED
    BY <1>2, <2>4 DEF IsFold
<1>5. QED
  BY <1>3, <1>4

\* What folding over the first positions comes to.
Unfolds(c, base, seq, n, h) ==
    /\ h[0] = base
    /\ \A k \in 0 .. n - 1 : h[k + 1] = Apply(c, h[k], seq[k + 1])

\* A fold goes through its sequence from the left.
LEMMA FoldPrefixes ==
    ASSUME NEW c, NEW base, NEW seq, NEW n \in Nat, NEW g, IsFold(c, base, seq, n, g)
    PROVE  \E h : Unfolds(c, base, seq, n, h) /\ h[n] = g[1 .. n]
<1> DEFINE h == [k \in 0 .. n |-> g[1 .. k]]
<1>1. h[0] = base
  <2>1. 1 .. 0 = {} /\ 1 .. 0 \in SUBSET (1 .. n)
    OBVIOUS
  <2>2. QED
    BY <2>1 DEF IsFold, FoldStep
<1>2. ASSUME NEW k \in 0 .. n - 1 PROVE h[k + 1] = Apply(c, h[k], seq[k + 1])
  <2>1. 1 .. k + 1 \in SUBSET (1 .. n) /\ 1 .. k + 1 # {}
    OBVIOUS
  <2>2. Max(1 .. k + 1) = k + 1
    <3>1. k + 1 \in Nat /\ k + 1 \in 1 .. k + 1
      OBVIOUS
    <3>2. 1 .. k + 1 \in SUBSET (1 .. k + 1)
      OBVIOUS
    <3>3. Max(1 .. k + 1) \in 1 .. k + 1 /\ k + 1 <= Max(1 .. k + 1)
      BY <3>1, <3>2, <2>1, MaxIsThere
    <3>4. QED
      BY <3>1, <3>3
  <2>3. (1 .. k + 1) \ {k + 1} = 1 .. k
    OBVIOUS
  <2>4. g[1 .. k + 1] = Apply(c, g[1 .. k], seq[k + 1])
    BY <2>1, <2>2, <2>3 DEF IsFold, FoldStep
  <2>5. QED
    BY <2>4
<1>3. h[n] = g[1 .. n]
  OBVIOUS
<1>4. QED
  BY <1>1, <1>2, <1>3 DEF Unfolds

\* What folding with Newest comes to.
LEMMA NewestFold ==
    ASSUME NEW seq, NEW n \in Nat, DOMAIN seq = 1 .. n
    PROVE  \E h : Unfolds([fold |-> "newest"], {}, seq, n, h) /\ FoldLeft(Newest, {}, seq) = h[n]
<1> DEFINE c == [fold |-> "newest"]
           base == {}
           Fold(f) == f = [s \in SUBSET DOMAIN seq |->
                        IF s = {} THEN base ELSE Newest(f[s \ {Max(s)}], seq[Max(s)])]
           g == CHOOSE f : Fold(f)
<1>1. FoldLeft(Newest, base, seq) = g[DOMAIN seq]
  BY DEF FoldLeft, MapThenFoldSet
<1>2. \E f : IsFold(c, base, seq, n, f)
  BY FoldExists
<1>3. \A a, b : Apply(c, a, b) = Newest(a, b)
  BY DEF Apply
<1>4. \A f : IsFold(c, base, seq, n, f) <=> Fold(f)
  <2> HIDE DEF c, base
  <2>1. QED
    BY <1>3 DEF IsFold, FoldStep
<1>5. IsFold(c, base, seq, n, g)
  <2> HIDE DEF Fold
  <2>1. QED
    BY <1>2, <1>4
<1>6. PICK h : Unfolds(c, base, seq, n, h) /\ h[n] = g[1 .. n]
  <2> HIDE DEF g, c, base
  <2>1. QED
    BY <1>5, FoldPrefixes
<1>7. QED
  BY <1>1, <1>6

(***************************************************************************)
(* Dashboards.                                                             *)
(***************************************************************************)

\* FlattenSeq puts the elements of its sequences into one.
Flattens(seqs, n, f) == f = [i \in 1 .. n |-> IF i = 1 THEN seqs[i] ELSE f[i - 1] \o seqs[i]]

\* There is a function that takes each number to the first sequences, put into one.
LEMMA FlattenExists ==
    ASSUME NEW seqs, NEW n \in Nat
    PROVE  \E f : Flattens(seqs, n, f)
<1> DEFINE T == {m \in Nat : ~ \E f : Flattens(seqs, m, f)}
<1>1. SUFFICES ASSUME T # {} PROVE FALSE
  OBVIOUS
<1>2. PICK m \in T : \A k \in T : m <= k
  BY <1>1, Least
<1>3. CASE m = 0
  <2>1. Flattens(seqs, 0, [i \in 1 .. 0 |-> {}])
    BY DEF Flattens
  <2>2. QED
    BY <1>2, <1>3, <2>1
<1>4. CASE m # 0
  <2>1. m - 1 \in Nat /\ m - 1 \notin T
    BY <1>2, <1>4
  <2>2. PICK f : Flattens(seqs, m - 1, f)
    BY <2>1
  <2> DEFINE g == [i \in 1 .. m |-> IF i = m THEN IF m = 1 THEN seqs[1] ELSE f[m - 1] \o seqs[m]
                                    ELSE f[i]]
  <2>3. ASSUME NEW i \in 1 .. m
        PROVE  g[i] = IF i = 1 THEN seqs[i] ELSE g[i - 1] \o seqs[i]
    <3>1. CASE i = m
      <4>1. m # 1 => m - 1 \in 1 .. m /\ g[m - 1] = f[m - 1]
        BY <1>2, <1>4
      <4>2. QED
        BY <3>1, <4>1
    <3>2. CASE i # m
      <4>1. i \in 1 .. m - 1 /\ g[i] = f[i]
        BY <1>2, <3>2
      <4>2. f[i] = IF i = 1 THEN seqs[i] ELSE f[i - 1] \o seqs[i]
        BY <2>2, <4>1 DEF Flattens
      <4>3. i # 1 => i - 1 \in 1 .. m /\ g[i - 1] = f[i - 1]
        BY <1>2, <4>1
      <4>4. QED
        BY <4>1, <4>2, <4>3
    <3>3. QED
      BY <3>1, <3>2
  <2>4. g = [i \in 1 .. m |-> IF i = 1 THEN seqs[i] ELSE g[i - 1] \o seqs[i]]
    <3> DEFINE G == [i \in 1 .. m |-> IF i = 1 THEN seqs[i] ELSE g[i - 1] \o seqs[i]]
    <3>1. \A i \in 1 .. m : g[i] = G[i]
      <4> HIDE DEF g
      <4>1. QED
        BY <2>3
    <3>2. QED
      BY <3>1
  <2>5. QED
    BY <1>2, <2>4 DEF Flattens
<1>5. QED
  BY <1>3, <1>4

\* Two sequences put into one.
LEMMA Concatenated ==
    ASSUME NEW s, IsSequence(s), NEW t, IsSequence(t)
    PROVE  IsSequence(s \o t) /\ Range(s \o t) = Range(s) \union Range(t)
<1> DEFINE S == Range(s) \union Range(t)
<1>1. s \in Seq(S) /\ t \in Seq(S)
  BY DEF IsSequence
<1> HIDE DEF S
<1>2. s \o t \in Seq(S) /\ Len(s \o t) = Len(s) + Len(t) /\ Len(s) \in Nat /\ Len(t) \in Nat
      /\ DOMAIN s = 1 .. Len(s) /\ DOMAIN t = 1 .. Len(t) /\ DOMAIN (s \o t) = 1 .. Len(s) + Len(t)
  BY <1>1
<1>3. \A i \in 1 .. Len(s) + Len(t) : (s \o t)[i] = IF i <= Len(s) THEN s[i] ELSE t[i - Len(s)]
  BY <1>1
<1>4. ASSUME NEW i \in DOMAIN (s \o t) PROVE (s \o t)[i] \in Range(s) \union Range(t)
  <2>1. CASE i <= Len(s)
    BY <1>2, <1>3, <2>1 DEF Range
  <2>2. CASE ~(i <= Len(s))
    <3>1. i - Len(s) \in DOMAIN t
      BY <1>2, <2>2
    <3>2. QED
      BY <1>2, <1>3, <2>2, <3>1 DEF Range
  <2>3. QED
    BY <2>1, <2>2
<1>5. ASSUME NEW i \in DOMAIN s PROVE s[i] \in Range(s \o t)
  <2>1. i \in DOMAIN (s \o t) /\ (s \o t)[i] = s[i]
    BY <1>2, <1>3
  <2>2. QED
    BY <2>1 DEF Range
<1>6. ASSUME NEW i \in DOMAIN t PROVE t[i] \in Range(s \o t)
  <2>1. Len(s) + i \in DOMAIN (s \o t) /\ (s \o t)[Len(s) + i] = t[i]
    BY <1>2, <1>3
  <2>2. QED
    BY <2>1 DEF Range
<1>7. Range(s \o t) = S
  BY <1>4, <1>5, <1>6 DEF Range, S
<1>8. QED
  BY <1>2, <1>7 DEF IsSequence, S

\* FlattenSeq has the elements of all its sequences and no others.
LEMMA Flattened ==
    ASSUME NEW seqs, IsSequence(seqs), \A k \in DOMAIN seqs : IsSequence(seqs[k])
    PROVE  /\ IsSequence(FlattenSeq(seqs))
           /\ Range(FlattenSeq(seqs)) = UNION {Range(seqs[k]) : k \in DOMAIN seqs}
<1> DEFINE n == Len(seqs)
           g == CHOOSE f : f = [i \in 1 .. n |-> IF i = 1 THEN seqs[i] ELSE f[i - 1] \o seqs[i]]
<1>1. n \in Nat /\ DOMAIN seqs = 1 .. n
  BY DEF IsSequence
<1>2. CASE n = 0
  <2>1. FlattenSeq(seqs) = seqs
    BY <1>2 DEF FlattenSeq
  <2>2. DOMAIN seqs = {}
    BY <1>1, <1>2
  <2>3. QED
    BY <2>1, <2>2 DEF Range
<1>3. CASE n # 0
  <2>1. FlattenSeq(seqs) = g[n]
    BY <1>3 DEF FlattenSeq
  <2>2. \A f : Flattens(seqs, n, f) <=>
          f = [i \in 1 .. n |-> IF i = 1 THEN seqs[i] ELSE f[i - 1] \o seqs[i]]
    BY DEF Flattens
  <2>3. Flattens(seqs, n, g)
    BY <1>1, <2>2, FlattenExists
  <2>4. ASSUME NEW i \in 1 .. n PROVE g[i] = IF i = 1 THEN seqs[i] ELSE g[i - 1] \o seqs[i]
    <3> HIDE DEF g, n
    <3>1. QED
      BY <2>3 DEF Flattens
  <2> HIDE DEF g, n
  <2> DEFINE Correct(j) == /\ IsSequence(g[j])
                           /\ Range(g[j]) = UNION {Range(seqs[k]) : k \in 1 .. j}
             T == {j \in 1 .. n : ~Correct(j)}
  <2>5. SUFFICES ASSUME T # {} PROVE FALSE
    <3>1. Correct(n)
      BY <1>1, <1>3, <2>5
    <3>2. QED
      BY <1>1, <2>1, <3>1
  <2>6. PICK j \in T : \A i \in T : j <= i
    <3>1. T \subseteq Nat
      BY <1>1
    <3> HIDE DEF T
    <3>2. QED
      BY <2>5, <3>1, Least
  <2>7. j \in 1 .. n /\ ~Correct(j) /\ IsSequence(seqs[j])
    BY <1>1, <2>6
  <2>8. CASE j = 1
    <3>1. g[j] = seqs[j]
      BY <2>4, <2>7, <2>8
    <3>2. UNION {Range(seqs[k]) : k \in 1 .. j} = Range(seqs[j])
      BY <2>8
    <3>3. QED
      BY <2>7, <3>1, <3>2
  <2>9. CASE j # 1
    <3> DEFINE i == j - 1
    <3>1. i \in 1 .. n /\ i \notin T
      BY <1>1, <2>6, <2>7, <2>9
    <3>2. Correct(i) /\ g[j] = g[i] \o seqs[j]
      BY <2>4, <2>7, <2>9, <3>1
    <3>3. 1 .. j = 1 .. i \union {j}
      BY <1>1, <2>7, <2>9
    <3> HIDE DEF i
    <3>4. IsSequence(g[j]) /\ Range(g[j]) = Range(g[i]) \union Range(seqs[j])
      BY <2>7, <3>2, Concatenated
    <3>5. Range(g[j]) = UNION {Range(seqs[k]) : k \in 1 .. j}
      BY <3>2, <3>3, <3>4
    <3>6. QED
      BY <2>7, <3>4, <3>5
  <2>10. QED
    BY <2>8, <2>9
<1>4. QED
  BY <1>2, <1>3

\* What dashboards are compared by are numbers and strings of digits.
IsOrdered(o) ==
    {o.dashboard_version, o.content.text} \subseteq Int /\ o.relation_id \in Seq(0 .. 9)

\* Strings are compared at the first place where two of three differ.
LEMMA StringsAreOrdered ==
    ASSUME NEW s \in Seq(0 .. 9), NEW t \in Seq(0 .. 9), NEW u \in Seq(0 .. 9)
    PROVE  /\ ~StringBefore(s, s)
           /\ StringBefore(s, t) /\ StringBefore(t, u) => StringBefore(s, u)
<1>1. ~StringBefore(s, s)
  BY DEF StringBefore
<1>2. ASSUME StringBefore(s, t), StringBefore(t, u)
      PROVE  StringBefore(s, u)
  <2>1. PICK i \in 1 .. Len(t) : /\ \A m \in 1 .. i - 1 : m <= Len(s) /\ s[m] = t[m]
                                 /\ i <= Len(s) => s[i] < t[i]
    BY <1>2 DEF StringBefore
  <2>2. PICK j \in 1 .. Len(u) : /\ \A m \in 1 .. j - 1 : m <= Len(t) /\ t[m] = u[m]
                                 /\ j <= Len(t) => t[j] < u[j]
    BY <1>2 DEF StringBefore
  <2> DEFINE k == IF i < j THEN i ELSE j
  <2>3. k \in 1 .. Len(u)
    BY <2>1, <2>2
  <2>4. \A m \in 1 .. k - 1 : m <= Len(s) /\ s[m] = u[m]
    BY <2>1, <2>2
  <2>5. ASSUME k <= Len(s)
        PROVE  s[k] < u[k]
    <3>1. k \in 1 .. Len(s) /\ k \in 1 .. Len(t) /\ k \in 1 .. Len(u)
      BY <2>1, <2>2, <2>5
    <3>2. CASE i < j
      BY <2>1, <2>2, <2>5, <3>2
    <3>3. CASE j < i
      BY <2>1, <2>2, <2>5, <3>3
    <3>4. CASE i = j
      <4>1. k = i /\ k = j
        BY <3>4
      <4> HIDE DEF k
      <4>2. s[k] \in 0 .. 9 /\ t[k] \in 0 .. 9 /\ u[k] \in 0 .. 9
        BY <3>1
      <4>3. s[k] < t[k] /\ t[k] < u[k]
        BY <2>1, <2>2, <3>1, <4>1
      <4>4. \A a, b, c \in 0 .. 9 : a < b /\ b < c => a < c
        OBVIOUS
      <4>5. s[k] < u[k]
        BY <4>2, <4>3, <4>4
      <4>6. QED
        BY <4>5
    <3>5. QED
      BY <3>2, <3>3, <3>4
  <2>6. QED
    BY <2>3, <2>4, <2>5 DEF StringBefore
<1>3. QED
  BY <1>1, <1>2

\* Where p comes before o, and not before f, o does not come before f.
LEMMA BeforeIsTransitive ==
    ASSUME NEW o, NEW p, NEW f, IsOrdered(o), IsOrdered(p), IsOrdered(f), ~Before(p, f), Before(p, o)
    PROVE  ~Before(o, f)
BY StringsAreOrdered DEF Before, IsOrdered

\* No dashboard comes before itself.
LEMMA BeforeIsIrreflexive ==
    ASSUME NEW o, IsOrdered(o)
    PROVE  ~Before(o, o)
BY StringsAreOrdered DEF Before, IsOrdered

\* What is kept of the dashboards that were met.
Keeps(kept, met) ==
    /\ kept \subseteq met
    /\ \A o, p \in kept : o # p => o.dashboard_uid # p.dashboard_uid
    /\ \A o \in kept : o.dashboard_uid # NoUid
    /\ \A o \in met : o.dashboard_uid # NoUid =>
          \E p \in kept : p.dashboard_uid = o.dashboard_uid /\ ~Before(p, o)

\* One dashboard more, and of each uid the newest is still kept.
LEMMA NewestKeeps ==
    ASSUME NEW kept, NEW met, NEW o, Keeps(kept, met), \A p \in met \union {o} : IsOrdered(p)
    PROVE  Keeps(Newest(kept, o), met \union {o})
<1> DEFINE same == {p \in kept : p.dashboard_uid = o.dashboard_uid}
<1>1. CASE o.dashboard_uid = NoUid \/ \E p \in same : ~Before(p, o)
  <2>1. Newest(kept, o) = kept
    BY <1>1 DEF Newest
  <2>2. QED
    BY <1>1, <2>1 DEF Keeps
<1>2. CASE ~(o.dashboard_uid = NoUid \/ \E p \in same : ~Before(p, o))
  <2>1. Newest(kept, o) = (kept \ same) \union {o}
    BY <1>2 DEF Newest
  <2>2. ASSUME NEW f \in met \union {o}, f.dashboard_uid # NoUid
        PROVE  \E p \in (kept \ same) \union {o} : p.dashboard_uid = f.dashboard_uid /\ ~Before(p, f)
    <3>1. CASE f = o
      BY <3>1, BeforeIsIrreflexive
    <3>2. CASE f # o
      <4>1. PICK p \in kept : p.dashboard_uid = f.dashboard_uid /\ ~Before(p, f)
        BY <2>2, <3>2 DEF Keeps
      <4>2. CASE p \in same
        <5>1. Before(p, o) /\ IsOrdered(p) /\ IsOrdered(o) /\ IsOrdered(f)
          BY <1>2, <4>1, <4>2 DEF Keeps
        <5>2. ~Before(o, f)
          BY <4>1, <5>1, BeforeIsTransitive
        <5>3. QED
          BY <4>1, <4>2, <5>2
      <4>3. CASE p \notin same
        BY <4>1, <4>3
      <4>4. QED
        BY <4>2, <4>3
    <3>3. QED
      BY <3>1, <3>2
  <2>3. \A p, q \in (kept \ same) \union {o} : p # q => p.dashboard_uid # q.dashboard_uid
    BY DEF Keeps
  <2>4. QED
    BY <1>2, <2>1, <2>2, <2>3 DEF Keeps
<1>3. QED
  BY <1>1, <1>2

\* Of each uid the newest of a sequence of dashboards is kept.
LEMMA FoldKeeps ==
    ASSUME NEW found, IsSequence(found), \A o \in Range(found) : IsOrdered(o)
    PROVE  Keeps(FoldLeft(Newest, {}, found), Range(found))
<1> DEFINE n == Len(found) c == [fold |-> "newest"]
<1>1. n \in Nat /\ DOMAIN found = 1 .. n
  BY DEF IsSequence
<1>2. PICK h : Unfolds(c, {}, found, n, h) /\ FoldLeft(Newest, {}, found) = h[n]
  <2> HIDE DEF n
  <2>1. QED
    BY <1>1, NewestFold
<1> DEFINE Met(j) == {found[i] : i \in 1 .. j}
           P == {j \in 0 .. n : Keeps(h[j], Met(j))}
<1>3. Range(found) = Met(n)
  BY <1>1 DEF Range
<1>4. 0 \in P
  <2>1. h[0] = {} /\ Met(0) = {}
    BY <1>2 DEF Unfolds
  <2> HIDE DEF Met
  <2>2. Keeps(h[0], Met(0))
    BY <2>1 DEF Keeps
  <2>3. QED
    BY <1>1, <2>2
<1>5. ASSUME NEW i \in 0 .. n - 1, i \in P
      PROVE  i + 1 \in P
  <2>1. h[i + 1] = Newest(h[i], found[i + 1])
    BY <1>2, <1>5 DEF Unfolds, Apply
  <2>2. Met(i + 1) = Met(i) \union {found[i + 1]}
    <3>1. 1 .. i + 1 = 1 .. i \union {i + 1}
      BY <1>1
    <3>2. QED
      BY <3>1
  <2>3. \A o \in Met(i) \union {found[i + 1]} : IsOrdered(o)
    BY <1>1, <1>5 DEF Range
  <2> HIDE DEF Met
  <2>4. Keeps(h[i], Met(i))
    BY <1>5
  <2>5. Keeps(h[i + 1], Met(i + 1))
    BY <2>1, <2>2, <2>3, <2>4, NewestKeeps
  <2>6. QED
    BY <1>1, <2>5
<1>6. n \in P
  <2> HIDE DEF P, n
  <2>1. n \in 0 .. n
    BY <1>1
  <2>2. QED
    BY <1>1, <1>4, <1>5, <2>1, Upward
<1>7. Keeps(h[n], Met(n))
  <2> HIDE DEF Met
  <2>1. QED
    BY <1>6
<1>8. QED
  BY <1>2, <1>3, <1>7

\* What rendering leaves as it is.
LEMMA RenderedTemplate ==
    ASSUME NEW t, IsTemplate(t), NEW r \in Seq(0 .. 9)
    PROVE  LET o == External(r, Rendered(t)) raw == External(r, t) IN
             /\ o.id = t.original_id /\ o.relation_id = r /\ o.charm = t.charm
             /\ o.dashboard_uid = ManagedUid(t)
             /\ IsOrdered(o) /\ IsOrdered(raw)
             /\ o.dashboard_version = raw.dashboard_version /\ o.relation_id = raw.relation_id
             /\ o.content.text = raw.content.text /\ raw.id = t.original_id
<1> DEFINE converted == Converted(t.board, t.dropdowns)
           board == IF t.topology THEN Injected(converted) ELSE converted
           uid == ManagedUid(t)
<1>1. "text" \in DOMAIN converted /\ converted.text = t.board.text
  BY DEF IsTemplate, Converted
<1>2. board.text = t.board.text
  <2> HIDE DEF converted
  <2>1. QED
    BY <1>1 DEF Injected
<1> HIDE DEF board
<1>3. Rendered(t) = [t EXCEPT !.uid = uid, !.board = board]
  BY DEF Rendered, board
<1> HIDE DEF uid
<1>4. Rendered(t) = [original_id |-> t.original_id, charm |-> t.charm, alt |-> t.alt, uid |-> uid,
                     dropdowns |-> t.dropdowns, topology |-> t.topology, version |-> t.version,
                     board |-> board]
  BY <1>3 DEF IsTemplate
<1> DEFINE rendered == Rendered(t)
<1>5. /\ rendered.original_id = t.original_id /\ rendered.charm = t.charm
      /\ rendered.uid = uid /\ rendered.version = t.version /\ rendered.board.text = t.board.text
  BY <1>2, <1>4
<1> HIDE DEF rendered
<1>6. (IF t.version = NONE THEN 0 ELSE t.version) \in Int /\ t.board.text \in Int
  BY DEF IsTemplate
<1>7. QED
  BY <1>5, <1>6 DEF External, IsOrdered, rendered, uid

\* A function of the numbers up to n is a sequence.
LEMMA FunctionIsSequence ==
    ASSUME NEW n \in Nat, NEW f, f = [i \in 1 .. n |-> f[i]]
    PROVE  IsSequence(f) /\ DOMAIN f = 1 .. n /\ Len(f) = n
<1>1. f \in [1 .. n -> Range(f)]
  BY DEF Range
<1> DEFINE S == Range(f)
<1> HIDE DEF S
<1>2. f \in Seq(S) /\ Len(f) = n
  BY <1>1 DEF S
<1>3. QED
  BY <1>1, <1>2 DEF IsSequence, S

\* What Grafana's charm finds in what it stores.
Found(stored) ==
    UNION {{External(stored[k].relation, Rendered(stored[k].dashboards[i])) :
               i \in DOMAIN stored[k].dashboards} : k \in DOMAIN stored}

\* What is listed is kept of what is found in what is stored.
LEMMA ListedDashboards ==
    ASSUME given \in Collections, ListDashboards
    PROVE  Keeps(made', Found(given))
<1> DEFINE n == Len(given)
           rendered(k) == [i \in DOMAIN given[k].dashboards |-> Rendered(given[k].dashboards[i])]
           stored == [k \in DOMAIN given |->
                        [given[k] EXCEPT !.dashboards = [i \in DOMAIN @ |-> Rendered(@[i])]]]
           lists == [k \in DOMAIN stored |-> [i \in DOMAIN stored[k].dashboards |->
                        External(stored[k].relation, stored[k].dashboards[i])]]
           list(k) == [i \in DOMAIN given[k].dashboards |->
                         External(given[k].relation, Rendered(given[k].dashboards[i]))]
<1>1. n \in Nat /\ DOMAIN given = 1 .. n
  BY CollectionsAssumption DEF IsSequence
<1>2. ASSUME NEW k \in 1 .. n
      PROVE  /\ given[k] = [relation |-> given[k].relation, dashboards |-> given[k].dashboards]
             /\ given[k].relation \in Seq(0 .. 9) /\ IsSequence(given[k].dashboards)
             /\ \A i \in DOMAIN given[k].dashboards : IsTemplate(given[k].dashboards[i])
  BY <1>1, CollectionsAssumption
<1>3. ASSUME NEW k \in 1 .. n
      PROVE  stored[k].relation = given[k].relation /\ stored[k].dashboards = rendered(k)
  <2>1. stored[k] = [given[k] EXCEPT !.dashboards = rendered(k)]
    BY <1>1
  <2> HIDE DEF stored, rendered
  <2>2. QED
    BY <1>2, <2>1
<1>4. DOMAIN lists = 1 .. n /\ \A k \in 1 .. n : lists[k] = list(k)
  <2>1. DOMAIN stored = 1 .. n
    BY <1>1
  <2> HIDE DEF stored
  <2>2. QED
    BY <1>3, <2>1
<1>5. lists = [k \in 1 .. n |-> lists[k]]
  BY <1>1
<1> HIDE DEF lists
<1>6. IsSequence(lists)
  <2> HIDE DEF n
  <2>1. QED
    BY <1>1, <1>5, FunctionIsSequence
<1>7. ASSUME NEW k \in 1 .. n
      PROVE  IsSequence(lists[k])
  <2> DEFINE m == Len(given[k].dashboards) one == lists[k]
  <2>1. m \in Nat /\ DOMAIN given[k].dashboards = 1 .. m
    BY <1>2 DEF IsSequence
  <2>2. one = [i \in 1 .. m |-> one[i]]
    BY <1>4, <2>1
  <2> HIDE DEF m, one
  <2>3. QED
    BY <2>1, <2>2, FunctionIsSequence DEF one
<1>8. made' = FoldLeft(Newest, {}, FlattenSeq(lists))
  BY DEF ListDashboards, Dashboards, lists
<1>9. IsSequence(FlattenSeq(lists)) /\ Range(FlattenSeq(lists)) = UNION {Range(lists[k]) : k \in 1 .. n}
  BY <1>4, <1>6, <1>7, Flattened
<1>10. UNION {Range(lists[k]) : k \in 1 .. n} = Found(given)
  <2> DEFINE in(k) == {External(given[k].relation, Rendered(given[k].dashboards[i])) :
                          i \in DOMAIN given[k].dashboards}
  <2>1. Found(given) = UNION {in(k) : k \in 1 .. n}
    BY <1>1 DEF Found
  <2>2. \A k \in 1 .. n : Range(lists[k]) = in(k)
    BY <1>4 DEF Range
  <2> HIDE DEF in
  <2>3. QED
    BY <2>1, <2>2
<1>11. \A o \in Found(given) : IsOrdered(o)
  BY <1>1, <1>2, RenderedTemplate DEF Found
<1>12. QED
  BY <1>8, <1>9, <1>10, <1>11, FoldKeeps

\* What is kept of each uid is what was offered, once.
LEMMA CollectionIsShownOnce ==
    ASSUME given \in Collections, Keeps(made, Found(given))
    PROVE  DashboardsAreShownOnce
<1>1. \A k \in DOMAIN given : /\ given[k].relation \in Seq(0 .. 9)
                              /\ \A i \in DOMAIN given[k].dashboards : IsTemplate(given[k].dashboards[i])
  BY CollectionsAssumption
<1>2. ASSUME NEW o \in made
      PROVE  \E k \in DOMAIN given : \E i \in DOMAIN given[k].dashboards :
                LET t == given[k].dashboards[i] IN
                  /\ o.relation_id = given[k].relation /\ o.id = t.original_id /\ o.charm = t.charm
                  /\ o.dashboard_uid = ManagedUid(t)
  <2>k. PICK k \in DOMAIN given : \E i \in DOMAIN given[k].dashboards :
            o = External(given[k].relation, Rendered(given[k].dashboards[i]))
    BY <1>2 DEF Keeps, Found
  <2>1. PICK i \in DOMAIN given[k].dashboards :
            o = External(given[k].relation, Rendered(given[k].dashboards[i]))
    BY <2>k
  <2>2. QED
    BY <1>1, <2>1, RenderedTemplate
<1>3. ASSUME NEW x \in Offered, ManagedUid(x[2]) = NoUid, NEW p \in made,
             p.id = External(x[1], x[2]).id, p.relation_id = x[1]
      PROVE  FALSE
  <2>k. PICK k \in DOMAIN given : \E i \in DOMAIN given[k].dashboards :
            x = <<given[k].relation, given[k].dashboards[i]>>
    BY <1>3 DEF Offered
  <2>1. PICK i \in DOMAIN given[k].dashboards :
            x = <<given[k].relation, given[k].dashboards[i]>>
    BY <2>k
  <2>l. PICK l \in DOMAIN given : \E j \in DOMAIN given[l].dashboards :
            /\ p.relation_id = given[l].relation /\ p.id = given[l].dashboards[j].original_id
            /\ p.dashboard_uid = ManagedUid(given[l].dashboards[j])
    BY <1>2
  <2>2. PICK j \in DOMAIN given[l].dashboards :
            /\ p.relation_id = given[l].relation /\ p.id = given[l].dashboards[j].original_id
            /\ p.dashboard_uid = ManagedUid(given[l].dashboards[j])
    BY <2>l
  <2>3. given[k].relation = given[l].relation /\
        given[k].dashboards[i].original_id = given[l].dashboards[j].original_id
    BY <1>3, <2>1, <2>2 DEF External
  <2>4. k = l
    BY <2>3, CollectionsAssumption
  <2>5. i = j
    BY <2>3, <2>4, CollectionsAssumption
  <2>6. p.dashboard_uid = NoUid
    BY <1>3, <2>1, <2>2, <2>4, <2>5
  <2>7. QED
    BY <2>6 DEF Keeps
<1>4. ASSUME NEW x \in Offered, ManagedUid(x[2]) # NoUid
      PROVE  \E p \in made : p.dashboard_uid = ManagedUid(x[2]) /\ ~Before(p, External(x[1], x[2]))
  <2>k. PICK k \in DOMAIN given : \E i \in DOMAIN given[k].dashboards :
            x = <<given[k].relation, given[k].dashboards[i]>>
    BY <1>4 DEF Offered
  <2>1. PICK i \in DOMAIN given[k].dashboards :
            x = <<given[k].relation, given[k].dashboards[i]>>
    BY <2>k
  <2> DEFINE o == External(x[1], Rendered(x[2])) raw == External(x[1], x[2])
  <2>2. x[1] \in Seq(0 .. 9) /\ IsTemplate(x[2]) /\ o \in Found(given)
    BY <1>1, <2>1 DEF Found
  <2>3. /\ o.dashboard_uid = ManagedUid(x[2])
        /\ o.dashboard_version = raw.dashboard_version /\ o.relation_id = raw.relation_id
        /\ o.content.text = raw.content.text
    BY <2>2, RenderedTemplate
  <2> HIDE DEF o, raw
  <2>4. PICK p \in made : p.dashboard_uid = o.dashboard_uid /\ ~Before(p, o)
    BY <1>4, <2>2, <2>3 DEF Keeps
  <2>5. ~Before(p, raw)
    BY <2>3, <2>4 DEF Before
  <2>6. QED
    BY <2>3, <2>4, <2>5 DEF raw
<1>5. \A o, p \in made : o # p => o.dashboard_uid # p.dashboard_uid
  BY DEF Keeps
<1>6. \A o \in made : \E x \in Offered :
          o.relation_id = x[1] /\ o.id = x[2].original_id /\ o.charm = x[2].charm
  <2>1. \A k \in DOMAIN given : \A i \in DOMAIN given[k].dashboards :
            <<given[k].relation, given[k].dashboards[i]>> \in Offered
    BY DEF Offered
  <2>2. ASSUME NEW o \in made
        PROVE  \E x \in Offered : o.relation_id = x[1] /\ o.id = x[2].original_id /\ o.charm = x[2].charm
    <3>k. PICK k \in DOMAIN given : \E i \in DOMAIN given[k].dashboards :
              /\ o.relation_id = given[k].relation /\ o.id = given[k].dashboards[i].original_id
              /\ o.charm = given[k].dashboards[i].charm
      BY <1>2
    <3>1. PICK i \in DOMAIN given[k].dashboards :
              /\ o.relation_id = given[k].relation /\ o.id = given[k].dashboards[i].original_id
              /\ o.charm = given[k].dashboards[i].charm
      BY <3>k
    <3> DEFINE x == <<given[k].relation, given[k].dashboards[i]>>
    <3>2. x \in Offered /\ o.relation_id = x[1] /\ o.id = x[2].original_id /\ o.charm = x[2].charm
      BY <2>1, <3>1
    <3>3. QED
      BY <3>2
  <2>3. QED
    BY <2>2
<1>7. QED
  BY <1>3, <1>4, <1>5, <1>6 DEF DashboardsAreShownOnce

\* A collection is one of the constants', and what is listed is kept of what is found in it.
CollectionInv ==
    subject = "collection" => given \in Collections /\ (made # NONE => Keeps(made, Found(given)))

\* Every dashboard with a uid is shown or gives way to one that is not older, and no uid is shown
\* twice, whatever the relations and their templates are (grafana_dashboard.py:1836).
THEOREM DashboardsAreListedOnce == ContentSpec => []DashboardsAreShownOnce
<1>1. ContentInit => CollectionInv
  BY DEF ContentInit, CollectionInv
<1>2. CollectionInv /\ [ContentNext]_contentVars => CollectionInv'
  <2>1. SUFFICES ASSUME CollectionInv, [ContentNext]_contentVars, subject' = "collection"
                 PROVE  given' \in Collections /\ (made' # NONE => Keeps(made', Found(given')))
    BY DEF CollectionInv
  <2>2. subject = "collection" /\ given' = given
    BY <2>1 DEF ContentNext, contentVars
  <2>3. CASE UNCHANGED contentVars
    BY <2>1, <2>2, <2>3 DEF CollectionInv, contentVars
  <2>4. CASE ListDashboards
    BY <2>1, <2>2, <2>4, ListedDashboards DEF CollectionInv
  <2>5. QED
    BY <2>1, <2>2, <2>3, <2>4 DEF ContentNext, ShowBoard, RunActions, Scrape, LoadRules, FetchFields, Log
<1>3. CollectionInv => DashboardsAreShownOnce
  <2>1. CASE Done("collection")
    BY <2>1, CollectionIsShownOnce DEF CollectionInv, Done
  <2>2. CASE ~Done("collection")
    BY <2>2 DEF DashboardsAreShownOnce
  <2>3. QED
    BY <2>1, <2>2
<1>4. QED
  BY <1>1, <1>2, <1>3, PTL DEF ContentSpec

(***************************************************************************)
(* Scrape targets.                                                         *)
(***************************************************************************)

FirstFold == [fold |-> "first"]

\* Folding to keep the first of each element.
LEMMA FirstOfFold ==
    ASSUME NEW seq, NEW n \in Nat, DOMAIN seq = 1 .. n
    PROVE  \E h : Unfolds(FirstFold, << >>, seq, n, h) /\ FirstOf(seq) = h[n]
<1> DEFINE c == FirstFold
           step(a, b) == IF b \in Range(a) THEN a ELSE Append(a, b)
           Fold(f) == f = [s \in SUBSET DOMAIN seq |->
                        IF s = {} THEN << >> ELSE step(f[s \ {Max(s)}], seq[Max(s)])]
           g == CHOOSE f : Fold(f)
<1>1. FirstOf(seq) = g[DOMAIN seq]
  BY DEF FirstOf, FoldLeft, MapThenFoldSet
<1>2. \E f : IsFold(c, << >>, seq, n, f)
  BY FoldExists
<1>3. \A a, b : Apply(c, a, b) = step(a, b)
  BY DEF Apply, FirstFold
<1>4. \A f : IsFold(c, << >>, seq, n, f) <=> Fold(f)
  <2> HIDE DEF step, c
  <2>1. QED
    BY <1>3 DEF IsFold, FoldStep
<1>5. IsFold(c, << >>, seq, n, g)
  <2> HIDE DEF Fold
  <2>1. QED
    BY <1>2, <1>4
<1>6. PICK h : Unfolds(c, << >>, seq, n, h) /\ h[n] = g[1 .. n]
  <2> HIDE DEF g, c
  <2>1. QED
    BY <1>5, FoldPrefixes
<1>7. QED
  BY <1>1, <1>6

\* A sequence in which nothing is twice.
IsDistinct(s) == \A i, j \in DOMAIN s : i # j => s[i] # s[j]

\* A sequence with one more element at its end.
LEMMA OneMore ==
    ASSUME NEW s, IsSequence(s), NEW e
    PROVE  LET t == Append(s, e) IN
             /\ IsSequence(t) /\ Range(t) = Range(s) \union {e}
             /\ IsDistinct(s) /\ e \notin Range(s) => IsDistinct(t)
<1> DEFINE S == Range(s) \union {e}
           n == Len(s)
           t == Append(s, e)
<1>1. s \in Seq(S)
  BY DEF IsSequence
<1>2. e \in S
  OBVIOUS
<1> HIDE DEF S
<1>3. /\ t \in Seq(S) /\ n \in Nat /\ DOMAIN s = 1 .. n /\ DOMAIN t = 1 .. n + 1
      /\ t[n + 1] = e /\ \A i \in 1 .. n : t[i] = s[i]
  BY <1>1, <1>2
<1> HIDE DEF t, n
<1>4. Range(t) = S
  <2>1. ASSUME NEW x \in S PROVE x \in Range(t)
    <3>1. CASE x = e
      BY <1>3, <3>1 DEF Range
    <3>2. CASE x \in Range(s)
      BY <1>3, <3>2 DEF Range
    <3>3. QED
      BY <2>1, <3>1, <3>2 DEF S
  <2>2. Range(t) \subseteq S
    BY <1>3 DEF Range
  <2>3. QED
    BY <2>1, <2>2
<1>5. ASSUME IsDistinct(s), e \notin Range(s) PROVE IsDistinct(t)
  <2>1. SUFFICES ASSUME NEW i \in 1 .. n + 1, NEW j \in 1 .. n + 1, i < j PROVE t[i] # t[j]
    BY <1>3 DEF IsDistinct
  <2>2. i \in 1 .. n /\ t[i] = s[i] /\ s[i] \in Range(s)
    BY <1>3, <2>1 DEF Range
  <2>3. CASE j = n + 1
    BY <1>3, <1>5, <2>2, <2>3
  <2>4. CASE j # n + 1
    <3>1. j \in 1 .. n /\ t[j] = s[j] /\ i # j
      BY <1>3, <2>1, <2>4
    <3>2. QED
      BY <1>3, <1>5, <2>2, <3>1 DEF IsDistinct
  <2>5. QED
    BY <2>3, <2>4
<1>6. t \in Seq(Range(t))
  BY <1>3, <1>4
<1>7. QED
  BY <1>4, <1>5, <1>6 DEF IsSequence, S, t

\* FirstOf keeps every element, once.
LEMMA EachIsKeptOnce ==
    ASSUME NEW seq, IsSequence(seq)
    PROVE  /\ IsSequence(FirstOf(seq)) /\ Range(FirstOf(seq)) = Range(seq)
           /\ IsDistinct(FirstOf(seq))
<1> DEFINE n == Len(seq)
<1>1. n \in Nat /\ DOMAIN seq = 1 .. n
  BY DEF IsSequence
<1> HIDE DEF n
<1>2. PICK h : Unfolds(FirstFold, << >>, seq, n, h) /\ FirstOf(seq) = h[n]
  BY <1>1, FirstOfFold
<1> DEFINE upTo(k) == {seq[i] : i \in 1 .. k}
           P == {k \in 0 .. n : /\ IsSequence(h[k]) /\ IsDistinct(h[k])
                                /\ Range(h[k]) = upTo(k)}
<1>3. 0 \in P
  <2>1. h[0] = << >>
    BY <1>2 DEF Unfolds
  <2>2. IsSequence(<< >>) /\ IsDistinct(<< >>) /\ Range(<< >>) = {}
    BY DEF IsSequence, IsDistinct, Range
  <2>3. upTo(0) = {}
    OBVIOUS
  <2>4. QED
    BY <1>1, <2>1, <2>2, <2>3
<1>4. ASSUME NEW k \in 0 .. n - 1, k \in P PROVE k + 1 \in P
  <2> DEFINE e == seq[k + 1]
  <2>1. h[k + 1] = IF e \in Range(h[k]) THEN h[k] ELSE Append(h[k], e)
    <3>1. h[k + 1] = Apply(FirstFold, h[k], e)
      BY <1>2 DEF Unfolds
    <3>2. QED
      BY <3>1 DEF Apply, FirstFold
  <2>2. upTo(k + 1) = upTo(k) \union {e} /\ k + 1 \in 0 .. n
    <3>1. 1 .. k + 1 = (1 .. k) \union {k + 1} /\ k + 1 \in 0 .. n
      BY <1>1
    <3>2. QED
      BY <3>1
  <2> HIDE DEF e, upTo
  <2>3. IsSequence(h[k]) /\ IsDistinct(h[k]) /\ Range(h[k]) = upTo(k)
    BY <1>4
  <2>4. CASE e \in Range(h[k])
    BY <2>1, <2>2, <2>3, <2>4
  <2>5. CASE e \notin Range(h[k])
    <3>1. h[k + 1] = Append(h[k], e)
      BY <2>1, <2>5
    <3>2. /\ IsSequence(h[k + 1]) /\ IsDistinct(h[k + 1])
          /\ Range(h[k + 1]) = Range(h[k]) \union {e}
      BY <2>3, <2>5, <3>1, OneMore
    <3>3. QED
      BY <2>2, <2>3, <3>2
  <2>6. QED
    BY <2>4, <2>5
<1>5. \A j \in 0 .. n : j \in P
  <2> HIDE DEF P
  <2>1. QED
    BY <1>1, <1>3, <1>4, Upward
<1>6. n \in P
  <2>1. n \in 0 .. n
    BY <1>1
  <2> HIDE DEF P
  <2>2. QED
    BY <1>5, <2>1
<1>7. upTo(n) = Range(seq)
  BY <1>1 DEF Range
<1>8. QED
  BY <1>2, <1>6, <1>7

\* A job that Prometheus's charm made: its name tells its unit, and a hash is of what it scrapes.
IsMade(j) ==
    /\ j = [name |-> j.name, path |-> j.path, statics |-> j.statics, unit |-> j.unit,
            valid |-> j.valid]
    /\ j.name = [app |-> j.name.app, job |-> j.name.job, unit |-> j.unit, hash |-> j.name.hash]
    /\ j.name.hash = << >> \/ \E h : j.name.hash = <<h, j.path, j.statics>>
    /\ j.valid \in BOOLEAN

\* Jobs that scrape the same for the same application.
ScrapesTheSame(i, j) ==
    /\ i.name.app = j.name.app /\ i.path = j.path /\ i.statics = j.statics
    /\ i.unit = j.unit /\ i.valid = j.valid

Hashed(j) == [j EXCEPT !.name.hash = <<j.name.hash, j.path, j.statics>>]

\* A hash in its name changes nothing else of a job.
LEMMA HashedJob ==
    ASSUME NEW j, IsMade(j)
    PROVE  /\ Hashed(j) = [name |-> [app |-> j.name.app, job |-> j.name.job, unit |-> j.unit,
                                     hash |-> <<j.name.hash, j.path, j.statics>>],
                           path |-> j.path, statics |-> j.statics, unit |-> j.unit,
                           valid |-> j.valid]
           /\ IsMade(Hashed(j)) /\ ScrapesTheSame(Hashed(j), j)
<1> DEFINE name == [app |-> j.name.app, job |-> j.name.job, unit |-> j.unit,
                    hash |-> <<j.name.hash, j.path, j.statics>>]
           job == [name |-> name, path |-> j.path, statics |-> j.statics, unit |-> j.unit,
                   valid |-> j.valid]
<1>1. [j.name EXCEPT !.hash = <<j.name.hash, j.path, j.statics>>] = name
  <2> DEFINE n == j.name hash == <<j.name.hash, j.path, j.statics>>
  <2>1. n = [app |-> n.app, job |-> n.job, unit |-> j.unit, hash |-> n.hash]
    BY DEF IsMade
  <2> HIDE DEF n, hash
  <2>2. [n EXCEPT !.hash = hash] = [app |-> n.app, job |-> n.job, unit |-> j.unit, hash |-> hash]
    BY <2>1
  <2>3. QED
    BY <2>2 DEF n, hash
<1>2. Hashed(j) = [j EXCEPT !.name = [j.name EXCEPT !.hash = <<j.name.hash, j.path, j.statics>>]]
  BY DEF Hashed, IsMade
<1>3. Hashed(j) = job
  <2> HIDE DEF name
  <2>1. [j EXCEPT !.name = name] = job
    BY DEF IsMade
  <2>2. QED
    BY <1>1, <1>2, <2>1
<1>4. IsMade(job) /\ ScrapesTheSame(job, j)
  <2>1. /\ job = [name |-> job.name, path |-> job.path, statics |-> job.statics, unit |-> job.unit,
                  valid |-> job.valid]
        /\ ScrapesTheSame(job, j)
    BY DEF ScrapesTheSame
  <2>2. job.name = [app |-> job.name.app, job |-> job.name.job, unit |-> job.unit,
                    hash |-> job.name.hash]
    OBVIOUS
  <2>3. job.name.hash = <<j.name.hash, job.path, job.statics>>
    OBVIOUS
  <2>4. job.valid \in BOOLEAN
    BY DEF IsMade
  <2> HIDE DEF job
  <2>5. QED
    BY <2>1, <2>2, <2>3, <2>4 DEF IsMade
<1>5. QED
  BY <1>3, <1>4

\* Several of the jobs have the name of this one.
HasNamesake(j, jobs) ==
    \E k, l \in DOMAIN jobs : k # l /\ jobs[k].name = j.name /\ jobs[l].name = j.name
NamedApart(j, jobs) == IF HasNamesake(j, jobs) THEN Hashed(j) ELSE j

\* Jobs that are named apart have names of their own, or are the same job.
LEMMA NamesTellApart ==
    ASSUME NEW jobs, \A k \in DOMAIN jobs : IsMade(jobs[k]) /\ jobs[k].valid,
           NEW k \in DOMAIN jobs, NEW l \in DOMAIN jobs,
           NamedApart(jobs[k], jobs).name = NamedApart(jobs[l], jobs).name
    PROVE  NamedApart(jobs[k], jobs) = NamedApart(jobs[l], jobs)
<1> DEFINE x == jobs[k] y == jobs[l]
<1>1. IsMade(x) /\ IsMade(y) /\ x.valid = y.valid
  BY DEF IsMade
<1> DEFINE a == NamedApart(x, jobs) b == NamedApart(y, jobs)
<1>2. /\ IsMade(a) /\ IsMade(b) /\ a.valid = x.valid /\ b.valid = y.valid
      /\ a.path = x.path /\ a.statics = x.statics /\ b.path = y.path /\ b.statics = y.statics
  BY <1>1, HashedJob DEF NamedApart, ScrapesTheSame
<1>3. SUFFICES a.path = b.path /\ a.statics = b.statics
  <2>1. ASSUME a.path = b.path, a.statics = b.statics PROVE a = b
    <3>1. a.name = b.name /\ a.valid = b.valid
      BY <1>1, <1>2
    <3>2. a.unit = a.name.unit /\ b.unit = b.name.unit
      BY <1>2 DEF IsMade
    <3>3. /\ a = [name |-> a.name, path |-> a.path, statics |-> a.statics, unit |-> a.unit,
                  valid |-> a.valid]
          /\ b = [name |-> b.name, path |-> b.path, statics |-> b.statics, unit |-> b.unit,
                  valid |-> b.valid]
      BY <1>2 DEF IsMade
    <3> HIDE DEF a, b
    <3>4. QED
      BY <2>1, <3>1, <3>2, <3>3
  <2>2. QED
    BY <2>1
<1>4. a.name.hash = b.name.hash
  OBVIOUS
<1>5. CASE ~HasNamesake(x, jobs) /\ ~HasNamesake(y, jobs)
  BY <1>5 DEF NamedApart, HasNamesake
<1>6. CASE HasNamesake(x, jobs) /\ HasNamesake(y, jobs)
  <2>1. a.name.hash = <<x.name.hash, x.path, x.statics>> /\ b.name.hash = <<y.name.hash, y.path, y.statics>>
    BY <1>1, <1>6, HashedJob DEF NamedApart
  <2>2. QED
    BY <1>2, <1>4, <2>1
<1>7. CASE HasNamesake(x, jobs) /\ ~HasNamesake(y, jobs)
  <2>1. a.name.hash = <<x.name.hash, x.path, x.statics>>
    BY <1>1, <1>7, HashedJob DEF NamedApart
  <2>2. \E h : b.name.hash = <<h, b.path, b.statics>>
    BY <1>2, <1>4, <2>1 DEF IsMade
  <2>3. QED
    BY <1>2, <1>4, <2>1, <2>2
<1>8. CASE ~HasNamesake(x, jobs) /\ HasNamesake(y, jobs)
  <2>1. b.name.hash = <<y.name.hash, y.path, y.statics>>
    BY <1>1, <1>8, HashedJob DEF NamedApart
  <2>2. \E h : a.name.hash = <<h, a.path, a.statics>>
    BY <1>2, <1>4, <2>1 DEF IsMade
  <2>3. QED
    BY <1>2, <1>4, <2>1, <2>2
<1>9. QED
  BY <1>5, <1>6, <1>7, <1>8

\* Deduped keeps what is scraped, by jobs with names of their own.
LEMMA DedupedJobs ==
    ASSUME NEW jobs, IsSequence(jobs), \A k \in DOMAIN jobs : IsMade(jobs[k])
    PROVE  LET kept == Deduped(jobs) IN
             /\ IsSequence(kept)
             /\ \A j \in Range(kept) : IsMade(j) /\ \E i \in Range(jobs) : ScrapesTheSame(j, i)
             /\ \A i \in Range(jobs) : \E j \in Range(kept) : ScrapesTheSame(j, i)
             /\ (\A k \in DOMAIN jobs : jobs[k].valid) =>
                    \A k, l \in DOMAIN kept : k # l => kept[k].name # kept[l].name
<1> DEFINE n == Len(jobs)
           renamed == [k \in DOMAIN jobs |-> NamedApart(jobs[k], jobs)]
           kept == FirstOf(renamed)
<1>1. Deduped(jobs) = kept
  BY DEF Deduped, NamedApart, HasNamesake, Hashed
<1>2. n \in Nat /\ DOMAIN jobs = 1 .. n
  BY DEF IsSequence
<1>3. renamed = [k \in 1 .. n |-> renamed[k]]
  BY <1>2
<1>4. \A k \in DOMAIN jobs : IsMade(renamed[k]) /\ ScrapesTheSame(renamed[k], jobs[k])
  <2>1. \A k \in DOMAIN jobs : ScrapesTheSame(jobs[k], jobs[k])
    BY DEF ScrapesTheSame
  <2>2. QED
    BY <2>1, HashedJob DEF NamedApart
<1>5. IsSequence(renamed) /\ DOMAIN renamed = DOMAIN jobs
  <2> HIDE DEF n
  <2>1. IsSequence(renamed)
    <3> HIDE DEF renamed
    <3>1. QED
      BY <1>2, <1>3, FunctionIsSequence
  <2>2. QED
    BY <2>1
<1>6. IsSequence(kept) /\ Range(kept) = Range(renamed) /\ IsDistinct(kept)
  <2> HIDE DEF renamed
  <2>1. QED
    BY <1>5, EachIsKeptOnce
<1>7. ASSUME \A k \in DOMAIN jobs : jobs[k].valid, NEW k \in DOMAIN kept, NEW l \in DOMAIN kept, k # l
      PROVE  kept[k].name # kept[l].name
  <2>1. kept[k] # kept[l] /\ kept[k] \in Range(renamed) /\ kept[l] \in Range(renamed)
    BY <1>6, <1>7 DEF IsDistinct, Range
  <2> HIDE DEF kept
  <2>2. PICK i \in DOMAIN jobs, j \in DOMAIN jobs :
            kept[k] = NamedApart(jobs[i], jobs) /\ kept[l] = NamedApart(jobs[j], jobs)
    BY <2>1 DEF Range
  <2> HIDE DEF renamed
  <2>3. QED
    BY <1>7, <2>1, <2>2, NamesTellApart
<1>8. \A j \in Range(kept) : IsMade(j) /\ \E i \in Range(jobs) : ScrapesTheSame(j, i)
  <2> HIDE DEF kept
  <2>1. \A j \in Range(renamed) : \E k \in DOMAIN jobs : j = renamed[k]
    BY <1>5 DEF Range
  <2> HIDE DEF renamed
  <2>2. \A k \in DOMAIN jobs : jobs[k] \in Range(jobs)
    BY DEF Range
  <2>3. QED
    BY <1>4, <1>6, <2>1, <2>2
<1>9. \A i \in Range(jobs) : \E j \in Range(kept) : ScrapesTheSame(j, i)
  <2> HIDE DEF kept
  <2>1. \A k \in DOMAIN jobs : renamed[k] \in Range(renamed)
    BY <1>5 DEF Range
  <2> HIDE DEF renamed
  <2>2. \A i \in Range(jobs) : \E k \in DOMAIN jobs : i = jobs[k]
    BY DEF Range
  <2>3. QED
    BY <1>4, <1>6, <2>1, <2>2
<1>10. QED
  <2> HIDE DEF kept, renamed
  <2>1. QED
    BY <1>1, <1>6, <1>7, <1>8, <1>9

\* What is taken of targets are those that are wanted.
LEMMA ThoseTargets ==
    ASSUME NEW targets, IsSequence(targets), NEW wanted
    PROVE  /\ IsSequence(Those(targets, wanted))
           /\ Range(Those(targets, wanted)) = Range(targets) \intersect wanted
<1> DEFINE n == Len(targets)
           parts == [k \in DOMAIN targets |->
                        IF targets[k] \in wanted THEN <<targets[k]>> ELSE << >>]
<1>1. n \in Nat /\ DOMAIN targets = 1 .. n
  BY DEF IsSequence
<1>2. parts = [k \in 1 .. n |-> parts[k]] /\ DOMAIN parts = DOMAIN targets
  BY <1>1
<1>3. ASSUME NEW k \in DOMAIN targets
      PROVE  /\ IsSequence(parts[k])
             /\ Range(parts[k]) = IF targets[k] \in wanted THEN {targets[k]} ELSE {}
  <2>1. parts[k] = IF targets[k] \in wanted THEN <<targets[k]>> ELSE << >>
    OBVIOUS
  <2> HIDE DEF parts
  <2>2. IsSequence(<< >>) /\ Range(<< >>) = {}
    BY DEF IsSequence, Range
  <2>3. Range(<<targets[k]>>) = {targets[k]}
    BY DEF Range
  <2>4. IsSequence(<<targets[k]>>)
    BY <2>3 DEF IsSequence
  <2>5. QED
    BY <2>1, <2>2, <2>3, <2>4
<1>4. Those(targets, wanted) = FlattenSeq(parts)
  BY DEF Those
<1>5. IsSequence(parts)
  <2> HIDE DEF parts, n
  <2>1. QED
    BY <1>1, <1>2, FunctionIsSequence
<1> HIDE DEF parts
<1>6. /\ IsSequence(FlattenSeq(parts))
      /\ Range(FlattenSeq(parts)) = UNION {Range(parts[k]) : k \in DOMAIN parts}
  BY <1>2, <1>3, <1>5, Flattened
<1>7. UNION {Range(parts[k]) : k \in DOMAIN parts} = Range(targets) \intersect wanted
  <2>1. ASSUME NEW t \in Range(targets) \intersect wanted
        PROVE  \E k \in DOMAIN parts : t \in Range(parts[k])
    BY <1>2, <1>3, <2>1 DEF Range
  <2>2. ASSUME NEW k \in DOMAIN parts, NEW t \in Range(parts[k])
        PROVE  t \in Range(targets) \intersect wanted
    <3>1. targets[k] \in wanted /\ t = targets[k]
      BY <1>2, <1>3, <2>2
    <3>2. QED
      BY <1>2, <3>1 DEF Range
  <2>3. QED
    BY <2>1, <2>2
<1>8. QED
  BY <1>4, <1>6, <1>7

\* The targets that stand for all units, and those at one.
LEMMA SortedTargets ==
    ASSUME NEW targets, IsSequence(targets), NEW hosts
    PROVE  /\ IsSequence(Wildcards(targets))
           /\ Range(Wildcards(targets)) = {t \in Range(targets) : IsWildcard(t)}
           /\ \A u : /\ IsSequence(ListedAt(targets, u, hosts))
                     /\ Range(ListedAt(targets, u, hosts)) =
                            {t \in Range(targets) : ~IsWildcard(t) /\ UnitAt(hosts, t[1]) = u}
<1>1. Range(targets) \intersect {t \in Range(targets) : IsWildcard(t)}
        = {t \in Range(targets) : IsWildcard(t)}
  OBVIOUS
<1>2. \A u : Range(targets) \intersect {t \in Range(targets) : ~IsWildcard(t) /\ UnitAt(hosts, t[1]) = u}
               = {t \in Range(targets) : ~IsWildcard(t) /\ UnitAt(hosts, t[1]) = u}
  OBVIOUS
<1>3. QED
  BY <1>1, <1>2, ThoseTargets DEF Wildcards, ListedAt

\* A sequence is empty when it has no elements.
LEMMA NoElements ==
    ASSUME NEW s, IsSequence(s)
    PROVE  (s = << >>) <=> (Range(s) = {})
<1>1. s \in Seq(Range(s))
  BY DEF IsSequence
<1>2. ASSUME s = << >> PROVE Range(s) = {}
  BY <1>2 DEF Range
<1>3. ASSUME Range(s) = {} PROVE s = << >>
  <2>1. DOMAIN s = 1 .. Len(s) /\ Len(s) \in Nat
    BY <1>1
  <2>2. \A i \in DOMAIN s : s[i] \in Range(s)
    BY DEF Range
  <2>3. 1 \notin 1 .. Len(s)
    BY <1>3, <2>1, <2>2
  <2>4. Len(s) = 0
    BY <2>1, <2>3
  <2>5. QED
    BY <1>1, <2>4
<1>4. QED
  BY <1>2, <1>3

\* SetToSeq puts the elements of a finite set into a sequence.
LEMMA SetAsSequence ==
    ASSUME NEW S, IsFiniteSet(S)
    PROVE  IsSequence(SetToSeq(S)) /\ Range(SetToSeq(S)) = S
<1> DEFINE n == Cardinality(S)
           s == SetToSeq(S)
<1>1. n \in Nat
  BY FS_CardinalityType
<1>2. PICK f : ExistsBijection(1 .. n, S) /\ f \in Bijection(1 .. n, S)
  BY FS_CardinalityType DEF ExistsBijection
<1>3. f \in [1 .. n -> S] /\ IsInjective(f)
  BY <1>2 DEF Bijection, Injection, IsInjective
<1>4. s \in [1 .. n -> S] /\ IsInjective(s)
  BY <1>3 DEF SetToSeq
<1>5. Range(s) = S
  <2>1. Range(s) \subseteq S
    BY <1>4 DEF Range
  <2>2. IsFiniteSet(Range(s))
    BY <2>1, FS_Subset
  <2>3. s \in Bijection(1 .. n, Range(s))
    BY <1>4 DEF Bijection, Injection, Surjection, IsInjective, Range
  <2>4. Cardinality(Range(s)) = n
    BY <1>1, <2>2, <2>3, FS_CountingElements DEF ExistsBijection
  <2>5. QED
    BY <2>1, <2>4, FS_Subset
<1>6. s = [i \in 1 .. n |-> s[i]]
  BY <1>4
<1>7. IsSequence(s)
  <2> HIDE DEF n, s
  <2>1. QED
    BY <1>1, <1>6, FunctionIsSequence
<1>8. QED
  BY <1>5, <1>7

\* What a job scrapes: a target, the path and the unit, as it is asked for.
Scraped(j) == {<<t[1], t[2], j.path, j.unit>> : t \in TargetsOf(j)}

\* A job as its application means it, whose static configurations are sequences.
IsFresh(j) ==
    /\ j = [name |-> j.name, path |-> j.path, statics |-> j.statics, unit |-> NONE,
            valid |-> j.valid]
    /\ j.name = [app |-> j.name.app, job |-> j.name.job, unit |-> NONE, hash |-> << >>]
    /\ j.valid \in BOOLEAN
HasTargets(j) == IsSequence(j.statics) /\ \A s \in Range(j.statics) : IsSequence(s)

\* Units, which are not NONE, with what they publish.
AreHosts(hosts) == IsFiniteSet(DOMAIN hosts) /\ NONE \notin DOMAIN hosts

\* What a job scrapes with a single static configuration.
LEMMA ScrapedByOne ==
    ASSUME NEW j, NEW targets, j.statics = <<targets>>
    PROVE  Scraped(j) = {<<t[1], t[2], j.path, j.unit>> : t \in Range(targets)}
<1>1. Range(<<targets>>) = {targets}
  BY DEF Range
<1>2. TargetsOf(j) = Range(targets)
  BY <1>1 DEF TargetsOf
<1>3. QED
  BY <1>2 DEF Scraped

IsFor(e, job, targets, u, hosts) ==
    /\ IsMade(e) /\ e.name.app = job.name.app /\ e.valid = job.valid
    /\ e.path = hosts[u].path \o job.path /\ e.unit = u /\ e.statics = <<targets>>

\* The job of a unit.
LEMMA UnitJob ==
    ASSUME NEW job, IsFresh(job), NEW targets, NEW u, NEW hosts
    PROVE  IsFor(PerUnit(job, targets, u, hosts), job, targets, u, hosts)
<1> DEFINE name == [app |-> job.name.app, job |-> job.name.job, unit |-> u, hash |-> << >>]
           path == hosts[u].path \o job.path
           statics == <<targets>>
           j == [name |-> name, path |-> path, statics |-> statics, unit |-> u,
                 valid |-> job.valid]
<1>1. [job.name EXCEPT !.unit = u] = name
  <2> DEFINE n == job.name
  <2>1. n = [app |-> n.app, job |-> n.job, unit |-> NONE, hash |-> << >>]
    BY DEF IsFresh
  <2> HIDE DEF n
  <2>2. [n EXCEPT !.unit = u] = [app |-> n.app, job |-> n.job, unit |-> u, hash |-> << >>]
    BY <2>1
  <2>3. QED
    BY <2>2 DEF n
<1>2. PerUnit(job, targets, u, hosts) = j
  <2> HIDE DEF name
  <2>1. DOMAIN job = {"name", "path", "statics", "unit", "valid"}
    BY DEF IsFresh
  <2>2. PerUnit(job, targets, u, hosts) =
          [job EXCEPT !.name = name, !.path = path, !.statics = statics, !.unit = u]
    BY <1>1, <2>1 DEF PerUnit
  <2> HIDE DEF path, statics
  <2> DEFINE each == [f \in DOMAIN job |->
                        IF f = "name" THEN name ELSE IF f = "path" THEN path
                        ELSE IF f = "statics" THEN statics ELSE IF f = "unit" THEN u ELSE job[f]]
  <2>3. [job EXCEPT !.name = name, !.path = path, !.statics = statics, !.unit = u] = each
    BY <2>1
  <2>4. each = j
    BY <2>1
  <2>5. QED
    BY <2>2, <2>3, <2>4
<1>3. IsMade(j) /\ j.name.app = job.name.app /\ j.valid = job.valid
  <2>1. /\ j = [name |-> j.name, path |-> j.path, statics |-> j.statics, unit |-> j.unit,
                valid |-> j.valid]
        /\ j.valid = job.valid
    OBVIOUS
  <2>2. /\ j.name = [app |-> j.name.app, job |-> j.name.job, unit |-> j.unit,
                     hash |-> j.name.hash]
        /\ j.name.hash = << >> /\ j.name.app = job.name.app
    OBVIOUS
  <2>3. j.valid \in BOOLEAN
    BY DEF IsFresh
  <2> HIDE DEF j
  <2>4. QED
    BY <2>1, <2>2, <2>3 DEF IsMade
<1>4. j.path = path /\ j.unit = u /\ j.statics = <<targets>>
  OBVIOUS
<1> HIDE DEF j
<1>5. IsFor(j, job, targets, u, hosts)
  BY <1>3, <1>4 DEF IsFor
<1>6. QED
  BY <1>2, <1>5

\* A job for each unit.
LEMMA UnitJobs ==
    ASSUME NEW job, NEW hosts, NEW targets, IsFiniteSet(DOMAIN targets)
    PROVE  /\ IsSequence(ForUnits(job, hosts, targets))
           /\ Range(ForUnits(job, hosts, targets)) =
                {PerUnit(job, targets[u], u, hosts) : u \in DOMAIN targets}
<1> DEFINE units == SetToSeq(DOMAIN targets)
           n == Len(units)
           jobs == ForUnits(job, hosts, targets)
<1>1. IsSequence(units) /\ Range(units) = DOMAIN targets
  BY SetAsSequence
<1>2. n \in Nat /\ DOMAIN units = 1 .. n
  BY <1>1 DEF IsSequence
<1>3. jobs = [k \in DOMAIN units |-> PerUnit(job, targets[units[k]], units[k], hosts)]
  BY DEF ForUnits
<1> HIDE DEF units, n, jobs
<1>4. jobs = [k \in 1 .. n |-> jobs[k]]
  BY <1>2, <1>3
<1>5. IsSequence(jobs)
  BY <1>2, <1>4, FunctionIsSequence
<1>6. Range(jobs) = {PerUnit(job, targets[u], u, hosts) : u \in DOMAIN targets}
  <2>1. \A u \in DOMAIN targets : \E k \in DOMAIN units : units[k] = u
    BY <1>1 DEF Range
  <2>2. \A k \in DOMAIN units : units[k] \in DOMAIN targets
    BY <1>1 DEF Range
  <2>3. QED
    BY <1>3, <2>1, <2>2 DEF Range
<1>7. QED
  BY <1>5, <1>6 DEF jobs

\* A job that is made of another one, for some of what that one asks.
IsExpandedFrom(e, job, hosts) ==
    /\ IsMade(e) /\ e.name.app = job.name.app /\ e.valid = job.valid
    /\ Scraped(e) # {} /\ Scraped(e) \subseteq AskedBy(job, hosts)

\* A host is at a unit, or at NONE.
LEMMA UnitOfHost ==
    ASSUME NEW hosts, NEW host
    PROVE  UnitAt(hosts, host) \in DOMAIN hosts \union {NONE}
<1> DEFINE at == {u \in DOMAIN hosts : host \in {hosts[u].address, hosts[u].fqdn}}
<1>1. UnitAt(hosts, host) = IF at = {} THEN NONE ELSE CHOOSE u \in at : TRUE
  BY DEF UnitAt
<1>2. at # {} => (CHOOSE u \in at : TRUE) \in at
  OBVIOUS
<1>3. at \subseteq DOMAIN hosts
  OBVIOUS
<1> HIDE DEF at
<1>4. QED
  BY <1>1, <1>2, <1>3

\* The two parts of ExpandedStatic.
ListedJobs(job, targets, hosts) ==
    LET matched == {u \in DOMAIN hosts : ListedAt(targets, u, hosts) # << >>}
    IN ForUnits(job, hosts, [u \in matched |-> ListedAt(targets, u, hosts)])
WildcardJobs(job, targets, hosts) ==
    LET all == Wildcards(targets)
        resolved(u) == [k \in DOMAIN all |-> <<hosts[u].address, all[k][2]>>]
    IN IF all = << >> THEN << >> ELSE ForUnits(job, hosts, [u \in DOMAIN hosts |-> resolved(u)])

\* Of the targets that are listed, those of each unit are scraped in a job of the unit.
LEMMA ListedExpand ==
    ASSUME NEW job, IsFresh(job), NEW targets \in Range(job.statics), IsSequence(targets),
           NEW hosts, AreHosts(hosts)
    PROVE  /\ IsSequence(ListedJobs(job, targets, hosts))
           /\ \A e \in Range(ListedJobs(job, targets, hosts)) : IsExpandedFrom(e, job, hosts)
           /\ \A t \in Range(targets) :
                 ~IsWildcard(t) /\ UnitAt(hosts, t[1]) # NONE =>
                     \A x \in AskedFor(t, job.path, hosts) :
                         \E e \in Range(ListedJobs(job, targets, hosts)) : x \in Scraped(e)
<1> DEFINE matched == {u \in DOMAIN hosts : ListedAt(targets, u, hosts) # << >>}
           listed == [u \in matched |-> ListedAt(targets, u, hosts)]
           jobs == ForUnits(job, hosts, listed)
           made_(u) == PerUnit(job, ListedAt(targets, u, hosts), u, hosts)
           at(u) == {t \in Range(targets) : ~IsWildcard(t) /\ UnitAt(hosts, t[1]) = u}
           scraped(u) == {<<t[1], t[2], hosts[u].path \o job.path, u>> : t \in at(u)}
<1>1. IsSequence(jobs) /\ Range(jobs) = {made_(u) : u \in matched}
  <2>1. DOMAIN listed = matched /\ \A u \in matched : listed[u] = ListedAt(targets, u, hosts)
    OBVIOUS
  <2>2. IsFiniteSet(matched)
    BY FS_Subset DEF AreHosts
  <2> HIDE DEF matched, listed
  <2>3. /\ IsSequence(jobs)
        /\ Range(jobs) = {PerUnit(job, listed[u], u, hosts) : u \in DOMAIN listed}
    BY <2>1, <2>2, UnitJobs
  <2>4. {PerUnit(job, listed[u], u, hosts) : u \in DOMAIN listed} = {made_(u) : u \in matched}
    BY <2>1
  <2>5. QED
    BY <2>3, <2>4
<1>2. ASSUME NEW u
      PROVE  IsSequence(ListedAt(targets, u, hosts)) /\ Range(ListedAt(targets, u, hosts)) = at(u)
  BY SortedTargets
<1>3. ASSUME NEW u
      PROVE  /\ IsMade(made_(u)) /\ made_(u).name.app = job.name.app /\ made_(u).valid = job.valid
             /\ Scraped(made_(u)) = scraped(u)
  <2> DEFINE ts == ListedAt(targets, u, hosts)
  <2>1. Range(ts) = at(u)
    BY <1>2
  <2>2. made_(u) = PerUnit(job, ts, u, hosts)
    OBVIOUS
  <2> DEFINE e == made_(u)
  <2> HIDE DEF at, ts, e
  <2>3. /\ IsMade(e) /\ e.name.app = job.name.app /\ e.valid = job.valid
        /\ Scraped(e) = {<<t[1], t[2], hosts[u].path \o job.path, u>> : t \in Range(ts)}
    <3>1. e = PerUnit(job, ts, u, hosts)
      BY <2>2 DEF e
    <3>2. IsFor(e, job, ts, u, hosts)
      BY <3>1, UnitJob
    <3>3. /\ IsMade(e) /\ e.name.app = job.name.app /\ e.valid = job.valid
          /\ e.path = hosts[u].path \o job.path /\ e.unit = u /\ e.statics = <<ts>>
      BY <3>2 DEF IsFor
    <3>4. Scraped(e) = {<<t[1], t[2], e.path, e.unit>> : t \in Range(ts)}
      BY <3>3, ScrapedByOne
    <3>5. QED
      BY <3>3, <3>4
  <2>4. QED
    BY <2>1, <2>3 DEF e
<1>4. ASSUME NEW u \in DOMAIN hosts, NEW t \in at(u)
      PROVE  AskedFor(t, job.path, hosts) = {<<t[1], t[2], hosts[u].path \o job.path, u>>}
  <2>1. t[1] # "*" /\ UnitAt(hosts, t[1]) = u /\ u # NONE
    BY <1>4 DEF IsWildcard, AreHosts
  <2>2. QED
    BY <2>1 DEF AskedFor
<1>5. ASSUME NEW u \in matched PROVE IsExpandedFrom(made_(u), job, hosts)
  <2>1. at(u) # {} /\ u \in DOMAIN hosts
    <3>1. ListedAt(targets, u, hosts) # << >> /\ u \in DOMAIN hosts
      BY <1>5
    <3> HIDE DEF at
    <3>2. QED
      BY <1>2, <3>1, NoElements
  <2>2. at(u) \subseteq TargetsOf(job)
    BY DEF TargetsOf
  <2>3. scraped(u) \subseteq AskedBy(job, hosts)
    <3> HIDE DEF at
    <3>1. QED
      BY <1>4, <2>1, <2>2 DEF AskedBy
  <2>4. scraped(u) # {}
    <3> HIDE DEF at
    <3>1. QED
      BY <2>1
  <2> HIDE DEF made_, scraped
  <2>5. QED
    BY <1>3, <2>3, <2>4 DEF IsExpandedFrom
<1>6. ASSUME NEW t \in Range(targets), ~IsWildcard(t), UnitAt(hosts, t[1]) # NONE,
             NEW x \in AskedFor(t, job.path, hosts)
      PROVE  \E e \in Range(jobs) : x \in Scraped(e)
  <2> DEFINE u == UnitAt(hosts, t[1])
  <2>1. u \in DOMAIN hosts /\ t \in at(u)
    BY <1>6, UnitOfHost
  <2>2. x \in scraped(u)
    <3> HIDE DEF at, u
    <3>1. QED
      BY <1>4, <1>6, <2>1
  <2>3. u \in matched
    <3> HIDE DEF at, u
    <3>1. ListedAt(targets, u, hosts) # << >>
      BY <1>2, <2>1, NoElements
    <3>2. QED
      BY <2>1, <3>1
  <2> HIDE DEF made_, scraped, matched, u, jobs
  <2>4. QED
    BY <1>1, <1>3, <2>2, <2>3
<1>7. QED
  <2>1. \A e \in Range(jobs) : IsExpandedFrom(e, job, hosts)
    <3> HIDE DEF made_, matched, jobs
    <3>1. QED
      BY <1>1, <1>5
  <2>2. ListedJobs(job, targets, hosts) = jobs
    BY DEF ListedJobs
  <2> HIDE DEF jobs
  <2>3. QED
    BY <1>1, <1>6, <2>1, <2>2

\* The targets that stand for all units are scraped in a job of each unit.
LEMMA WildcardsExpand ==
    ASSUME NEW job, IsFresh(job), NEW targets \in Range(job.statics), IsSequence(targets),
           NEW hosts, AreHosts(hosts)
    PROVE  /\ IsSequence(WildcardJobs(job, targets, hosts))
           /\ \A e \in Range(WildcardJobs(job, targets, hosts)) : IsExpandedFrom(e, job, hosts)
           /\ \A t \in Range(targets) :
                 IsWildcard(t) =>
                     \A x \in AskedFor(t, job.path, hosts) :
                         \E e \in Range(WildcardJobs(job, targets, hosts)) : x \in Scraped(e)
<1> DEFINE all == Wildcards(targets)
           wild == {t \in Range(targets) : IsWildcard(t)}
           resolved(u) == [k \in DOMAIN all |-> <<hosts[u].address, all[k][2]>>]
           each == [u \in DOMAIN hosts |-> resolved(u)]
           jobs == ForUnits(job, hosts, each)
           made_(u) == PerUnit(job, resolved(u), u, hosts)
           scraped(u) == {<<hosts[u].address, t[2], hosts[u].path \o job.path, u>> : t \in wild}
<1>1. IsSequence(all) /\ Range(all) = wild
  BY SortedTargets
<1>2. CASE all = << >>
  <2>1. wild = {}
    <3> HIDE DEF all, wild
    <3>1. QED
      BY <1>1, <1>2, NoElements
  <2>2. IsSequence(<< >>) /\ Range(<< >>) = {}
    BY DEF IsSequence, Range
  <2>3. WildcardJobs(job, targets, hosts) = << >>
    BY <1>2 DEF WildcardJobs
  <2>4. QED
    BY <2>1, <2>2, <2>3
<1>3. CASE all # << >>
  <2>1. IsSequence(jobs) /\ Range(jobs) = {made_(u) : u \in DOMAIN hosts}
    <3>1. DOMAIN each = DOMAIN hosts /\ \A u \in DOMAIN hosts : each[u] = resolved(u)
      OBVIOUS
    <3> HIDE DEF each, resolved
    <3>2. /\ IsSequence(jobs)
          /\ Range(jobs) = {PerUnit(job, each[u], u, hosts) : u \in DOMAIN each}
      BY <3>1, UnitJobs DEF AreHosts
    <3>3. {PerUnit(job, each[u], u, hosts) : u \in DOMAIN each} = {made_(u) : u \in DOMAIN hosts}
      BY <3>1
    <3>4. QED
      BY <3>2, <3>3
  <2>2. ASSUME NEW u
        PROVE  /\ IsMade(made_(u)) /\ made_(u).name.app = job.name.app
               /\ made_(u).valid = job.valid /\ Scraped(made_(u)) = scraped(u)
    <3>1. Range(resolved(u)) = {<<hosts[u].address, t[2]>> : t \in wild}
      <4> HIDE DEF all, wild
      <4>1. \A t \in wild : \E k \in DOMAIN all : all[k] = t
        BY <1>1 DEF Range
      <4>2. \A k \in DOMAIN all : all[k] \in wild
        BY <1>1 DEF Range
      <4>3. DOMAIN resolved(u) = DOMAIN all
            /\ \A k \in DOMAIN all : resolved(u)[k] = <<hosts[u].address, all[k][2]>>
        OBVIOUS
      <4> HIDE DEF resolved
      <4>4. QED
        BY SMTT(30), <4>1, <4>2, <4>3 DEF Range
    <3> DEFINE ts == resolved(u)
               path == hosts[u].path \o job.path
               of(r) == <<r[1], r[2], path, u>>
    <3>2. made_(u) = PerUnit(job, ts, u, hosts)
      OBVIOUS
    <3>3. Range(ts) = {<<hosts[u].address, t[2]>> : t \in wild}
      BY <3>1
    <3> DEFINE e == made_(u)
    <3> HIDE DEF ts, e
    <3>4. /\ IsMade(e) /\ e.name.app = job.name.app /\ e.valid = job.valid
          /\ Scraped(e) = {of(r) : r \in Range(ts)}
      <4>1. e = PerUnit(job, ts, u, hosts)
        BY <3>2 DEF e
      <4>2. IsFor(e, job, ts, u, hosts)
        BY <4>1, UnitJob
      <4>3. /\ IsMade(e) /\ e.name.app = job.name.app /\ e.valid = job.valid
            /\ e.path = path /\ e.unit = u /\ e.statics = <<ts>>
        BY <4>2 DEF IsFor
      <4>4. Scraped(e) = {<<t[1], t[2], e.path, e.unit>> : t \in Range(ts)}
        BY <4>3, ScrapedByOne
      <4> HIDE DEF path
      <4>5. QED
        BY <4>3, <4>4
    <3>5. {of(r) : r \in Range(ts)} = scraped(u)
      <4> HIDE DEF wild, path
      <4>1. \A t \in wild : of(<<hosts[u].address, t[2]>>) = <<hosts[u].address, t[2], path, u>>
        OBVIOUS
      <4>2. {of(r) : r \in Range(ts)} = {of(<<hosts[u].address, t[2]>>) : t \in wild}
        <5> HIDE DEF of
        <5>1. QED
          BY <3>3
      <4> HIDE DEF of
      <4>3. {of(r) : r \in Range(ts)} = {<<hosts[u].address, t[2], path, u>> : t \in wild}
        BY <4>1, <4>2
      <4>4. QED
        BY <4>3 DEF path
    <3>6. QED
      BY <3>4, <3>5 DEF e
  <2>3. ASSUME NEW t \in wild
        PROVE  AskedFor(t, job.path, hosts) =
                 {<<hosts[u].address, t[2], hosts[u].path \o job.path, u>> : u \in DOMAIN hosts}
    BY <2>3 DEF IsWildcard, AskedFor
  <2>4. ASSUME NEW u \in DOMAIN hosts PROVE IsExpandedFrom(made_(u), job, hosts)
    <3>1. wild # {}
      <4> HIDE DEF all, wild
      <4>1. QED
        BY <1>1, <1>3, NoElements
    <3>2. wild \subseteq TargetsOf(job)
      BY DEF TargetsOf
    <3> HIDE DEF wild
    <3>3. scraped(u) \subseteq AskedBy(job, hosts)
      BY <2>3, <2>4, <3>2 DEF AskedBy
    <3>4. scraped(u) # {}
      BY <3>1
    <3> HIDE DEF made_, scraped
    <3>5. QED
      BY <2>2, <3>3, <3>4 DEF IsExpandedFrom
  <2>5. ASSUME NEW t \in Range(targets), IsWildcard(t), NEW x \in AskedFor(t, job.path, hosts)
        PROVE  \E e \in Range(jobs) : x \in Scraped(e)
    <3>1. t \in wild
      BY <2>5
    <3>2. PICK u \in DOMAIN hosts : x \in scraped(u)
      <4> HIDE DEF wild
      <4>1. PICK u \in DOMAIN hosts :
                x = <<hosts[u].address, t[2], hosts[u].path \o job.path, u>>
        BY <2>3, <2>5, <3>1
      <4>2. x \in scraped(u)
        BY <3>1, <4>1
      <4>3. QED
        BY <4>2
    <3> HIDE DEF made_, scraped, jobs
    <3>3. QED
      BY <2>1, <2>2, <3>2
  <2>6. \A e \in Range(jobs) : IsExpandedFrom(e, job, hosts)
    <3> HIDE DEF made_, jobs
    <3>1. QED
      BY <2>1, <2>4
  <2>7. WildcardJobs(job, targets, hosts) = jobs
    BY <1>3 DEF WildcardJobs
  <2> HIDE DEF jobs
  <2>8. QED
    BY <2>1, <2>5, <2>6, <2>7
<1>4. QED
  BY <1>2, <1>3

\* One sequence after another: what is in it is in one of them.
LEMMA InEither ==
    ASSUME NEW s, IsSequence(s), NEW t, IsSequence(t)
    PROVE  IsSequence(s \o t) /\ \A x : x \in Range(s \o t) <=> x \in Range(s) \/ x \in Range(t)
  BY Concatenated

\* Every static configuration is expanded for the units.
LEMMA StaticExpands ==
    ASSUME NEW job, IsFresh(job), NEW targets \in Range(job.statics), IsSequence(targets),
           NEW hosts, AreHosts(hosts)
    PROVE  /\ IsSequence(ExpandedStatic(job, targets, hosts))
           /\ \A e \in Range(ExpandedStatic(job, targets, hosts)) : IsExpandedFrom(e, job, hosts)
           /\ \A t \in Range(targets) :
                  IsWildcard(t) \/ UnitAt(hosts, t[1]) # NONE =>
                      \A x \in AskedFor(t, job.path, hosts) :
                          \E e \in Range(ExpandedStatic(job, targets, hosts)) : x \in Scraped(e)
<1> DEFINE listed == ListedJobs(job, targets, hosts)
           wild == WildcardJobs(job, targets, hosts)
<1>1. ExpandedStatic(job, targets, hosts) = listed \o wild
  BY DEF ExpandedStatic, ListedJobs, WildcardJobs
<1>2. /\ IsSequence(listed) /\ \A e \in Range(listed) : IsExpandedFrom(e, job, hosts)
      /\ \A t \in Range(targets) :
            ~IsWildcard(t) /\ UnitAt(hosts, t[1]) # NONE =>
                \A x \in AskedFor(t, job.path, hosts) : \E e \in Range(listed) : x \in Scraped(e)
  BY ListedExpand
<1>3. /\ IsSequence(wild) /\ \A e \in Range(wild) : IsExpandedFrom(e, job, hosts)
      /\ \A t \in Range(targets) :
            IsWildcard(t) =>
                \A x \in AskedFor(t, job.path, hosts) : \E e \in Range(wild) : x \in Scraped(e)
  BY WildcardsExpand
<1> HIDE DEF listed, wild
<1>4. /\ IsSequence(listed \o wild)
      /\ \A x : x \in Range(listed \o wild) <=> x \in Range(listed) \/ x \in Range(wild)
  BY <1>2, <1>3, InEither
<1>5. QED
  BY <1>1, <1>2, <1>3, <1>4

\* The targets of a job that are at no unit.
Outside(job, hosts) == {t \in TargetsOf(job) : ~IsWildcard(t) /\ UnitAt(hosts, t[1]) = NONE}

\* The targets at no unit are scraped in a job that is what is left of theirs.
LEMMA OutsideIsLeft ==
    ASSUME NEW job, IsFresh(job), HasTargets(job), NEW hosts, AreHosts(hosts)
    PROVE  /\ IsSequence(Unmatched(job, hosts))
           /\ \A e \in Range(Unmatched(job, hosts)) : IsExpandedFrom(e, job, hosts)
           /\ \A t \in Outside(job, hosts) :
                  \A x \in AskedFor(t, job.path, hosts) :
                      \E e \in Range(Unmatched(job, hosts)) : x \in Scraped(e)
<1> DEFINE n == Len(job.statics)
           others(k) == ListedAt(job.statics[k], NONE, hosts)
           parts == [k \in DOMAIN job.statics |->
                        IF others(k) = << >> THEN << >> ELSE <<others(k)>>]
           statics == FlattenSeq(parts)
           e == [job EXCEPT !.statics = statics]
<1>1. n \in Nat /\ DOMAIN job.statics = 1 .. n
  BY DEF HasTargets, IsSequence
<1>2. ASSUME NEW k \in DOMAIN job.statics
      PROVE  /\ IsSequence(others(k))
             /\ Range(others(k)) = {t \in Range(job.statics[k]) :
                                        ~IsWildcard(t) /\ UnitAt(hosts, t[1]) = NONE}
  <2>1. IsSequence(job.statics[k])
    BY DEF HasTargets, Range
  <2>2. QED
    BY <2>1, SortedTargets
<1> HIDE DEF others
<1>3. ASSUME NEW k \in DOMAIN job.statics
      PROVE  /\ IsSequence(parts[k])
             /\ \A s : s \in Range(parts[k]) <=> s = others(k) /\ s # << >>
  <2>1. parts[k] = IF others(k) = << >> THEN << >> ELSE <<others(k)>>
    OBVIOUS
  <2> HIDE DEF parts
  <2>2. IsSequence(<< >>) /\ Range(<< >>) = {}
    BY DEF IsSequence, Range
  <2>3. Range(<<others(k)>>) = {others(k)}
    BY DEF Range
  <2>4. IsSequence(<<others(k)>>)
    BY <2>3 DEF IsSequence
  <2>5. QED
    BY <2>1, <2>2, <2>3, <2>4
<1>4. IsSequence(parts) /\ DOMAIN parts = DOMAIN job.statics
  <2>1. parts = [k \in 1 .. n |-> parts[k]] /\ DOMAIN parts = DOMAIN job.statics
    BY <1>1
  <2> HIDE DEF parts, n
  <2>2. QED
    BY <1>1, <2>1, FunctionIsSequence
<1> HIDE DEF parts
<1>5. /\ IsSequence(statics)
      /\ \A s : s \in Range(statics) <=>
                  \E k \in DOMAIN job.statics : s = others(k) /\ s # << >>
  <2>1. IsSequence(statics) /\ Range(statics) = UNION {Range(parts[k]) : k \in DOMAIN parts}
    BY <1>3, <1>4, Flattened
  <2>2. QED
    BY <1>3, <1>4, <2>1
<1>6. Unmatched(job, hosts) = IF statics = << >> THEN << >> ELSE <<e>>
  BY DEF Unmatched, parts, others
<1> HIDE DEF statics
<1>7. \A t : t \in UNION {Range(s) : s \in Range(statics)} <=> t \in Outside(job, hosts)
  <2>1. ASSUME NEW t \in Outside(job, hosts)
        PROVE  \E s \in Range(statics) : t \in Range(s)
    <3>1. PICK k \in DOMAIN job.statics : t \in Range(job.statics[k])
      BY DEF Outside, TargetsOf, Range
    <3>2. t \in Range(others(k))
      BY <1>2, <3>1 DEF Outside
    <3>3. others(k) # << >>
      BY <1>2, <3>2, NoElements
    <3>4. QED
      BY <1>5, <3>2, <3>3
  <2>2. ASSUME NEW s \in Range(statics), NEW t \in Range(s)
        PROVE  t \in Outside(job, hosts)
    <3>1. PICK k \in DOMAIN job.statics : s = others(k)
      BY <1>5
    <3>2. /\ t \in Range(job.statics[k]) /\ job.statics[k] \in Range(job.statics)
          /\ ~IsWildcard(t) /\ UnitAt(hosts, t[1]) = NONE
      BY <1>2, <3>1, <2>2 DEF Range
    <3>3. QED
      BY <3>2 DEF Outside, TargetsOf
  <2>3. QED
    BY <2>1, <2>2
<1>8. (statics = << >>) <=> (Outside(job, hosts) = {})
  <2>1. (statics = << >>) <=> (Range(statics) = {})
    BY <1>5, NoElements
  <2>2. \A s \in Range(statics) : Range(s) # {}
    BY <1>2, <1>5, NoElements
  <2>3. QED
    BY <1>7, <2>1, <2>2
<1>9. /\ e = [name |-> job.name, path |-> job.path, statics |-> statics, unit |-> NONE,
              valid |-> job.valid]
  BY DEF IsFresh
<1>10. /\ e.name = job.name /\ e.path = job.path /\ e.statics = statics /\ e.unit = NONE
       /\ e.valid = job.valid
  BY <1>9
<1> HIDE DEF e
<1>11. IsMade(e) /\ e.name.app = job.name.app
  <2>1. /\ e = [name |-> e.name, path |-> e.path, statics |-> e.statics, unit |-> e.unit,
                valid |-> e.valid]
        /\ e.valid \in BOOLEAN
    BY <1>9, <1>10 DEF IsFresh
  <2>2. /\ e.name = [app |-> e.name.app, job |-> e.name.job, unit |-> e.unit,
                     hash |-> e.name.hash]
        /\ e.name.hash = << >>
    BY <1>10 DEF IsFresh
  <2>3. QED
    BY <1>10, <2>1, <2>2 DEF IsMade
<1>12. TargetsOf(e) = Outside(job, hosts)
  BY <1>7, <1>10 DEF TargetsOf
<1>13. Scraped(e) = {<<t[1], t[2], e.path, e.unit>> : t \in Outside(job, hosts)}
  BY <1>12 DEF Scraped
<1>14. \A t \in Outside(job, hosts) :
            AskedFor(t, job.path, hosts) = {<<t[1], t[2], job.path, NONE>>}
  BY DEF Outside, IsWildcard, AskedFor
<1>15. \A t \in Outside(job, hosts) : t \in TargetsOf(job)
  BY DEF Outside
<1>16. CASE statics = << >>
  <2>1. Unmatched(job, hosts) = << >> /\ Outside(job, hosts) = {}
    BY <1>6, <1>8, <1>16
  <2>2. IsSequence(<< >>) /\ Range(<< >>) = {}
    BY DEF IsSequence, Range
  <2>3. QED
    BY <2>1, <2>2
<1>17. CASE statics # << >>
  <2>1. Unmatched(job, hosts) = <<e>> /\ Outside(job, hosts) # {}
    BY <1>6, <1>8, <1>17
  <2>2. Range(<<e>>) = {e}
    BY DEF Range
  <2>3. IsSequence(<<e>>)
    BY <2>2 DEF IsSequence
  <2>4. \A t \in Outside(job, hosts) :
            \A x \in AskedFor(t, job.path, hosts) : x \in Scraped(e)
    BY <1>10, <1>13, <1>14
  <2>5. Scraped(e) # {}
    BY <1>13, <2>1
  <2>6. Scraped(e) \subseteq AskedBy(job, hosts)
    BY <1>10, <1>13, <1>14, <1>15 DEF AskedBy
  <2>7. IsExpandedFrom(e, job, hosts)
    BY <1>10, <1>11, <2>5, <2>6 DEF IsExpandedFrom
  <2>8. QED
    BY <2>1, <2>2, <2>3, <2>4, <2>7
<1>18. QED
  BY <1>16, <1>17

\* All that a job is expanded to.
OneExpanded(job, hosts) ==
    FlattenSeq([i \in DOMAIN job.statics |-> ExpandedStatic(job, job.statics[i], hosts)])
    \o Unmatched(job, hosts)

\* What a job asks for is scraped by the jobs that it is expanded to, and nothing else.
LEMMA JobExpands ==
    ASSUME NEW job, IsFresh(job), HasTargets(job), NEW hosts, AreHosts(hosts)
    PROVE  /\ IsSequence(OneExpanded(job, hosts))
           /\ \A e \in Range(OneExpanded(job, hosts)) : IsExpandedFrom(e, job, hosts)
           /\ \A x \in AskedBy(job, hosts) :
                  \E e \in Range(OneExpanded(job, hosts)) : x \in Scraped(e)
<1> DEFINE n == Len(job.statics)
           parts == [i \in DOMAIN job.statics |-> ExpandedStatic(job, job.statics[i], hosts)]
           first == FlattenSeq(parts)
           rest == Unmatched(job, hosts)
<1>1. n \in Nat /\ DOMAIN job.statics = 1 .. n
  BY DEF HasTargets, IsSequence
<1>2. ASSUME NEW i \in DOMAIN job.statics
      PROVE  /\ IsSequence(parts[i]) /\ \A e \in Range(parts[i]) : IsExpandedFrom(e, job, hosts)
             /\ \A t \in Range(job.statics[i]) :
                   IsWildcard(t) \/ UnitAt(hosts, t[1]) # NONE =>
                       \A x \in AskedFor(t, job.path, hosts) :
                           \E e \in Range(parts[i]) : x \in Scraped(e)
  <2> DEFINE targets == job.statics[i]
  <2>1. targets \in Range(job.statics) /\ IsSequence(targets)
    BY DEF HasTargets, Range
  <2>2. parts[i] = ExpandedStatic(job, targets, hosts)
    OBVIOUS
  <2> HIDE DEF parts, targets
  <2>3. /\ IsSequence(ExpandedStatic(job, targets, hosts))
        /\ \A e \in Range(ExpandedStatic(job, targets, hosts)) : IsExpandedFrom(e, job, hosts)
        /\ \A t \in Range(targets) :
               IsWildcard(t) \/ UnitAt(hosts, t[1]) # NONE =>
                   \A x \in AskedFor(t, job.path, hosts) :
                       \E e \in Range(ExpandedStatic(job, targets, hosts)) : x \in Scraped(e)
    BY <2>1, StaticExpands
  <2>4. QED
    BY <2>2, <2>3 DEF targets
<1>3. IsSequence(parts) /\ DOMAIN parts = DOMAIN job.statics
  <2>1. parts = [i \in 1 .. n |-> parts[i]] /\ DOMAIN parts = DOMAIN job.statics
    BY <1>1
  <2> HIDE DEF parts, n
  <2>2. QED
    BY <1>1, <2>1, FunctionIsSequence
<1>4. OneExpanded(job, hosts) = first \o rest
  BY DEF OneExpanded
<1> HIDE DEF parts
<1>5. /\ IsSequence(first)
      /\ \A e : e \in Range(first) <=> \E i \in DOMAIN job.statics : e \in Range(parts[i])
  <2>1. IsSequence(first) /\ Range(first) = UNION {Range(parts[i]) : i \in DOMAIN parts}
    BY <1>2, <1>3, Flattened
  <2>2. QED
    BY <1>3, <2>1
<1>6. /\ IsSequence(rest) /\ \A e \in Range(rest) : IsExpandedFrom(e, job, hosts)
      /\ \A t \in Outside(job, hosts) :
             \A x \in AskedFor(t, job.path, hosts) : \E e \in Range(rest) : x \in Scraped(e)
  BY OutsideIsLeft
<1> HIDE DEF first, rest
<1>7. /\ IsSequence(first \o rest)
      /\ \A e : e \in Range(first \o rest) <=> e \in Range(first) \/ e \in Range(rest)
  BY <1>5, <1>6, InEither
<1>8. ASSUME NEW x \in AskedBy(job, hosts)
      PROVE  \E e \in Range(first \o rest) : x \in Scraped(e)
  <2>1. PICK t \in TargetsOf(job) : x \in AskedFor(t, job.path, hosts)
    BY DEF AskedBy
  <2>2. CASE ~IsWildcard(t) /\ UnitAt(hosts, t[1]) = NONE
    BY <1>6, <1>7, <2>1, <2>2 DEF Outside
  <2>3. CASE IsWildcard(t) \/ UnitAt(hosts, t[1]) # NONE
    <3>1. PICK i \in DOMAIN job.statics : t \in Range(job.statics[i])
      BY DEF TargetsOf, Range
    <3>2. PICK e \in Range(parts[i]) : x \in Scraped(e)
      BY <1>2, <2>1, <2>3, <3>1
    <3>3. QED
      BY <1>5, <1>7, <3>2
  <2>4. QED
    BY <2>2, <2>3
<1>9. \A e \in Range(first \o rest) : IsExpandedFrom(e, job, hosts)
  BY <1>2, <1>5, <1>6, <1>7
<1>10. QED
  BY <1>4, <1>7, <1>8, <1>9

\* What the jobs of a relation ask for is scraped, and nothing else.
LEMMA JobsExpand ==
    ASSUME NEW jobs, IsSequence(jobs), NEW hosts, AreHosts(hosts),
           \A k \in DOMAIN jobs : IsFresh(jobs[k]) /\ HasTargets(jobs[k])
    PROVE  /\ IsSequence(Expanded(jobs, hosts))
           /\ \A e \in Range(Expanded(jobs, hosts)) :
                  \E k \in DOMAIN jobs : IsExpandedFrom(e, jobs[k], hosts)
           /\ \A k \in DOMAIN jobs : \A x \in AskedBy(jobs[k], hosts) :
                  \E e \in Range(Expanded(jobs, hosts)) :
                     x \in Scraped(e) /\ IsExpandedFrom(e, jobs[k], hosts)
<1> DEFINE n == Len(jobs)
           parts == [k \in DOMAIN jobs |-> OneExpanded(jobs[k], hosts)]
           all == FlattenSeq(parts)
<1>1. n \in Nat /\ DOMAIN jobs = 1 .. n
  BY DEF IsSequence
<1>2. Expanded(jobs, hosts) = all
  BY DEF Expanded, OneExpanded
<1>3. parts = [k \in 1 .. n |-> parts[k]] /\ DOMAIN parts = DOMAIN jobs
      /\ \A k \in DOMAIN jobs : parts[k] = OneExpanded(jobs[k], hosts)
  BY <1>1
<1> HIDE DEF parts, n
<1>4. IsSequence(parts)
  BY <1>1, <1>3, FunctionIsSequence
<1>5. ASSUME NEW k \in DOMAIN jobs
      PROVE  /\ IsSequence(parts[k])
             /\ \A e \in Range(parts[k]) : IsExpandedFrom(e, jobs[k], hosts)
             /\ \A x \in AskedBy(jobs[k], hosts) : \E e \in Range(parts[k]) : x \in Scraped(e)
  <2> DEFINE job == jobs[k]
  <2>1. IsFresh(job) /\ HasTargets(job) /\ parts[k] = OneExpanded(job, hosts)
    BY <1>3
  <2> HIDE DEF job
  <2>2. /\ IsSequence(OneExpanded(job, hosts))
        /\ \A e \in Range(OneExpanded(job, hosts)) : IsExpandedFrom(e, job, hosts)
        /\ \A x \in AskedBy(job, hosts) :
               \E e \in Range(OneExpanded(job, hosts)) : x \in Scraped(e)
    BY <2>1, JobExpands
  <2>3. QED
    BY <2>1, <2>2 DEF job
<1>6. /\ IsSequence(all)
      /\ \A e : e \in Range(all) <=> \E k \in DOMAIN jobs : e \in Range(parts[k])
  <2>1. IsSequence(all) /\ Range(all) = UNION {Range(parts[k]) : k \in DOMAIN parts}
    BY <1>3, <1>4, <1>5, Flattened
  <2>2. QED
    BY <1>3, <2>1
<1> HIDE DEF all
<1>7. QED
  BY <1>2, <1>5, <1>6

\* What is left out of a job does not change anything else of it.
LEMMA SanitizedJob ==
    ASSUME NEW r, PublishesJobs(r), NEW job \in Range(r.jobs)
    PROVE  /\ Sanitized(job).name = job.name /\ Sanitized(job).valid = job.valid
           /\ job.valid \in BOOLEAN /\ HasTargets(Sanitized(job))
<1> DEFINE path == IF job.path = NONE THEN DefaultJob.path ELSE job.path
           statics == IF job.statics = NONE THEN DefaultJob.statics ELSE job.statics
           j == [name |-> job.name, path |-> path, statics |-> statics, valid |-> job.valid]
<1>1. /\ job = [name |-> job.name, path |-> job.path, statics |-> job.statics, valid |-> job.valid]
      /\ job.valid \in BOOLEAN
      /\ job.statics # NONE => IsSequence(job.statics) /\ \A s \in Range(job.statics) : IsSequence(s)
  BY DEF PublishesJobs
<1>2. Sanitized(job) = j
  <2>1. Sanitized(job) = [job EXCEPT !.path = path, !.statics = statics]
    BY <1>1 DEF Sanitized
  <2> HIDE DEF path, statics
  <2> DEFINE each == [f \in DOMAIN job |->
                        IF f = "path" THEN path ELSE IF f = "statics" THEN statics ELSE job[f]]
  <2>2. [job EXCEPT !.path = path, !.statics = statics] = each
    OBVIOUS
  <2>3. DOMAIN job = {"name", "path", "statics", "valid"}
    BY <1>1
  <2>4. each = j
    BY <2>3
  <2>5. QED
    BY <2>1, <2>2, <2>4
<1>3. IsSequence(statics) /\ \A s \in Range(statics) : IsSequence(s)
  <2>1. CASE job.statics = NONE
    <3> DEFINE one == <<"*", 80>> targets == <<one>>
    <3>1. statics = <<targets>>
      BY <2>1 DEF DefaultJob
    <3> HIDE DEF one, statics
    <3>2. Range(<<targets>>) = {targets}
      BY DEF Range
    <3>3. Range(targets) = {one}
      BY DEF Range
    <3>4. IsSequence(targets)
      BY <3>3 DEF IsSequence
    <3> HIDE DEF targets
    <3>5. IsSequence(<<targets>>)
      BY <3>2 DEF IsSequence
    <3>6. QED
      BY <3>1, <3>2, <3>4, <3>5
  <2>2. CASE job.statics # NONE
    BY <1>1, <2>2
  <2>3. QED
    BY <2>1, <2>2
<1>4. j.name = job.name /\ j.valid = job.valid /\ j.statics = statics
  OBVIOUS
<1> HIDE DEF j, statics
<1>5. QED
  BY <1>1, <1>2, <1>3, <1>4 DEF HasTargets

\* A job that is named after its application asks for the same.
LEMMA PrefixedJob ==
    ASSUME NEW job, NEW app, job.valid \in BOOLEAN
    PROVE  /\ IsFresh(Prefixed(job, app)) /\ IsMade(Prefixed(job, app))
           /\ Prefixed(job, app).name.app = app /\ Prefixed(job, app).valid = job.valid
           /\ Prefixed(job, app).path = job.path /\ Prefixed(job, app).statics = job.statics
<1> DEFINE name == [app |-> app, job |-> job.name, unit |-> NONE, hash |-> << >>]
           j == [name |-> name, path |-> job.path, statics |-> job.statics, unit |-> NONE,
                 valid |-> job.valid]
<1>1. Prefixed(job, app) = j
  BY DEF Prefixed
<1>2. /\ j.name = name /\ j.path = job.path /\ j.statics = job.statics /\ j.unit = NONE
      /\ j.valid = job.valid
      /\ j = [name |-> j.name, path |-> j.path, statics |-> j.statics, unit |-> NONE,
              valid |-> j.valid]
  OBVIOUS
<1>3. /\ name = [app |-> name.app, job |-> name.job, unit |-> NONE, hash |-> << >>]
      /\ name.app = app /\ name.hash = << >>
  OBVIOUS
<1> HIDE DEF j, name
<1>4. IsFresh(j) /\ IsMade(j)
  BY <1>2, <1>3 DEF IsFresh, IsMade
<1>5. QED
  BY <1>1, <1>2, <1>3, <1>4

\* The relations of which the jobs are named after their application and put to its units.
IsExpanded(r) == r.units # {} /\ r.known

\* The jobs of a relation, before those of a name are told apart.
LEMMA RelationIsScraped ==
    ASSUME NEW r, PublishesJobs(r)
    PROVE  /\ IsSequence(StaticConfig(r))
           /\ \A e \in Range(StaticConfig(r)) :
                  IsMade(e) /\ (e.name.app # NONE <=> IsExpanded(r))
           /\ IsExpanded(r) =>
                /\ \A e \in Range(StaticConfig(r)) : Scraped(e) \subseteq Asked(r)
                /\ \A x \in Asked(r) : \E e \in Range(StaticConfig(r)) : x \in Scraped(e)
                /\ \A e \in Range(StaticConfig(r)) : \E job \in Range(r.jobs) :
                      e.valid = job.valid /\ AskedBy(Sanitized(job), Hosts(r)) # {}
                /\ \A job \in Range(r.jobs) :
                      AskedBy(Sanitized(job), Hosts(r)) # {} =>
                          \E e \in Range(StaticConfig(r)) : e.valid = job.valid
<1> DEFINE n == Len(r.jobs)
           hosts == Hosts(r)
<1>1. n \in Nat /\ DOMAIN r.jobs = 1 .. n
  BY DEF PublishesJobs, IsSequence
<1>2. AreHosts(hosts)
  <2>1. DOMAIN hosts \subseteq r.units
    BY DEF Hosts
  <2> HIDE DEF hosts
  <2>2. QED
    BY <2>1, FS_Subset DEF PublishesJobs, AreHosts
<1>3. \A k \in DOMAIN r.jobs : r.jobs[k] \in Range(r.jobs)
  BY DEF Range
<1>4. CASE r.units = {}
  <2>1. StaticConfig(r) = << >> /\ ~IsExpanded(r)
    BY <1>4 DEF StaticConfig, IsExpanded
  <2>2. IsSequence(<< >>) /\ Range(<< >>) = {}
    BY DEF IsSequence, Range
  <2>3. QED
    BY <2>1, <2>2
<1>5. CASE r.units # {} /\ ~r.known
  <2> DEFINE jobs == [k \in DOMAIN r.jobs |-> Prefixed(r.jobs[k], NONE)]
  <2>1. StaticConfig(r) = jobs /\ ~IsExpanded(r)
    BY <1>5 DEF StaticConfig, IsExpanded
  <2>2. jobs = [k \in 1 .. n |-> jobs[k]] /\ DOMAIN jobs = DOMAIN r.jobs
        /\ \A k \in DOMAIN r.jobs : jobs[k] = Prefixed(r.jobs[k], NONE)
    BY <1>1
  <2> HIDE DEF jobs, n
  <2>3. IsSequence(jobs)
    BY <1>1, <2>2, FunctionIsSequence
  <2>4. \A k \in DOMAIN r.jobs : IsMade(jobs[k]) /\ jobs[k].name.app = NONE
    BY <1>3, <2>2, SanitizedJob, PrefixedJob
  <2>5. \A e \in Range(jobs) : IsMade(e) /\ e.name.app = NONE
    BY <2>2, <2>4 DEF Range
  <2>6. QED
    BY <2>1, <2>3, <2>5
<1>6. CASE IsExpanded(r)
  <2> DEFINE jobs == [k \in DOMAIN r.jobs |-> Prefixed(Sanitized(r.jobs[k]), r.app)]
  <2>1. StaticConfig(r) = Expanded(jobs, hosts)
    BY <1>6 DEF StaticConfig, IsExpanded
  <2>2. jobs = [k \in 1 .. n |-> jobs[k]] /\ DOMAIN jobs = DOMAIN r.jobs
        /\ \A k \in DOMAIN r.jobs : jobs[k] = Prefixed(Sanitized(r.jobs[k]), r.app)
    BY <1>1
  <2> HIDE DEF jobs, n
  <2>3. IsSequence(jobs)
    BY <1>1, <2>2, FunctionIsSequence
  <2>4. ASSUME NEW k \in DOMAIN r.jobs
        PROVE  /\ IsFresh(jobs[k]) /\ HasTargets(jobs[k]) /\ jobs[k].name.app = r.app
               /\ jobs[k].valid = r.jobs[k].valid
               /\ AskedBy(jobs[k], hosts) = AskedBy(Sanitized(r.jobs[k]), hosts)
    <3> DEFINE job == r.jobs[k] s == Sanitized(job) j == jobs[k]
    <3>1. job \in Range(r.jobs) /\ j = Prefixed(s, r.app)
      BY <1>3, <2>2
    <3>2. s.valid = job.valid /\ job.valid \in BOOLEAN /\ HasTargets(s)
      BY <3>1, SanitizedJob
    <3> HIDE DEF job, s, j
    <3>3. /\ IsFresh(j) /\ j.name.app = r.app /\ j.valid = s.valid
          /\ j.path = s.path /\ j.statics = s.statics
      BY <3>1, <3>2, PrefixedJob
    <3>4. HasTargets(j)
      BY <3>2, <3>3 DEF HasTargets
    <3>5. AskedBy(j, hosts) = AskedBy(s, hosts)
      BY <3>3 DEF AskedBy, TargetsOf
    <3>6. QED
      BY <3>2, <3>3, <3>4, <3>5 DEF job, s, j
  <2> HIDE DEF hosts
  <2>5. /\ IsSequence(Expanded(jobs, hosts))
        /\ \A e \in Range(Expanded(jobs, hosts)) :
               \E k \in DOMAIN jobs : IsExpandedFrom(e, jobs[k], hosts)
        /\ \A k \in DOMAIN jobs : \A x \in AskedBy(jobs[k], hosts) :
               \E e \in Range(Expanded(jobs, hosts)) :
                  x \in Scraped(e) /\ IsExpandedFrom(e, jobs[k], hosts)
    BY <1>2, <2>2, <2>3, <2>4, JobsExpand
  <2> DEFINE expanded == Expanded(jobs, hosts)
             asked(k) == AskedBy(Sanitized(r.jobs[k]), hosts)
  <2>6. /\ \A x : x \in Asked(r) <=> \E k \in DOMAIN r.jobs : x \in asked(k)
        /\ r.app # NONE
    BY <1>6 DEF Asked, hosts, IsExpanded, PublishesJobs
  <2>7. \A k \in DOMAIN r.jobs :
            \A e : IsExpandedFrom(e, jobs[k], hosts) =>
                     /\ IsMade(e) /\ e.name.app = r.app /\ e.valid = r.jobs[k].valid
                     /\ Scraped(e) # {} /\ Scraped(e) \subseteq asked(k)
    BY <2>4 DEF IsExpandedFrom
  <2>8. \A k \in DOMAIN r.jobs : \A x \in asked(k) :
            \E e \in Range(expanded) : x \in Scraped(e) /\ e.valid = r.jobs[k].valid
    BY <2>2, <2>4, <2>5, <2>7
  <2>9. \A e \in Range(expanded) : \E k \in DOMAIN r.jobs :
            /\ IsMade(e) /\ e.name.app = r.app /\ e.valid = r.jobs[k].valid
            /\ Scraped(e) # {} /\ Scraped(e) \subseteq asked(k)
    <3>1. SUFFICES ASSUME NEW e \in Range(expanded)
                   PROVE  \E k \in DOMAIN r.jobs :
                            /\ IsMade(e) /\ e.name.app = r.app /\ e.valid = r.jobs[k].valid
                            /\ Scraped(e) # {} /\ Scraped(e) \subseteq asked(k)
      OBVIOUS
    <3>2. PICK k \in DOMAIN r.jobs : IsExpandedFrom(e, jobs[k], hosts)
      BY <2>2, <2>5, <3>1
    <3> HIDE DEF asked
    <3>3. QED
      BY <2>7, <3>2
  <2> HIDE DEF expanded, asked
  <2>10. \A e \in Range(expanded) : IsMade(e) /\ e.name.app # NONE /\ Scraped(e) \subseteq Asked(r)
    BY <2>6, <2>9
  <2>11. \A x \in Asked(r) : \E e \in Range(expanded) : x \in Scraped(e)
    BY <2>6, <2>8
  <2>12. \A e \in Range(expanded) : \E job \in Range(r.jobs) :
            e.valid = job.valid /\ AskedBy(Sanitized(job), hosts) # {}
    <3>1. SUFFICES ASSUME NEW e \in Range(expanded)
                   PROVE  \E job \in Range(r.jobs) :
                            e.valid = job.valid /\ AskedBy(Sanitized(job), hosts) # {}
      OBVIOUS
    <3>2. PICK k \in DOMAIN r.jobs :
            e.valid = r.jobs[k].valid /\ Scraped(e) # {} /\ Scraped(e) \subseteq asked(k)
      BY <2>9
    <3>3. asked(k) # {} /\ r.jobs[k] \in Range(r.jobs)
      BY <1>3, <3>2
    <3>4. QED
      BY <3>2, <3>3 DEF asked
  <2>13. ASSUME NEW job \in Range(r.jobs), AskedBy(Sanitized(job), hosts) # {}
         PROVE  \E e \in Range(expanded) : e.valid = job.valid
    <3>1. PICK k \in DOMAIN r.jobs : r.jobs[k] = job
      BY DEF Range
    <3>2. PICK x \in asked(k) : TRUE
      BY <2>13, <3>1 DEF asked
    <3>3. QED
      BY <2>8, <3>1, <3>2
  <2>14. QED
    BY <1>6, <2>1, <2>5, <2>10, <2>11, <2>12, <2>13 DEF expanded, hosts
<1>7. QED
  BY <1>4, <1>5, <1>6 DEF IsExpanded, PublishesJobs

Config(r) == Deduped(StaticConfig(r))

\* A relation whose jobs are taken: they are valid, or ask for nothing.
IsTaken(r) ==
    IsExpanded(r) /\ \A job \in Range(r.jobs) : job.valid \/ AskedBy(Sanitized(job), Hosts(r)) = {}

\* The jobs of a relation, of which no two have a name if they are valid.
LEMMA ConfigIsScraped ==
    ASSUME NEW r, PublishesJobs(r)
    PROVE  /\ IsSequence(Config(r))
           /\ \A j \in Range(Config(r)) : IsMade(j) /\ (j.name.app # NONE <=> IsExpanded(r))
           /\ IsTaken(r) => IsValid(Config(r))
           /\ IsExpanded(r) /\ IsValid(Config(r)) => IsTaken(r)
           /\ IsExpanded(r) =>
                \A x : x \in Asked(r) <=> \E j \in Range(Config(r)) : x \in Scraped(j)
<1> DEFINE jobs == StaticConfig(r)
           kept == Config(r)
<1>1. /\ IsSequence(jobs)
      /\ \A e \in Range(jobs) : IsMade(e) /\ (e.name.app # NONE <=> IsExpanded(r))
      /\ IsExpanded(r) =>
           /\ \A e \in Range(jobs) : Scraped(e) \subseteq Asked(r)
           /\ \A x \in Asked(r) : \E e \in Range(jobs) : x \in Scraped(e)
           /\ \A e \in Range(jobs) : \E job \in Range(r.jobs) :
                 e.valid = job.valid /\ AskedBy(Sanitized(job), Hosts(r)) # {}
           /\ \A job \in Range(r.jobs) :
                 AskedBy(Sanitized(job), Hosts(r)) # {} =>
                     \E e \in Range(jobs) : e.valid = job.valid
  BY RelationIsScraped
<1> HIDE DEF jobs
<1>2. \A k \in DOMAIN jobs : jobs[k] \in Range(jobs) /\ IsMade(jobs[k])
  BY <1>1 DEF Range
<1>3. /\ IsSequence(kept)
      /\ \A j \in Range(kept) : IsMade(j) /\ \E i \in Range(jobs) : ScrapesTheSame(j, i)
      /\ \A i \in Range(jobs) : \E j \in Range(kept) : ScrapesTheSame(j, i)
      /\ (\A k \in DOMAIN jobs : jobs[k].valid) =>
             \A k, l \in DOMAIN kept : k # l => kept[k].name # kept[l].name
  BY <1>1, <1>2, DedupedJobs DEF Config, jobs
<1> HIDE DEF kept
<1>4. \A i, j : ScrapesTheSame(i, j) =>
          /\ Scraped(i) = Scraped(j) /\ i.valid = j.valid /\ i.name.app = j.name.app
  BY DEF ScrapesTheSame, Scraped, TargetsOf
<1>5. \A k \in DOMAIN kept : kept[k] \in Range(kept)
  BY DEF Range
<1>6. ASSUME IsTaken(r) PROVE IsValid(kept)
  <2>1. \A e \in Range(jobs) : e.valid
    BY <1>1, <1>6 DEF IsTaken
  <2>2. \A j \in Range(kept) : j.valid
    BY <1>3, <1>4, <2>1
  <2>3. \A k \in DOMAIN jobs : jobs[k].valid
    BY <1>2, <2>1
  <2>4. QED
    BY <1>3, <1>5, <2>2, <2>3 DEF IsValid
<1>7. ASSUME IsExpanded(r), IsValid(kept) PROVE IsTaken(r)
  <2>1. \A j \in Range(kept) : j.valid
    BY <1>7 DEF IsValid, Range
  <2>2. \A e \in Range(jobs) : e.valid
    BY <1>3, <1>4, <2>1
  <2>3. QED
    BY <1>1, <1>7, <2>2 DEF IsTaken
<1>8. ASSUME IsExpanded(r)
      PROVE  \A x : x \in Asked(r) <=> \E j \in Range(kept) : x \in Scraped(j)
  <2>1. ASSUME NEW x \in Asked(r) PROVE \E j \in Range(kept) : x \in Scraped(j)
    <3>1. PICK e \in Range(jobs) : x \in Scraped(e)
      BY <1>1, <1>8
    <3>2. PICK j \in Range(kept) : ScrapesTheSame(j, e)
      BY <1>3
    <3>3. QED
      BY <1>4, <3>1, <3>2
  <2>2. ASSUME NEW j \in Range(kept), NEW x \in Scraped(j) PROVE x \in Asked(r)
    <3>1. PICK e \in Range(jobs) : ScrapesTheSame(j, e)
      BY <1>3
    <3>2. x \in Scraped(e)
      BY <1>4, <2>2, <3>1
    <3>3. QED
      BY <1>1, <1>8, <3>2
  <2>3. QED
    BY <2>1, <2>2
<1>9. \A j \in Range(kept) : IsMade(j) /\ (j.name.app # NONE <=> IsExpanded(r))
  BY <1>1, <1>3, <1>4
<1>10. QED
  BY <1>3, <1>6, <1>7, <1>8, <1>9 DEF kept

\* The jobs of all relations: those of the relations that are not refused, named apart.
LEMMA AllJobs ==
    ASSUME NEW relations \in Applications
    PROVE  LET jobs == Jobs(relations).jobs IN
             /\ IsSequence(jobs)
             /\ \A k, l \in DOMAIN jobs : k # l => jobs[k].name # jobs[l].name
             /\ \A j \in Range(jobs) : \E k \in DOMAIN relations :
                   /\ IsValid(Config(relations[k]))
                   /\ \E i \in Range(Config(relations[k])) : ScrapesTheSame(j, i)
             /\ \A k \in DOMAIN relations :
                   IsValid(Config(relations[k])) =>
                       \A i \in Range(Config(relations[k])) :
                           \E j \in Range(jobs) : ScrapesTheSame(j, i)
<1> DEFINE n == Len(relations)
           configs == [k \in DOMAIN relations |-> Deduped(StaticConfig(relations[k]))]
           parts == [k \in DOMAIN configs |-> IF IsValid(configs[k]) THEN configs[k] ELSE << >>]
           all == FlattenSeq(parts)
           jobs == Jobs(relations).jobs
<1>1. n \in Nat /\ DOMAIN relations = 1 .. n
  BY ApplicationsAssumption DEF IsSequence
<1>2. jobs = Deduped(all)
  BY DEF Jobs
<1>3. /\ DOMAIN parts = DOMAIN relations /\ parts = [k \in 1 .. n |-> parts[k]]
      /\ \A k \in DOMAIN relations :
            parts[k] = IF IsValid(Config(relations[k])) THEN Config(relations[k]) ELSE << >>
  BY <1>1 DEF Config
<1> HIDE DEF n, parts
<1>4. IsSequence(parts)
  BY <1>1, <1>3, FunctionIsSequence
<1>5. ASSUME NEW k \in DOMAIN relations
      PROVE  /\ IsSequence(parts[k])
             /\ \A j \in Range(parts[k]) : IsMade(j) /\ j.valid
             /\ IsValid(Config(relations[k])) => parts[k] = Config(relations[k])
             /\ ~IsValid(Config(relations[k])) => Range(parts[k]) = {}
  <2> DEFINE r == relations[k]
  <2>1. PublishesJobs(r)
    BY ApplicationsAssumption
  <2>2. parts[k] = IF IsValid(Config(r)) THEN Config(r) ELSE << >>
    BY <1>3
  <2> HIDE DEF r
  <2>3. IsSequence(Config(r)) /\ \A j \in Range(Config(r)) : IsMade(j)
    BY <2>1, ConfigIsScraped
  <2>4. IsValid(Config(r)) => \A j \in Range(Config(r)) : j.valid
    BY DEF IsValid, Range
  <2>5. IsSequence(<< >>) /\ Range(<< >>) = {}
    BY DEF IsSequence, Range
  <2>6. QED
    BY <2>2, <2>3, <2>4, <2>5 DEF r
<1>6. /\ IsSequence(all)
      /\ \A j : j \in Range(all) <=> \E k \in DOMAIN relations : j \in Range(parts[k])
  <2>1. IsSequence(all) /\ Range(all) = UNION {Range(parts[k]) : k \in DOMAIN parts}
    BY <1>3, <1>4, <1>5, Flattened
  <2>2. QED
    BY <1>3, <2>1
<1> HIDE DEF all
<1>7. \A k \in DOMAIN all : IsMade(all[k]) /\ all[k].valid
  <2>1. \A k \in DOMAIN all : all[k] \in Range(all)
    BY DEF Range
  <2>2. QED
    BY <1>5, <1>6, <2>1
<1>8. /\ IsSequence(jobs)
      /\ \A j \in Range(jobs) : \E i \in Range(all) : ScrapesTheSame(j, i)
      /\ \A i \in Range(all) : \E j \in Range(jobs) : ScrapesTheSame(j, i)
      /\ \A k, l \in DOMAIN jobs : k # l => jobs[k].name # jobs[l].name
  <2>1. /\ IsSequence(Deduped(all))
        /\ \A j \in Range(Deduped(all)) :
              IsMade(j) /\ \E i \in Range(all) : ScrapesTheSame(j, i)
        /\ \A i \in Range(all) : \E j \in Range(Deduped(all)) : ScrapesTheSame(j, i)
        /\ (\A k \in DOMAIN all : all[k].valid) =>
             \A k, l \in DOMAIN Deduped(all) : k # l => Deduped(all)[k].name # Deduped(all)[l].name
    BY <1>6, <1>7, DedupedJobs
  <2> HIDE DEF jobs
  <2>2. QED
    BY <1>2, <1>7, <2>1
<1> HIDE DEF jobs
<1>9. \A j \in Range(jobs) : \E k \in DOMAIN relations :
          /\ IsValid(Config(relations[k]))
          /\ \E i \in Range(Config(relations[k])) : ScrapesTheSame(j, i)
  <2>1. ASSUME NEW j \in Range(jobs)
        PROVE  \E k \in DOMAIN relations :
                 /\ IsValid(Config(relations[k]))
                 /\ \E i \in Range(Config(relations[k])) : ScrapesTheSame(j, i)
    <3>1. PICK i \in Range(all) : ScrapesTheSame(j, i)
      BY <1>8
    <3>2. PICK k \in DOMAIN relations : i \in Range(parts[k])
      BY <1>6
    <3>3. IsValid(Config(relations[k])) /\ i \in Range(Config(relations[k]))
      BY <1>5, <3>2
    <3>4. QED
      BY <3>1, <3>3
  <2>2. QED
    BY <2>1
<1>10. \A k \in DOMAIN relations :
           IsValid(Config(relations[k])) =>
               \A i \in Range(Config(relations[k])) : \E j \in Range(jobs) : ScrapesTheSame(j, i)
  BY <1>5, <1>6, <1>8
<1>11. QED
  BY <1>8, <1>9, <1>10 DEF jobs

\* What Prometheus makes of the jobs of its relations is what these ask for.
LEMMA TargetsAreScraped ==
    ASSUME given \in Applications, made = Jobs(given)
    PROVE  TargetsAreScrapedOnce
<1> DEFINE taken == {k \in DOMAIN given : IsTaken(given[k])}
           jobs == made.jobs
           renamed == {job \in Range(jobs) : job.name.app # NONE}
<1>1. /\ \A k, l \in DOMAIN jobs : k # l => jobs[k].name # jobs[l].name
      /\ \A j \in Range(jobs) : \E k \in DOMAIN given :
            /\ IsValid(Config(given[k]))
            /\ \E i \in Range(Config(given[k])) : ScrapesTheSame(j, i)
      /\ \A k \in DOMAIN given :
            IsValid(Config(given[k])) =>
                \A i \in Range(Config(given[k])) : \E j \in Range(jobs) : ScrapesTheSame(j, i)
  BY AllJobs
<1>2. ASSUME NEW k \in DOMAIN given
      PROVE  /\ \A j \in Range(Config(given[k])) : j.name.app # NONE <=> IsExpanded(given[k])
             /\ IsTaken(given[k]) <=> IsExpanded(given[k]) /\ IsValid(Config(given[k]))
             /\ IsExpanded(given[k]) =>
                  \A x : x \in Asked(given[k]) <=>
                             \E j \in Range(Config(given[k])) : x \in Scraped(j)
  <2> DEFINE r == given[k]
  <2>1. PublishesJobs(r)
    BY ApplicationsAssumption
  <2>2. IsTaken(r) => IsExpanded(r)
    BY DEF IsTaken
  <2> HIDE DEF r
  <2>3. /\ \A j \in Range(Config(r)) : j.name.app # NONE <=> IsExpanded(r)
        /\ IsTaken(r) => IsValid(Config(r))
        /\ IsExpanded(r) /\ IsValid(Config(r)) => IsTaken(r)
        /\ IsExpanded(r) =>
             \A x : x \in Asked(r) <=> \E j \in Range(Config(r)) : x \in Scraped(j)
    BY <2>1, ConfigIsScraped
  <2>4. QED
    BY <2>2, <2>3 DEF r
<1>3. \A i, j : ScrapesTheSame(i, j) => Scraped(i) = Scraped(j) /\ i.name.app = j.name.app
  BY DEF ScrapesTheSame, Scraped, TargetsOf
<1>4. AllScraped = UNION {Scraped(job) : job \in renamed}
  BY DEF AllScraped, Scraped
<1> HIDE DEF jobs
<1>5. ASSUME NEW x
      PROVE  (\E job \in renamed : x \in Scraped(job)) <=> \E k \in taken : x \in Asked(given[k])
  <2>1. ASSUME NEW job \in renamed, x \in Scraped(job)
        PROVE  \E k \in taken : x \in Asked(given[k])
    <3>1. PICK k \in DOMAIN given :
            /\ IsValid(Config(given[k]))
            /\ \E i \in Range(Config(given[k])) : ScrapesTheSame(job, i)
      BY <1>1
    <3>2. PICK i \in Range(Config(given[k])) : ScrapesTheSame(job, i)
      BY <3>1
    <3>3. x \in Scraped(i) /\ i.name.app # NONE
      BY <1>3, <2>1, <3>2
    <3>4. IsExpanded(given[k])
      BY <1>2, <3>2, <3>3
    <3>5. k \in taken /\ x \in Asked(given[k])
      BY <1>2, <3>1, <3>2, <3>3, <3>4
    <3>6. QED
      BY <3>5
  <2>2. ASSUME NEW k \in taken, x \in Asked(given[k])
        PROVE  \E job \in renamed : x \in Scraped(job)
    <3>1. k \in DOMAIN given /\ IsExpanded(given[k]) /\ IsValid(Config(given[k]))
      BY <1>2
    <3>2. PICK i \in Range(Config(given[k])) : x \in Scraped(i)
      BY <1>2, <2>2, <3>1
    <3>3. PICK job \in Range(jobs) : ScrapesTheSame(job, i)
      BY <1>1, <3>1
    <3>4. job.name.app # NONE /\ x \in Scraped(job)
      BY <1>2, <1>3, <3>1, <3>2, <3>3
    <3>5. QED
      BY <3>4
  <2>3. QED
    BY <2>1, <2>2
<1>6. AllScraped = UNION {Asked(given[k]) : k \in taken}
  <2> HIDE DEF renamed, taken
  <2>1. QED
    BY <1>4, <1>5
<1>7. ASSUME NEW k \in taken PROVE given[k].id \notin made.refused
  <2>1. k \in DOMAIN given /\ IsValid(Config(given[k]))
    BY <1>2
  <2>2. made.refused = {given[l].id : l \in {i \in DOMAIN given : ~IsValid(Config(given[i]))}}
    <3> DEFINE configs == [i \in DOMAIN given |-> Deduped(StaticConfig(given[i]))]
    <3>1. made.refused = {given[l].id : l \in {i \in DOMAIN given : ~IsValid(configs[i])}}
      BY DEF Jobs
    <3>2. \A i \in DOMAIN given : configs[i] = Config(given[i])
      BY DEF Config
    <3> HIDE DEF configs
    <3>3. {i \in DOMAIN given : ~IsValid(configs[i])}
            = {i \in DOMAIN given : ~IsValid(Config(given[i]))}
      BY <3>2
    <3>4. QED
      BY <3>1, <3>3
  <2>3. \A l \in DOMAIN given : l # k => given[l].id # given[k].id
    BY <2>1, ApplicationsAssumption
  <2>4. QED
    BY <2>1, <2>2, <2>3
<1>8. taken = {k \in DOMAIN given : /\ given[k].units # {} /\ given[k].known
                                    /\ \A job \in Range(given[k].jobs) :
                                          job.valid \/ AskedBy(Sanitized(job), Hosts(given[k])) = {}}
  BY DEF IsTaken, IsExpanded
<1> HIDE DEF taken
<1>9. QED
  BY <1>1, <1>6, <1>7, <1>8 DEF TargetsAreScrapedOnce, jobs

\* The relations are some of the constants', and their jobs are taken as Jobs has it.
TargetsInv ==
    subject = "targets" => given \in Applications /\ (made # NONE => made = Jobs(given))

\* Everything that the relations with valid jobs ask for is scraped and nothing else, at each
\* unit's own path and under its name, by jobs with a name of their own, for any number of
\* relations, units, jobs and targets (prometheus_scrape.py:1029).
THEOREM TargetsAreScrapedAsAsked == ContentSpec => []TargetsAreScrapedOnce
<1>1. ContentInit => TargetsInv
  BY DEF ContentInit, TargetsInv
<1>2. TargetsInv /\ [ContentNext]_contentVars => TargetsInv'
  <2>1. SUFFICES ASSUME TargetsInv, [ContentNext]_contentVars, subject' = "targets"
                 PROVE  given' \in Applications /\ (made' # NONE => made' = Jobs(given'))
    BY DEF TargetsInv
  <2>2. subject = "targets" /\ given' = given
    BY <2>1 DEF ContentNext, contentVars
  <2>3. CASE UNCHANGED contentVars
    BY <2>1, <2>2, <2>3 DEF TargetsInv, contentVars
  <2>4. CASE Scrape
    BY <2>1, <2>2, <2>4 DEF TargetsInv, Scrape
  <2>5. QED
    BY <2>1, <2>2, <2>3, <2>4
       DEF ContentNext, ShowBoard, ListDashboards, RunActions, LoadRules, FetchFields, Log
<1>3. TargetsInv => TargetsAreScrapedOnce
  <2>1. CASE Done("targets")
    BY <2>1, TargetsAreScraped DEF TargetsInv, Done
  <2>2. CASE ~Done("targets")
    BY <2>2 DEF TargetsAreScrapedOnce
  <2>3. QED
    BY <2>1, <2>2
<1>4. QED
  BY <1>1, <1>2, <1>3, PTL DEF ContentSpec

(***************************************************************************)
(* Alert rules.                                                            *)
(***************************************************************************)

\* Labels in the expressions of a group leave its name and the labels and validity of its rules.
LEMMA LabelledGroup ==
    ASSUME NEW rules, IsRuleFile(rules), NEW g \in DOMAIN rules
    PROVE  LET group == WithLabels(rules)[g] IN
             /\ group.name = rules[g].name
             /\ DOMAIN group.rules = DOMAIN rules[g].rules
             /\ \A i \in DOMAIN group.rules :
                  /\ group.rules[i].labels = rules[g].rules[i].labels
                  /\ group.rules[i].valid = rules[g].rules[i].valid
<1> DEFINE group == rules[g]
           labelled == [i \in DOMAIN group.rules |-> WithMatchers(group.rules[i])]
<1>1. WithLabels(rules)[g] = [group EXCEPT !.rules = labelled]
  BY Zenon DEF WithLabels
<1>2. group = [name |-> group.name, rules |-> group.rules]
  BY DEF IsRuleFile
<1>3. ASSUME NEW i \in DOMAIN group.rules
      PROVE  WithMatchers(group.rules[i]).labels = group.rules[i].labels /\
             WithMatchers(group.rules[i]).valid = group.rules[i].valid
  <2> DEFINE rule == group.rules[i]
  <2>1. rule = [labels |-> rule.labels, valid |-> rule.valid, injected |-> rule.injected]
    BY DEF IsRuleFile
  <2> HIDE DEF rule
  <2>2. WithMatchers(rule).labels = rule.labels /\ WithMatchers(rule).valid = rule.valid
    BY <2>1 DEF WithMatchers
  <2>3. QED
    BY <2>2 DEF rule
<1>4. \A i \in DOMAIN group.rules : labelled[i].labels = group.rules[i].labels /\
                                    labelled[i].valid = group.rules[i].valid
  BY <1>3
<1>5. DOMAIN labelled = DOMAIN group.rules
  OBVIOUS
<1> HIDE DEF labelled
<1>6. WithLabels(rules)[g].name = group.name /\ WithLabels(rules)[g].rules = labelled
  BY <1>1, <1>2
<1>7. QED
  BY <1>4, <1>5, <1>6

\* Labels in the expressions change neither whose the rules are nor whether they are valid.
LEMMA LabelledRules ==
    ASSUME NEW rules, IsRuleFile(rules), NEW metadata
    PROVE  /\ WithLabels(rules) = Empty <=> rules = Empty
           /\ IsValidFile(WithLabels(rules)) <=> IsValidFile(rules)
           /\ Identifier(WithLabels(rules), metadata) = Identifier(rules, metadata)
<1> DEFINE labelled == WithLabels(rules)
<1>1. DOMAIN labelled = DOMAIN rules
  BY DEF WithLabels
<1>2. labelled = Empty <=> rules = Empty
  <2>1. PICK n \in Nat : DOMAIN rules = 1 .. n /\ n = Len(rules)
    BY DEF IsRuleFile, IsSequence
  <2>2. labelled = [g \in 1 .. n |-> labelled[g]]
    BY <2>1 DEF WithLabels
  <2> HIDE DEF labelled
  <2>3. IsSequence(labelled) /\ Len(labelled) = n
    BY <2>2, FunctionIsSequence
  <2>4. QED
    BY <2>1, <2>3 DEF Empty, IsSequence, IsRuleFile
<1>3. \A g \in DOMAIN rules :
        /\ labelled[g].name = rules[g].name /\ Topology(labelled[g]) = Topology(rules[g])
        /\ DOMAIN labelled[g].rules = DOMAIN rules[g].rules
        /\ \A i \in DOMAIN labelled[g].rules : labelled[g].rules[i].valid = rules[g].rules[i].valid
  <2>1. \A g \in DOMAIN rules : 1 \in DOMAIN rules[g].rules
    BY DEF IsRuleFile
  <2>2. QED
    BY <2>1, LabelledGroup DEF Topology
<1> HIDE DEF labelled
<1>4. IsValidFile(labelled) <=> IsValidFile(rules)
  BY <1>1, <1>3 DEF IsValidFile
<1>5. Identifier(labelled, metadata) = Identifier(rules, metadata)
  <2> DEFINE found == {g \in DOMAIN rules : Topology(rules[g]) # NONE}
             first == CHOOSE g \in found : \A h \in found : g <= h
  <2>1. found = {g \in DOMAIN labelled : Topology(labelled[g]) # NONE}
    BY <1>1, <1>3
  <2>0. IsSequence(rules) /\ found \subseteq DOMAIN rules
    BY DEF IsRuleFile
  <2>2. CASE found # {}
    <3>1. Identifier(rules, metadata) = Topology(rules[first])
      BY <2>2 DEF Identifier
    <3>2. Identifier(labelled, metadata) = Topology(labelled[first])
      BY <2>1, <2>2 DEF Identifier
    <3>3. first \in DOMAIN rules
      <4>1. DOMAIN rules \subseteq Nat
        BY <2>0 DEF IsSequence
      <4>2. found \subseteq Nat
        BY <2>0, <4>1
      <4> HIDE DEF found
      <4>3. \E g \in found : \A h \in found : g <= h
        BY <2>2, <4>2, Least
      <4>4. first \in found
        BY <4>3
      <4>5. QED
        BY <2>0, <4>4
    <3>4. QED
      BY <1>3, <3>1, <3>2, <3>3
  <2>3. CASE found = {}
    <3>1. CASE metadata # NONE
      BY <2>1, <2>3, <3>1 DEF Identifier
    <3>2. CASE metadata = NONE /\ rules # Empty
      <4>1. 1 \in DOMAIN rules
        BY <2>0, <3>2 DEF IsSequence, Empty
      <4>2. labelled # Empty
        BY <1>2, <3>2
      <4>3. Identifier(rules, metadata) = rules[1].name
        BY <2>3, <3>2 DEF Identifier
      <4>4. Identifier(labelled, metadata) = labelled[1].name
        BY <2>1, <2>3, <3>2, <4>2 DEF Identifier
      <4>5. QED
        BY <1>3, <4>1, <4>3, <4>4
    <3>3. CASE metadata = NONE /\ rules = Empty
      <4>1. labelled = Empty
        BY <1>2, <3>3
      <4>2. QED
        BY <3>3, <4>1
    <3>4. QED
      BY <3>1, <3>2, <3>3
  <2>4. QED
    BY <2>2, <2>3
<1>6. QED
  BY <1>2, <1>4, <1>5 DEF labelled

\* What becomes of a relation's rules: whether they are loaded, by what name, into which file.
Loads(language, r) == r.inhabited /\ r.raw.rules # Empty /\ Readable(language, r.raw)
IdOf(r) == Identifier(r.raw.rules, r.metadata)
FileOf(language, r) == File(language, r.id, IdOf(r))
ValidOf(language, met) == {r \in met : Loads(language, r) /\ IsValidFile(r.raw.rules)}
InvalidOf(language, met) == {r \in met : Loads(language, r) /\ ~IsValidFile(r.raw.rules)}

\* One relation's turn in alerts, told by what it wrote and not by what is made of it.
LEMMA LoadedRelation ==
    ASSUME NEW language, NEW loaded, NEW r, IsRuleFile(r.raw.rules)
    PROVE  Load(language, loaded, r) =
             IF ~Loads(language, r) THEN loaded
             ELSE IF IsValidFile(r.raw.rules)
             THEN [alerts |-> WithFile(loaded.alerts, FileOf(language, r), WithLabels(r.raw.rules)),
                   errors |-> loaded.errors \ {r.id}]
             ELSE [alerts |-> WithoutFile(loaded.alerts, FileOf(language, r)),
                   errors |-> loaded.errors \union {r.id}]
<1> DEFINE labelled == WithLabels(r.raw.rules)
<1>1. /\ labelled = Empty <=> r.raw.rules = Empty
      /\ IsValidFile(labelled) <=> IsValidFile(r.raw.rules)
      /\ Identifier(labelled, r.metadata) = IdOf(r)
  BY LabelledRules DEF IdOf
<1>2. Load(language, loaded, r) =
        IF ~r.inhabited \/ ~Readable(language, r.raw) \/ labelled = Empty THEN loaded
        ELSE IF IsValidFile(labelled)
        THEN [alerts |-> WithFile(loaded.alerts,
                                  File(language, r.id, Identifier(labelled, r.metadata)), labelled),
              errors |-> loaded.errors \ {r.id}]
        ELSE [alerts |-> WithoutFile(loaded.alerts, File(language, r.id, Identifier(labelled, r.metadata))),
              errors |-> loaded.errors \union {r.id}]
  BY DEF Load
<1> HIDE DEF labelled
<1>3. QED
  BY <1>1, <1>2 DEF Loads, FileOf, labelled

\* What is reported after some relations' turns.
Reports(language, met, reported, errors) ==
    errors = {r.id : r \in InvalidOf(language, met)} \union
             (reported \ {r.id : r \in ValidOf(language, met)})

\* The first j relations' valid rules that no later one of them replaced or took away.
KeptRules(language, relations, j) ==
    {k \in 1 .. j : /\ Loads(language, relations[k]) /\ IsValidFile(relations[k].raw.rules)
                    /\ \A l \in k + 1 .. j : Loads(language, relations[l]) =>
                          FileOf(language, relations[l]) # FileOf(language, relations[k])}
Holds(language, relations, j, alerts) ==
    /\ DOMAIN alerts = {FileOf(language, relations[k]) : k \in KeptRules(language, relations, j)}
    /\ \A k \in KeptRules(language, relations, j) :
          alerts[FileOf(language, relations[k])] = WithLabels(relations[k].raw.rules)

\* The errors that are reported after one more relation's turn.
LEMMA MoreReports ==
    ASSUME NEW language, NEW met, NEW reported, NEW loaded, NEW r, IsRuleFile(r.raw.rules),
           \A q \in met : q.id # r.id, Reports(language, met, reported, loaded.errors)
    PROVE  Reports(language, met \union {r}, reported, Load(language, loaded, r).errors)
<1> DEFINE more == Load(language, loaded, r)
<1>1. more.errors = IF ~Loads(language, r) THEN loaded.errors
                    ELSE IF IsValidFile(r.raw.rules) THEN loaded.errors \ {r.id}
                    ELSE loaded.errors \union {r.id}
  <2>1. CASE ~Loads(language, r)
    BY <2>1, LoadedRelation
  <2>2. CASE Loads(language, r) /\ IsValidFile(r.raw.rules)
    <3>1. more = [alerts |-> WithFile(loaded.alerts, FileOf(language, r), WithLabels(r.raw.rules)),
                  errors |-> loaded.errors \ {r.id}]
      BY <2>2, LoadedRelation
    <3>2. QED
      BY <2>2, <3>1
  <2>3. CASE Loads(language, r) /\ ~IsValidFile(r.raw.rules)
    <3>1. more = [alerts |-> WithoutFile(loaded.alerts, FileOf(language, r)),
                  errors |-> loaded.errors \union {r.id}]
      BY <2>3, LoadedRelation
    <3>2. QED
      BY <2>3, <3>1
  <2>4. QED
    BY <2>1, <2>2, <2>3
<1> HIDE DEF more
<1> DEFINE bad == InvalidOf(language, met) good == ValidOf(language, met)
<1>2. bad \subseteq met /\ good \subseteq met
  BY DEF InvalidOf, ValidOf
<1>3. CASE ~Loads(language, r)
  <2>1. InvalidOf(language, met \union {r}) = bad /\ ValidOf(language, met \union {r}) = good
    BY <1>3 DEF InvalidOf, ValidOf
  <2>2. QED
    BY <1>1, <1>3, <2>1 DEF Reports, more
<1>4. CASE Loads(language, r) /\ IsValidFile(r.raw.rules)
  <2>1. InvalidOf(language, met \union {r}) = bad /\ ValidOf(language, met \union {r}) = good \union {r}
    BY <1>4 DEF InvalidOf, ValidOf
  <2>2. more.errors = loaded.errors \ {r.id}
    BY <1>1, <1>4
  <2>3. loaded.errors = {q.id : q \in bad} \union (reported \ {q.id : q \in good})
    BY DEF Reports
  <2> HIDE DEF bad, good
  <2>4. r.id \notin {q.id : q \in bad}
    BY <1>2
  <2>5. {q.id : q \in good \union {r}} = {q.id : q \in good} \union {r.id}
    OBVIOUS
  <2>6. more.errors = {q.id : q \in bad} \union (reported \ {q.id : q \in good \union {r}})
    BY <2>2, <2>3, <2>4, <2>5
  <2>7. QED
    BY <2>1, <2>6 DEF Reports, more
<1>5. CASE Loads(language, r) /\ ~IsValidFile(r.raw.rules)
  <2>1. InvalidOf(language, met \union {r}) = bad \union {r} /\ ValidOf(language, met \union {r}) = good
    BY <1>5 DEF InvalidOf, ValidOf
  <2>2. more.errors = loaded.errors \union {r.id}
    BY <1>1, <1>5
  <2>3. loaded.errors = {q.id : q \in bad} \union (reported \ {q.id : q \in good})
    BY DEF Reports
  <2> HIDE DEF bad, good
  <2>4. {q.id : q \in bad \union {r}} = {q.id : q \in bad} \union {r.id}
    OBVIOUS
  <2>5. more.errors = {q.id : q \in bad \union {r}} \union (reported \ {q.id : q \in good})
    BY <2>2, <2>3, <2>4
  <2>6. QED
    BY <2>1, <2>5 DEF Reports, more
<1>6. QED
  BY <1>3, <1>4, <1>5

\* The rules that are kept after one more relation's turn.
KeptRulesWith(language, relations, j) ==
    LET r == relations[j + 1] kept == KeptRules(language, relations, j)
        others == {k \in kept : FileOf(language, relations[k]) # FileOf(language, r)}
    IN IF ~Loads(language, r) THEN kept
       ELSE IF IsValidFile(r.raw.rules) THEN others \union {j + 1} ELSE others

LEMMA MoreKept ==
    ASSUME NEW language, NEW relations, NEW j \in Nat
    PROVE  KeptRules(language, relations, j + 1) = KeptRulesWith(language, relations, j)
<1> DEFINE r == relations[j + 1] kept == KeptRules(language, relations, j)
           others == {k \in kept : FileOf(language, relations[k]) # FileOf(language, r)}
           L(k) == Loads(language, relations[k])
           F(k) == FileOf(language, relations[k])
           V(k) == IsValidFile(relations[k].raw.rules)
           K(m) == {k \in 1 .. m : L(k) /\ V(k) /\ \A l \in k + 1 .. m : L(l) => F(l) # F(k)}
<1>1. kept = K(j) /\ KeptRules(language, relations, j + 1) = K(j + 1)
  BY DEF KeptRules
<1>2. others = {k \in K(j) : F(k) # F(j + 1)}
  BY <1>1
<1>3. K(j + 1) = IF ~L(j + 1) THEN K(j)
                 ELSE IF V(j + 1) THEN {k \in K(j) : F(k) # F(j + 1)} \union {j + 1}
                 ELSE {k \in K(j) : F(k) # F(j + 1)}
  <2> HIDE DEF L, F, V
  <2>1. ASSUME NEW k
        PROVE  k \in K(j + 1) <=> \/ k \in K(j) /\ (L(j + 1) => F(j + 1) # F(k))
                                  \/ k = j + 1 /\ L(j + 1) /\ V(j + 1)
    <3>1. CASE k \in 1 .. j
      <4>1. k + 1 .. j + 1 = (k + 1 .. j) \union {j + 1} /\ k \in 1 .. j + 1 /\ k # j + 1
        BY <3>1
      <4>2. QED
        BY <3>1, <4>1
    <3>2. CASE k = j + 1
      <4>1. k + 1 .. j + 1 = {} /\ k \in 1 .. j + 1 /\ k \notin 1 .. j
        BY <3>2
      <4>2. QED
        BY <3>2, <4>1
    <3>3. CASE k \notin 1 .. j + 1
      <4>1. k \notin 1 .. j /\ k # j + 1
        BY <3>3
      <4>2. QED
        BY <3>3, <4>1
    <3>4. QED
      BY <3>1, <3>2, <3>3
  <2> HIDE DEF K
  <2>2. CASE ~L(j + 1)
    BY <2>1, <2>2
  <2>3. CASE L(j + 1)
    BY <2>1, <2>3
  <2>4. QED
    BY <2>2, <2>3
<1>4. QED
  BY <1>1, <1>2, <1>3 DEF KeptRulesWith

\* The files that are held after one more relation's turn.
LEMMA MoreHolds ==
    ASSUME NEW language, NEW relations, NEW j \in Nat, NEW loaded,
           IsRuleFile(relations[j + 1].raw.rules),
           Holds(language, relations, j, loaded.alerts)
    PROVE  Holds(language, relations, j + 1, Load(language, loaded, relations[j + 1]).alerts)
<1> DEFINE r == relations[j + 1] more == Load(language, loaded, r) alerts == loaded.alerts
           F(k) == FileOf(language, relations[k]) W(k) == WithLabels(relations[k].raw.rules)
           kept == KeptRules(language, relations, j)
           others == {k \in kept : F(k) # F(j + 1)}
           now == KeptRules(language, relations, j + 1)
<1>1. more.alerts = IF ~Loads(language, r) THEN alerts
                    ELSE IF IsValidFile(r.raw.rules) THEN WithFile(alerts, F(j + 1), W(j + 1))
                    ELSE WithoutFile(alerts, F(j + 1))
  BY LoadedRelation
<1>2. now = IF ~Loads(language, r) THEN kept
            ELSE IF IsValidFile(r.raw.rules) THEN others \union {j + 1} ELSE others
  <2>1. now = KeptRulesWith(language, relations, j)
    BY MoreKept
  <2> HIDE DEF now
  <2>2. QED
    BY <2>1 DEF KeptRulesWith
<1>3. DOMAIN alerts = {F(k) : k \in kept} /\ \A k \in kept : alerts[F(k)] = W(k)
  BY DEF Holds
<1>4. SUFFICES DOMAIN more.alerts = {F(k) : k \in now} /\ \A k \in now : more.alerts[F(k)] = W(k)
  BY DEF Holds
<1> HIDE DEF more, F, W, kept, now, alerts, r
<1>5. CASE ~Loads(language, r)
  BY <1>1, <1>2, <1>3, <1>5
<1>6. CASE Loads(language, r) /\ IsValidFile(r.raw.rules)
  <2>1. more.alerts = [f \in DOMAIN alerts \union {F(j + 1)} |->
                          IF f = F(j + 1) THEN W(j + 1) ELSE alerts[f]]
    BY <1>1, <1>6 DEF WithFile
  <2>2. now = others \union {j + 1}
    BY <1>2, <1>6
  <2>3. DOMAIN more.alerts = {F(k) : k \in now}
    BY <1>3, <2>1, <2>2
  <2>4. \A k \in now : more.alerts[F(k)] = W(k)
    BY <1>3, <2>1, <2>2
  <2>5. QED
    BY <2>3, <2>4
<1>7. CASE Loads(language, r) /\ ~IsValidFile(r.raw.rules)
  <2>1. more.alerts = [f \in DOMAIN alerts \ {F(j + 1)} |-> alerts[f]]
    BY <1>1, <1>7 DEF WithoutFile
  <2>2. now = others
    BY <1>2, <1>7
  <2>3. DOMAIN more.alerts = {F(k) : k \in now}
    BY <1>3, <2>1, <2>2
  <2>4. \A k \in now : more.alerts[F(k)] = W(k)
    BY <1>3, <2>1, <2>2
  <2>5. QED
    BY <2>3, <2>4
<1>8. QED
  BY <1>5, <1>6, <1>7

\* How the turns of relations are folded.
LoadFold(language) == [fold |-> "load", language |-> language]
Unloaded(reported) == [alerts |-> << >>, errors |-> reported]

\* alerts goes through the relations one by one.
LEMMA AlertsFold ==
    ASSUME NEW language, NEW seq, NEW reported, NEW n \in Nat, DOMAIN seq = 1 .. n
    PROVE  \E h : /\ Unfolds(LoadFold(language), Unloaded(reported), seq, n, h)
                  /\ Alerts(language, seq, reported) = h[n]
<1> DEFINE c == LoadFold(language)
           base == Unloaded(reported)
           Fold(f) == f = [s \in SUBSET DOMAIN seq |->
                        IF s = {} THEN base ELSE Load(language, f[s \ {Max(s)}], seq[Max(s)])]
           g == CHOOSE f : Fold(f)
<1>1. Alerts(language, seq, reported) = g[DOMAIN seq]
  BY DEF Alerts, FoldLeft, MapThenFoldSet, Unloaded
<1>2. \E f : IsFold(c, base, seq, n, f)
  BY FoldExists
<1>3. \A a, b : Apply(c, a, b) = Load(language, a, b)
  BY DEF Apply, LoadFold
<1>4. \A f : IsFold(c, base, seq, n, f) <=> Fold(f)
  BY <1>3 DEF IsFold, FoldStep
<1>5. IsFold(c, base, seq, n, g)
  <2> HIDE DEF Fold
  <2>1. QED
    BY <1>2, <1>4
<1>6. PICK h : Unfolds(c, base, seq, n, h) /\ h[n] = g[1 .. n]
  <2> HIDE DEF g, c, base
  <2>1. QED
    BY <1>5, FoldPrefixes
<1>7. QED
  BY <1>1, <1>6

\* Relations that are to be loaded: each of an id of its own, with files of the form.
AreRelations(relations) ==
    /\ IsSequence(relations)
    /\ \A k, l \in DOMAIN relations : k # l => relations[k].id # relations[l].id
    /\ \A k \in DOMAIN relations : IsRuleFile(relations[k].raw.rules)

\* After all turns the relations with invalid rules are reported, and none with valid ones.
LEMMA AllAreReported ==
    ASSUME NEW language, NEW relations, AreRelations(relations), NEW reported
    PROVE  Reports(language, Range(relations), reported, Alerts(language, relations, reported).errors)
<1> DEFINE n == Len(relations)
<1>1. n \in Nat /\ DOMAIN relations = 1 .. n
  BY DEF AreRelations, IsSequence
<1>2. PICK h : /\ Unfolds(LoadFold(language), Unloaded(reported), relations, n, h)
               /\ Alerts(language, relations, reported) = h[n]
  <2> HIDE DEF n
  <2>1. QED
    BY <1>1, AlertsFold
<1> DEFINE Met(j) == {relations[i] : i \in 1 .. j}
           P == {j \in 0 .. n : Reports(language, Met(j), reported, h[j].errors)}
<1>3. Range(relations) = Met(n)
  BY <1>1 DEF Range
<1>4. 0 \in P
  <2>1. h[0].errors = reported /\ Met(0) = {}
    BY <1>2 DEF Unfolds, Unloaded
  <2> HIDE DEF Met
  <2>2. Reports(language, Met(0), reported, h[0].errors)
    BY <2>1 DEF Reports, InvalidOf, ValidOf
  <2>3. QED
    BY <1>1, <2>2
<1>5. ASSUME NEW i \in 0 .. n - 1, i \in P
      PROVE  i + 1 \in P
  <2> DEFINE r == relations[i + 1]
  <2>1. h[i + 1] = Load(language, h[i], r)
    BY <1>2, <1>5 DEF Unfolds, Apply, LoadFold
  <2>2. Met(i + 1) = Met(i) \union {r}
    <3>1. 1 .. i + 1 = 1 .. i \union {i + 1}
      BY <1>1
    <3>2. QED
      BY <3>1
  <2>3. IsRuleFile(r.raw.rules) /\ \A q \in Met(i) : q.id # r.id
    BY <1>1, <1>5 DEF AreRelations
  <2> HIDE DEF Met, r
  <2>4. Reports(language, Met(i), reported, h[i].errors)
    BY <1>5
  <2> DEFINE met == Met(i) loaded == h[i]
  <2>5. Reports(language, Met(i + 1), reported, h[i + 1].errors)
    <3>1. Reports(language, met, reported, loaded.errors) /\ \A q \in met : q.id # r.id
      BY <2>3, <2>4
    <3> HIDE DEF met, loaded
    <3>2. Reports(language, met \union {r}, reported, Load(language, loaded, r).errors)
      BY <2>3, <3>1, MoreReports
    <3>3. QED
      BY <2>1, <2>2, <3>2 DEF met, loaded
  <2>6. QED
    BY <1>1, <2>5
<1>6. n \in P
  <2> HIDE DEF P, n
  <2>1. n \in 0 .. n
    BY <1>1
  <2>2. QED
    BY <1>1, <1>4, <1>5, <2>1, Upward
<1>7. Reports(language, Met(n), reported, h[n].errors)
  <2> HIDE DEF Met
  <2>1. QED
    BY <1>6
<1>8. QED
  BY <1>2, <1>3, <1>7

\* After all turns the rules of every relation with valid ones are held that no later one replaced.
LEMMA AllAreHeld ==
    ASSUME NEW language, NEW relations, AreRelations(relations), NEW reported
    PROVE  Holds(language, relations, Len(relations), Alerts(language, relations, reported).alerts)
<1> DEFINE n == Len(relations)
<1>1. n \in Nat /\ DOMAIN relations = 1 .. n
  BY DEF AreRelations, IsSequence
<1>2. PICK h : /\ Unfolds(LoadFold(language), Unloaded(reported), relations, n, h)
               /\ Alerts(language, relations, reported) = h[n]
  <2> HIDE DEF n
  <2>1. QED
    BY <1>1, AlertsFold
<1> DEFINE P == {j \in 0 .. n : Holds(language, relations, j, h[j].alerts)}
<1>3. 0 \in P
  <2>1. h[0].alerts = << >>
    BY <1>2 DEF Unfolds, Unloaded
  <2>2. KeptRules(language, relations, 0) = {} /\ DOMAIN h[0].alerts = {}
    BY <2>1 DEF KeptRules
  <2>3. Holds(language, relations, 0, h[0].alerts)
    BY <2>2 DEF Holds
  <2>4. QED
    BY <1>1, <2>3
<1>4. ASSUME NEW i \in 0 .. n - 1, i \in P
      PROVE  i + 1 \in P
  <2>1. h[i + 1] = Load(language, h[i], relations[i + 1])
    BY <1>2, <1>4 DEF Unfolds, Apply, LoadFold
  <2>2. IsRuleFile(relations[i + 1].raw.rules)
    BY <1>1, <1>4 DEF AreRelations
  <2>3. Holds(language, relations, i, h[i].alerts) /\ i \in Nat
    BY <1>4
  <2>4. Holds(language, relations, i + 1, h[i + 1].alerts)
    BY <2>1, <2>2, <2>3, MoreHolds
  <2>5. QED
    BY <1>1, <2>4
<1>5. n \in P
  <2> HIDE DEF P, n
  <2>1. n \in 0 .. n
    BY <1>1
  <2>2. QED
    BY <1>1, <1>3, <1>4, <2>1, Upward
<1>6. QED
  BY <1>2, <1>5

\* There are as many files as relations whose rules are kept.
LEMMA HeldByEach ==
    ASSUME NEW language, NEW relations, NEW n \in Nat, NEW alerts,
           Holds(language, relations, n, alerts)
    PROVE  Cardinality(DOMAIN alerts) = Cardinality(KeptRules(language, relations, n))
<1> DEFINE kept == KeptRules(language, relations, n)
           F(k) == FileOf(language, relations[k])
           file == [k \in kept |-> F(k)]
<1>1. /\ kept \subseteq 1 .. n
      /\ \A k \in kept : Loads(language, relations[k])
      /\ \A k \in kept : \A l \in k + 1 .. n : Loads(language, relations[l]) => F(l) # F(k)
  BY DEF KeptRules
<1>2. IsFiniteSet(kept)
  <2>1. IsFiniteSet(1 .. n)
    BY FS_Interval
  <2> HIDE DEF kept
  <2>2. QED
    BY <1>1, <2>1, FS_Subset
<1>3. DOMAIN alerts = {F(k) : k \in kept}
  BY DEF Holds
<1> HIDE DEF kept, F
<1>4. file \in [kept -> DOMAIN alerts]
  BY <1>3
<1>5. \A k, l \in kept : k # l => file[k] # file[l]
  <2>1. ASSUME NEW k \in kept, NEW l \in kept, k < l
        PROVE  F(k) # F(l)
    <3>1. l \in k + 1 .. n
      BY <1>1, <2>1
    <3>2. QED
      BY <1>1, <3>1
  <2>2. \A k, l \in kept : k # l => k < l \/ l < k
    BY <1>1
  <2>3. QED
    BY <2>1, <2>2
<1>6. \A f \in DOMAIN alerts : \E k \in kept : file[k] = f
  BY <1>3
<1> HIDE DEF file
<1>7. file \in Bijection(kept, DOMAIN alerts)
  BY <1>4, <1>5, <1>6 DEF Bijection, Injection, Surjection, IsInjective
<1>8. ExistsBijection(kept, DOMAIN alerts)
  BY <1>7 DEF ExistsBijection
<1>9. QED
  BY <1>2, <1>8, FS_Bijection DEF kept

\* What is to be loaded is of the constants', and what was loaded is what alerts makes of it.
IsRules(g) ==
    g.language \in Languages /\ g.relations \in RuleSets[g.language] /\ g.leads \in BOOLEAN
RulesInv ==
    subject = "rules" =>
        /\ IsRules(given)
        /\ made # NONE =>
              LET loaded == Alerts(given.language, Publications, given.reported) IN
                 /\ made.alerts = loaded.alerts
                 /\ made.errors = IF given.leads THEN loaded.errors ELSE given.reported

\* What is published has the form, the ids and the rules of what is given.
LEMMA PublishedRelations ==
    ASSUME IsRules(given)
    PROVE  /\ AreRelations(Publications) /\ IsFiniteSet(Range(Publications))
           /\ DOMAIN Publications = DOMAIN given.relations
           /\ \A k \in DOMAIN given.relations :
                 /\ Publications[k] = Publication(given.relations[k])
                 /\ Publications[k].id = given.relations[k].id
                 /\ Publications[k].raw.rules = given.relations[k].rules
<1> DEFINE n == Len(given.relations) relations == Publications
<1>1. /\ n \in Nat /\ DOMAIN given.relations = 1 .. n
      /\ \A k, l \in 1 .. n : k # l => given.relations[k].id # given.relations[l].id
      /\ \A k \in 1 .. n : IsRuleFile(given.relations[k].rules)
  BY RuleSetsAssumption DEF IsRules, IsSequence
<1>2. relations = [k \in 1 .. n |-> Publication(given.relations[k])]
  BY <1>1 DEF Publications
<1>3. ASSUME NEW r
      PROVE  Publication(r).id = r.id /\ Publication(r).raw.rules = r.rules
  BY DEF Publication, Written
<1> HIDE DEF relations, n
<1>4. \A k \in 1 .. n : /\ relations[k].id = given.relations[k].id
                        /\ relations[k].raw.rules = given.relations[k].rules
  BY <1>2, <1>3
<1>5. DOMAIN relations = 1 .. n /\ relations = [k \in 1 .. n |-> relations[k]]
  BY <1>2
<1>6. IsSequence(relations)
  BY <1>1, <1>5, FunctionIsSequence
<1>7. AreRelations(relations)
  BY <1>1, <1>4, <1>5, <1>6 DEF AreRelations
<1>8. IsFiniteSet(Range(relations))
  <2>1. IsFiniteSet(1 .. n)
    BY <1>1, FS_Interval
  <2>2. relations \in Surjection(1 .. n, Range(relations))
    BY <1>5 DEF Surjection, Range
  <2>3. QED
    BY <2>1, <2>2, FS_Surjection DEF ExistsSurjection
<1>9. QED
  BY <1>1, <1>2, <1>4, <1>5, <1>7, <1>8 DEF relations

\* An application writes what the other end reads.
LEMMA WritesWhatIsRead ==
    ASSUME NEW language \in Languages, NEW rules, NEW advertised, NEW reads,
           advertised = NONE \/ advertised \subseteq reads
    PROVE  Written(language, rules, advertised).format \in {"json"} \union reads
<1>1. CASE language = "promql"
  BY <1>1 DEF Written
<1>2. CASE language # "promql"
  <2>1. Written(language, rules, advertised).format = BestEncoding(advertised)
    BY <1>2 DEF Written
  <2> DEFINE known == IF advertised = NONE THEN {}
                      ELSE {i \in DOMAIN Encodings : Encodings[i] \in advertised}
             best == CHOOSE i \in known : \A j \in known : i <= j
  <2>2. CASE known = {}
    BY <2>1, <2>2 DEF BestEncoding
  <2>3. CASE known # {}
    <3>1. BestEncoding(advertised) = Encodings[best]
      BY <2>3 DEF BestEncoding
    <3>2. known \subseteq Nat
      <4>1. DOMAIN Encodings \subseteq Nat
        BY DEF Encodings
      <4>2. QED
        BY <4>1
    <3>3. known \subseteq {i \in DOMAIN Encodings : advertised # NONE /\ Encodings[i] \in advertised}
      OBVIOUS
    <3> HIDE DEF known
    <3>4. best \in known
      BY <2>3, <3>2, Least
    <3>5. QED
      BY <2>1, <3>1, <3>3, <3>4
  <2>4. QED
    BY <2>2, <2>3
<1>3. QED
  BY <1>1, <1>2

\* What an application of ours writes is in an encoding that the other end reads.
LEMMA PublishedIsRead ==
    ASSUME IsRules(given), NEW k \in DOMAIN given.relations, given.relations[k].form = "ours"
    PROVE  Publications[k].raw.format \in {"json"} \union given.relations[k].reads
<1> DEFINE r == given.relations[k]
           advertised == IF r.reader = "ours" THEN Advertised(r.advertised, given.leads)
                         ELSE r.advertised
<1>1. Publications[k] = Publication(r)
  BY PublishedRelations
<1>2. Publication(r).raw = Written(given.language, r.rules, advertised)
  BY DEF Publication
<1>3. /\ r.reader = "ours" => Range(Encodings) \subseteq r.reads
      /\ r.advertised # NONE => r.advertised \subseteq r.reads
  BY RuleSetsAssumption DEF IsRules
<1> HIDE DEF r
<1>4. advertised = NONE \/ advertised \subseteq r.reads
  BY <1>3 DEF Advertised
<1> HIDE DEF advertised
<1>5. QED
  BY <1>1, <1>2, <1>4, WritesWhatIsRead DEF IsRules, r

\* What alerts makes of what is published is what RulesAreLoaded asks for.
LEMMA LoadedAsPublished ==
    ASSUME subject = "rules", RulesInv, made # NONE
    PROVE  RulesAreLoaded
<1> DEFINE relations == Publications
           language == given.language
           met == Range(relations)
           n == Len(relations)
           rules(k) == relations[k].raw.rules
           id(k) == Identifier(rules(k), relations[k].metadata)
           files == {k \in DOMAIN relations :
                       /\ relations[k].inhabited /\ rules(k) # Empty
                       /\ Readable(given.language, relations[k].raw)}
           valid == {k \in files : IsValidFile(rules(k))}
           replaces(l, k) == given.language = "logql" /\ l > k /\ id(l) = id(k)
           lasting == {k \in valid : \A l \in files : ~replaces(l, k)}
           loaded == Alerts(language, relations, given.reported)
<1>1. /\ IsRules(given) /\ made.alerts = loaded.alerts
      /\ made.errors = IF given.leads THEN loaded.errors ELSE given.reported
  BY DEF RulesInv
<1>2. AreRelations(relations) /\ DOMAIN relations = DOMAIN given.relations
  BY <1>1, PublishedRelations
<1>3. n \in Nat /\ DOMAIN relations = 1 .. n
  BY <1>2 DEF AreRelations, IsSequence
<1>4. made.errors = IF given.leads
                    THEN {relations[k].id : k \in files \ valid} \union
                         (given.reported \ {relations[k].id : k \in valid})
                    ELSE given.reported
  <2>1. Reports(language, met, given.reported, loaded.errors)
    BY <1>2, AllAreReported
  <2>2. /\ ValidOf(language, met) = {relations[k] : k \in valid}
        /\ InvalidOf(language, met) = {relations[k] : k \in files \ valid}
    BY DEF ValidOf, InvalidOf, Loads, Range
  <2> HIDE DEF valid, files, met, loaded, relations
  <2>3. /\ {r.id : r \in ValidOf(language, met)} = {relations[k].id : k \in valid}
        /\ {r.id : r \in InvalidOf(language, met)} = {relations[k].id : k \in files \ valid}
    BY <2>2
  <2>4. QED
    BY <1>1, <2>1, <2>3 DEF Reports
<1>5. lasting = KeptRules(language, relations, n)
  <2>1. \A k \in 1 .. n : k \in files <=> Loads(language, relations[k])
    BY <1>3 DEF Loads
  <2>2. \A k \in 1 .. n : id(k) = IdOf(relations[k])
    BY DEF IdOf
  <2>3. ASSUME NEW k \in 1 .. n, NEW l \in 1 .. n, l > k
        PROVE  replaces(l, k) <=> FileOf(language, relations[l]) = FileOf(language, relations[k])
    <3>1. relations[k].id # relations[l].id
      BY <1>2, <1>3, <2>3 DEF AreRelations
    <3>2. CASE language = "promql"
      BY <3>1, <3>2 DEF FileOf, File
    <3>3. CASE language = "logql"
      BY <2>2, <2>3, <3>3 DEF FileOf, File
    <3>4. QED
      BY <1>1, <3>2, <3>3 DEF IsRules, Languages
  <2>4. files \subseteq 1 .. n /\ \A l, k \in 1 .. n : replaces(l, k) => l > k
    BY <1>3
  <2>5. valid = {k \in files : IsValidFile(relations[k].raw.rules)}
    OBVIOUS
  <2> HIDE DEF files, valid, replaces, relations, n
  <2>6. ASSUME NEW k \in 1 .. n
        PROVE  (\A l \in files : ~replaces(l, k)) <=>
               \A l \in k + 1 .. n : Loads(language, relations[l]) =>
                    FileOf(language, relations[l]) # FileOf(language, relations[k])
    <3>1. \A l \in 1 .. n : l > k <=> l \in k + 1 .. n
      BY <1>3
    <3>2. \A l \in k + 1 .. n : l \in 1 .. n
      BY <1>3
    <3>3. QED
      BY <2>1, <2>3, <2>4, <3>1, <3>2
  <2>7. QED
    BY <2>1, <2>4, <2>5, <2>6 DEF KeptRules
<1>6. Holds(language, relations, n, made.alerts)
  BY <1>1, <1>2, AllAreHeld
<1>7. Cardinality(DOMAIN made.alerts) = Cardinality(lasting)
  <2>1. n \in Nat
    BY <1>3
  <2> HIDE DEF lasting, n, relations, language
  <2>2. Cardinality(DOMAIN made.alerts) = Cardinality(KeptRules(language, relations, n))
    BY <1>6, <2>1, HeldByEach
  <2>3. QED
    BY <1>5, <2>2
<1>8. ASSUME NEW k \in lasting
      PROVE  \E f \in DOMAIN made.alerts : f.identifier = id(k) /\ made.alerts[f] = WithLabels(rules(k))
  <2>1. k \in KeptRules(language, relations, n)
    BY <1>5
  <2>2. FileOf(language, relations[k]).identifier = id(k)
    BY DEF FileOf, File, IdOf
  <2>3. QED
    BY <1>6, <2>1, <2>2 DEF Holds
<1>9. \A k \in DOMAIN given.relations :
          given.relations[k].form = "ours" =>
              relations[k].raw.format \in {"json"} \union given.relations[k].reads
  BY <1>1, PublishedIsRead
<1>10. QED
  BY <1>4, <1>7, <1>8, <1>9 DEF RulesAreLoaded

\* For any relations, rules and readers: what is written can be read, Prometheus loads all valid
\* rules, Loki those of the last relation of each name if they are valid, and the leader's reports
\* are of the relations with invalid rules and of those that were reported and have had no valid
\* ones since (prometheus_scrape.py:1075, 1121, loki_push_api.py:1294, 1367).
THEOREM RulesAreLoadedAsPublished == ContentSpec => []RulesAreLoaded
<1>1. ContentInit => RulesInv
  BY DEF ContentInit, RulesInv, IsRules
<1>2. RulesInv /\ [ContentNext]_contentVars => RulesInv'
  <2>1. SUFFICES ASSUME RulesInv, [ContentNext]_contentVars, subject' = "rules"
                 PROVE  RulesInv'
    BY DEF RulesInv
  <2>2. subject = "rules" /\ given' = given
    BY <2>1 DEF ContentNext, contentVars
  <2>3. Publications' = Publications
    BY <2>2 DEF Publications, Publication
  <2>4. CASE UNCHANGED contentVars
    BY <2>1, <2>2, <2>3, <2>4 DEF RulesInv, contentVars
  <2>5. CASE LoadRules
    <3> DEFINE loaded == Alerts(given.language, Publications, given.reported)
    <3>1. made' = [alerts |-> loaded.alerts,
                   errors |-> IF given.leads THEN loaded.errors ELSE given.reported,
                   blocked |-> HasInvalidAlertRules(given.leads, loaded.errors)]
      BY <2>5 DEF LoadRules
    <3> HIDE DEF loaded
    <3>2. made'.alerts = loaded.alerts /\
          made'.errors = IF given.leads THEN loaded.errors ELSE given.reported
      BY <3>1
    <3>3. IsRules(given)
      BY <2>1, <2>2 DEF RulesInv
    <3>4. QED
      BY <2>2, <2>3, <3>2, <3>3 DEF RulesInv, loaded
  <2>6. QED
    BY <2>1, <2>2, <2>4, <2>5
       DEF ContentNext, ShowBoard, ListDashboards, RunActions, Scrape, FetchFields, Log
<1>3. RulesInv => RulesAreLoaded
  <2>1. CASE Done("rules")
    BY <2>1, LoadedAsPublished DEF Done
  <2>2. CASE ~Done("rules")
    BY <2>2 DEF RulesAreLoaded
  <2>3. QED
    BY <2>1, <2>2
<1>4. QED
  BY <1>1, <1>2, <1>3, PTL DEF ContentSpec

(***************************************************************************)
(* Actions.                                                                *)
(***************************************************************************)

\* A sequence with one more element.
LEMMA Appended ==
    ASSUME NEW s, IsSequence(s), NEW e
    PROVE  /\ IsSequence(Append(s, e)) /\ DOMAIN s = 1 .. Len(s) /\ Len(s) \in Nat
           /\ Len(Append(s, e)) = Len(s) + 1 /\ Append(s, e)[Len(s) + 1] = e
           /\ \A i \in DOMAIN s : Append(s, e)[i] = s[i]
<1>1. s \in Seq(Range(s) \union {e})
  BY DEF IsSequence
<1>2. /\ Append(s, e) \in Seq(Range(s) \union {e}) /\ Len(Append(s, e)) = Len(s) + 1
      /\ Append(s, e)[Len(s) + 1] = e /\ Len(s) \in Nat /\ DOMAIN s = 1 .. Len(s)
      /\ \A i \in DOMAIN s : Append(s, e)[i] = s[i]
  BY <1>1
<1>3. Range(Append(s, e)) = Range(s) \union {e}
  <2>1. DOMAIN Append(s, e) = 1 .. Len(s) + 1
    BY <1>2
  <2>2. QED
    BY <1>2, <2>1 DEF Range
<1>4. QED
  BY <1>2, <1>3 DEF IsSequence

\* What a command leaves behind: nothing if it was never answered.
LEMMA CommandState ==
    ASSUME NEW state, NEW op, MayAnswer(op), NEW effect, NEW values
    PROVE  RunCli(state, op, effect, values).state = IF op.answer = "none" THEN state ELSE effect.state
<1>1. CASE op.answer = "in time"
  BY <1>1 DEF RunCli
<1>2. CASE op.answer = "late"
  BY <1>2 DEF RunCli
<1>3. CASE op.answer = "none"
  BY <1>3 DEF RunCli
<1>4. QED
  BY <1>1, <1>2, <1>3 DEF MayAnswer

\* The code of a command that was answered in time is that of its effect.
LEMMA CommandCode ==
    ASSUME NEW state, NEW op, MayAnswer(op), NEW effect, NEW values
    PROVE  RunCli(state, op, effect, values).code = IF op.answer = "in time" THEN effect.code ELSE 0
<1>1. CASE op.answer = "in time"
  BY <1>1 DEF RunCli
<1>2. CASE op.answer = "late"
  BY <1>2 DEF RunCli
<1>3. CASE op.answer = "none"
  BY <1>3 DEF RunCli
<1>4. QED
  BY <1>1, <1>2, <1>3 DEF MayAnswer

\* A command raises exactly when it is not answered in time.
LEMMA CommandRaised ==
    ASSUME NEW state, NEW op, MayAnswer(op), NEW effect, NEW values
    PROVE  /\ RunCli(state, op, effect, values).raised \in BOOLEAN
           /\ RunCli(state, op, effect, values).raised <=> op.answer # "in time"
<1>1. CASE op.answer = "in time"
  BY <1>1 DEF RunCli
<1>2. CASE op.answer = "late"
  BY <1>2 DEF RunCli
<1>3. CASE op.answer = "none"
  BY <1>3 DEF RunCli
<1>4. QED
  BY <1>1, <1>2, <1>3 DEF MayAnswer

\* A command's result has all of its parts.
LEMMA CommandRecord ==
    ASSUME NEW state, NEW op, MayAnswer(op), NEW effect, NEW values
    PROVE  LET result == RunCli(state, op, effect, values) IN
             result = [state |-> result.state, code |-> result.code, raised |-> result.raised,
                       output |-> result.output]
<1>1. CASE op.answer = "in time"
  BY <1>1 DEF RunCli
<1>2. CASE op.answer = "late"
  BY <1>2 DEF RunCli
<1>3. CASE op.answer = "none"
  BY <1>3 DEF RunCli
<1>4. QED
  BY <1>1, <1>2, <1>3 DEF MayAnswer

\* A code that is not 0 is raised.
LEMMA StatusIsRaised ==
    ASSUME NEW result, result = [state |-> result.state, code |-> result.code,
                                 raised |-> result.raised, output |-> result.output],
           result.raised \in BOOLEAN
    PROVE  /\ RaiseForStatus(result).state = result.state
           /\ RaiseForStatus(result).output = result.output
           /\ RaiseForStatus(result).raised <=> (result.raised \/ result.code # 0)
<1>1. PICK flag \in BOOLEAN : flag <=> (result.raised \/ result.code # 0)
  OBVIOUS
<1>2. flag = (result.raised \/ result.code # 0)
  BY <1>1
<1>3. RaiseForStatus(result) = [result EXCEPT !.raised = flag]
  BY <1>2, Zenon DEF RaiseForStatus
<1>4. RaiseForStatus(result).state = result.state /\ RaiseForStatus(result).raised = flag
      /\ RaiseForStatus(result).output = result.output
  <2> HIDE <1>2
  <2>1. QED
    BY <1>3
<1>5. QED
  BY <1>1, <1>4

\* MediaWiki's script gives the account its groups and password, or does nothing.
LEMMA AccountEffect ==
    ASSUME NEW state, IsState(state), NEW op, NEW password
    PROVE  LET effect == Account(state, op, password) user == effect.state.users[op.username]
               users == effect.state.users IN
             /\ IsState(effect.state) /\ effect.state.mode = state.mode
             /\ effect.state.ended = state.ended
             /\ effect.code # 0 => effect.state = state
             /\ effect.code = 0 => /\ op.username \in DOMAIN users /\ op.groups \subseteq user.groups
                                   /\ password # NoPassword => user.password = password
             /\ password # NoPassword /\ op.force => effect.code = 0
             /\ \A username \in DOMAIN state.users :
                  /\ username \in DOMAIN users
                  /\ username # op.username \/ password = NoPassword =>
                        users[username].password = state.users[username].password
<1> DEFINE exists == op.username \in DOMAIN state.users
           old == IF exists THEN state.users[op.username] ELSE [password |-> NoPassword, groups |-> {}]
           new == [password |-> IF password = NoPassword THEN old.password ELSE password,
                   groups |-> old.groups \union op.groups]
           after == [state EXCEPT !.users = WithUser(@, op.username, new)]
<1>1. CASE (exists /\ ~op.force) \/ (~exists /\ password = NoPassword)
  <2>1. Account(state, op, password) = [state |-> state, code |-> 1]
    BY <1>1 DEF Account
  <2>2. ~(password # NoPassword /\ op.force)
    BY <1>1
  <2>3. QED
    BY <2>1, <2>2
<1>2. CASE ~((exists /\ ~op.force) \/ (~exists /\ password = NoPassword))
  <2>1. Account(state, op, password) = [state |-> after, code |-> 0]
    BY <1>2 DEF Account
  <2>2. after = [users |-> WithUser(state.users, op.username, new), mode |-> state.mode,
                 unitModes |-> state.unitModes, ended |-> state.ended]
    BY DEF IsState
  <2>3. new.password # NoPassword
    <3>1. CASE password = NoPassword
      BY <1>2, <3>1 DEF IsState
    <3>2. CASE password # NoPassword
      BY <3>2
    <3>3. QED
      BY <3>1, <3>2
  <2>4. \A username \in DOMAIN after.users :
            after.users[username] = IF username = op.username THEN new ELSE state.users[username]
    BY <2>2 DEF WithUser
  <2>5. DOMAIN after.users = DOMAIN state.users \union {op.username}
    BY <2>2 DEF WithUser
  <2>6. IsState(after)
    <3>1. after = [users |-> after.users, mode |-> after.mode, unitModes |-> after.unitModes,
                   ended |-> after.ended]
      BY <2>2
    <3>2. \A username \in DOMAIN after.users : after.users[username].password # NoPassword
      BY <2>3, <2>4, <2>5 DEF IsState
    <3>3. QED
      BY <3>1, <3>2 DEF IsState
  <2>7. \A username \in DOMAIN state.users : username # op.username \/ password = NoPassword =>
            after.users[username].password = state.users[username].password
    BY <2>4, <2>5
  <2>8. /\ op.groups \subseteq after.users[op.username].groups
        /\ password # NoPassword => after.users[op.username].password = password
    BY <2>4, <2>5
  <2>9. after.mode = state.mode /\ after.ended = state.ended
    BY <2>2
  <2> HIDE DEF after
  <2>10. QED
    BY <2>1, <2>5, <2>6, <2>7, <2>8, <2>9
<1>3. QED
  BY <1>1, <1>2

\* What an action does, on its own.
Tells(state, op, act) ==
    /\ IsState(act.state)
    /\ act.outcome.failed \in BOOLEAN
    /\ act.outcome.failed /\ ~Interrupted(op) => act.state = state
    /\ ~act.outcome.failed => Fulfilled(op, act.state, act.outcome)
    /\ act.state.ended = IF IsAlone(op) THEN op.ends ELSE state.ended
    /\ act.state.mode # state.mode =>
          ~act.outcome.failed /\ state.mode = NORMAL /\ UnitsAreNormal(state)
    /\ op.action = "create-and-promote" /\ op.generate /\ op.force =>
          (act.outcome.failed <=> op.answer # "in time")
    /\ act.outcome.password # NoPassword =>
          ~act.outcome.failed /\ op.action = "create-and-promote" /\ op.generate
    /\ \A username \in DOMAIN state.users :
          /\ username \in DOMAIN act.state.users
          /\ \/ act.state.users[username].password = state.users[username].password
             \/ /\ Creates(op, username) /\ op.generate
                /\ act.outcome.password # NoPassword \/ op.answer = "late"

\* An action that fails shows no password.
LEMMA FailsOutcome ==
    ASSUME NEW text
    PROVE  LET outcome == Fails(text) IN
             outcome.failed \in BOOLEAN /\ outcome.failed /\ outcome.password = NoPassword
BY DEF Fails

\* An action that succeeds with a text shows no password.
LEMMA SucceedsOutcome ==
    ASSUME NEW text
    PROVE  LET outcome == Succeeds(text) IN
             outcome.failed \in BOOLEAN /\ ~outcome.failed /\ outcome.password = NoPassword
BY DEF Succeeds, Fails

\* An action that created a user shows the password.
LEMMA CreatedOutcome ==
    ASSUME NEW password
    PROVE  LET outcome == [Succeeds(<< >>) EXCEPT !.password = password] IN
             outcome.failed \in BOOLEAN /\ ~outcome.failed /\ outcome.password = password
BY DEF Succeeds, Fails

\* What the creation of a user tells is what it did.
LEMMA CreateTells ==
    ASSUME NEW state, IsState(state), NEW op, IsOperation(op), op.action = "create-and-promote",
           NEW values
    PROVE  Tells(state, op, Act(state, op, values))
<1> DEFINE act == Act(state, op, values)
           password == IF op.generate THEN op.fresh ELSE NoPassword
           effect == Account(state, op, password)
           result == RunCli(state, op, effect, values \union {password})
           raised == RaiseForStatus(result)
<1>1. act = OnCreateAndPromoteUser(state, op, values)
  BY DEF Act
<1>2. op.answer \in {"in time", "late", "none"} /\ op.fresh # NoPassword /\ Runs(op)
      /\ op.generate \in BOOLEAN /\ op.force \in BOOLEAN
      /\ ~IsAlone(op) /\ (Interrupted(op) <=> op.answer = "late")
  BY DEF IsOperation, Runs, MayAnswer, IsAlone, Interrupted
<1> MayAnswer(op)
  BY DEF IsOperation, Runs
<1>3. CASE ~op.generate /\ ~op.force
  <2>1. act = [state |-> state, outcome |-> Fails(<< >>)]
    BY <1>1, <1>3 DEF OnCreateAndPromoteUser, Ends
  <2>2. /\ act.state = state
        /\ act.outcome.failed \in BOOLEAN /\ act.outcome.failed
        /\ act.outcome.password = NoPassword
    BY <2>1, FailsOutcome, SucceedsOutcome, CreatedOutcome
  <2> HIDE DEF act
  <2>3. QED
    BY <1>2, <1>3, <2>2 DEF Tells, act
<1>4. CASE op.generate \/ op.force
  <2>1. act.state = raised.state /\
        act.outcome = IF raised.raised THEN Fails(raised.output)
                      ELSE [Succeeds(<< >>) EXCEPT !.password = password]
    BY <1>1, <1>4 DEF OnCreateAndPromoteUser, CreateAndPromoteUser, Ends
  <2>2. /\ result.state = IF op.answer = "none" THEN state ELSE effect.state
        /\ (result.raised <=> op.answer # "in time") /\ result.raised \in BOOLEAN
        /\ op.answer = "in time" => result.code = effect.code
        /\ raised.state = result.state /\ (raised.raised <=> (result.raised \/ result.code # 0))
    <3>1. /\ result = [state |-> result.state, code |-> result.code, raised |-> result.raised,
                       output |-> result.output]
          /\ result.state = IF op.answer = "none" THEN state ELSE effect.state
          /\ (result.raised <=> op.answer # "in time") /\ result.raised \in BOOLEAN
          /\ result.code = IF op.answer = "in time" THEN effect.code ELSE 0
      <4> DEFINE registered == values \union {password}
      <4>1. result = RunCli(state, op, effect, registered)
        OBVIOUS
      <4> HIDE DEF result, effect, registered
      <4>2. result.state = IF op.answer = "none" THEN state ELSE effect.state
        BY <4>1, CommandState
      <4>3. result.code = IF op.answer = "in time" THEN effect.code ELSE 0
        BY <4>1, CommandCode
      <4>4. result.raised \in BOOLEAN /\ (result.raised <=> op.answer # "in time")
        BY <4>1, CommandRaised
      <4>5. result = [state |-> result.state, code |-> result.code, raised |-> result.raised,
                      output |-> result.output]
        BY <4>1, CommandRecord
      <4>6. QED
        BY <4>2, <4>3, <4>4, <4>5
    <3>2. raised.state = result.state /\ (raised.raised <=> (result.raised \/ result.code # 0))
      BY <3>1, StatusIsRaised
    <3>3. QED
      BY <3>1, <3>2
  <2> HIDE DEF act, effect, result, raised
  <2>3. raised.raised <=> (op.answer # "in time" \/ effect.code # 0)
    BY <2>2
  <2>4. /\ act.outcome.failed \in BOOLEAN
        /\ act.outcome.failed <=> (op.answer # "in time" \/ effect.code # 0)
        /\ act.outcome.password = IF op.answer = "in time" /\ effect.code = 0 THEN password ELSE NoPassword
    <3>1. CASE raised.raised
      BY ZenonT(40), <2>1, <2>3, <3>1, FailsOutcome, SucceedsOutcome, CreatedOutcome
    <3>2. CASE ~raised.raised
      BY <2>1, <2>3, <3>2, FailsOutcome, SucceedsOutcome, CreatedOutcome
    <3>3. QED
      BY <3>1, <3>2
  <2>5. act.state = IF op.answer = "none" THEN state ELSE effect.state
    BY <2>1, <2>2
  <2> DEFINE user == effect.state.users[op.username]
             users == effect.state.users
  <2>6. /\ IsState(effect.state) /\ effect.state.mode = state.mode
        /\ effect.state.ended = state.ended
        /\ effect.code # 0 => effect.state = state
        /\ effect.code = 0 => /\ op.username \in DOMAIN users /\ op.groups \subseteq user.groups
                              /\ password # NoPassword => user.password = password
        /\ password # NoPassword /\ op.force => effect.code = 0
        /\ \A username \in DOMAIN state.users :
             /\ username \in DOMAIN users
             /\ username # op.username \/ password = NoPassword =>
                   users[username].password = state.users[username].password
    BY AccountEffect DEF effect
  <2>7. password # NoPassword <=> op.generate
    BY <1>2
  <2> HIDE DEF password
  <2>8. \A username \in DOMAIN state.users :
          /\ username \in DOMAIN act.state.users
          /\ \/ act.state.users[username].password = state.users[username].password
             \/ /\ Creates(op, username) /\ op.generate
                /\ act.outcome.password # NoPassword \/ op.answer = "late"
    <3>1. CASE op.answer = "none"
      BY <3>1, <2>5
    <3>2. CASE op.answer = "late"
      BY <3>2, <2>5, <2>6, <2>7 DEF Creates
    <3>3. CASE op.answer = "in time" /\ effect.code = 0
      BY <3>3, <2>4, <2>5, <2>6, <2>7 DEF Creates
    <3>4. CASE op.answer = "in time" /\ effect.code # 0
      BY <3>4, <2>5, <2>6
    <3>5. QED
      BY <1>2, <3>1, <3>2, <3>3, <3>4
  <2>9. /\ act.outcome.failed /\ op.answer # "late" => act.state = state
        /\ act.state.mode = state.mode /\ act.state.ended = state.ended /\ IsState(act.state)
    BY <1>2, <2>4, <2>5, <2>6
  <2>10. ~act.outcome.failed => Fulfilled(op, act.state, act.outcome)
    <3>1. ~act.outcome.failed =>
            /\ op.username \in DOMAIN act.state.users
            /\ op.groups \subseteq act.state.users[op.username].groups
            /\ op.generate => act.outcome.password = act.state.users[op.username].password
      BY <2>4, <2>5, <2>6, <2>7
    <3>2. QED
      BY <2>9, <3>1 DEF Fulfilled, IsState
  <2>11. op.generate /\ op.force => (act.outcome.failed <=> op.answer # "in time")
    BY <2>4, <2>6, <2>7
  <2>12. act.outcome.password # NoPassword => ~act.outcome.failed /\ op.generate
    BY <2>4, <2>7
  <2>13. QED
    BY <1>2, <2>4, <2>8, <2>9, <2>10, <2>11, <2>12 DEF Tells, act
<1>5. QED
  BY <1>2, <1>3, <1>4

\* What any action tells is what it did.
LEMMA ActTells ==
    ASSUME NEW state, IsState(state), NEW op, IsOperation(op), NEW values
    PROVE  Tells(state, op, Act(state, op, values))
<1> DEFINE act == Act(state, op, values)
<1>1. CASE op.action = "create-and-promote"
  BY <1>1, CreateTells
<1>2. CASE op.action = "run-maintenance-script"
  <2>1. act = OnRunMaintenanceScript(state, op, values)
    BY <1>2 DEF Act
  <2>2. MayAnswer(op)
    BY <1>2 DEF IsOperation, Runs
  <2> DEFINE result == RunCli(state, op, Script(state, op), values)
  <2>3. result.state = state
    <3>1. Script(state, op).state = state
      BY DEF Script
    <3>2. result.state = IF op.answer = "none" THEN state ELSE Script(state, op).state
      <4> DEFINE effect == Script(state, op)
      <4>1. result = RunCli(state, op, effect, values)
        OBVIOUS
      <4> HIDE DEF result, effect
      <4>2. result.state = IF op.answer = "none" THEN state ELSE effect.state
        BY <2>2, <4>1, CommandState
      <4>3. QED
        BY <4>2 DEF effect
    <3>3. QED
      BY <3>1, <3>2
  <2>4. act = IF Refused(op) THEN [state |-> state, outcome |-> Fails(<< >>)]
              ELSE [state |-> state, outcome |-> IF result.raised \/ result.code # 0
                                                 THEN Fails(result.output) ELSE Succeeds(result.output)]
    <3> HIDE DEF result
    <3>1. QED
      BY <2>1, <2>3 DEF OnRunMaintenanceScript, Ends, result
  <2> HIDE DEF act, result
  <2>5. act.state = state /\ act.outcome \in {Fails(<< >>), Fails(result.output), Succeeds(result.output)}
    BY <2>4
  <2>6. act.outcome.failed \in BOOLEAN /\ act.outcome.password = NoPassword
    BY <2>5, FailsOutcome, SucceedsOutcome, CreatedOutcome
  <2>7. act.outcome.failed \/ ~(result.raised \/ result.code # 0)
    BY <2>4, FailsOutcome
  <2>8. ~(result.raised \/ result.code # 0) => op.answer = "in time" /\ op.code = 0
    <3> DEFINE effect == Script(state, op)
    <3>1. result = RunCli(state, op, effect, values) /\ effect.code = op.code
      BY DEF result, Script
    <3> HIDE DEF effect
    <3>2. result.code = IF op.answer = "in time" THEN effect.code ELSE 0
      BY <2>2, <3>1, CommandCode
    <3>3. result.raised <=> op.answer # "in time"
      BY <2>2, <3>1, CommandRaised
    <3>4. QED
      BY <3>1, <3>2, <3>3
  <2>9. ~act.outcome.failed => Fulfilled(op, act.state, act.outcome)
    BY <1>2, <2>7, <2>8 DEF Fulfilled
  <2>10. QED
    BY <1>2, <2>5, <2>6, <2>9 DEF Tells, act, IsAlone
<1>3. ASSUME NEW mode, mode # state.mode => state.mode = NORMAL /\ UnitsAreNormal(state),
             NEW text, ~Runs(op), ~IsAlone(op),
             act = [state |-> [state EXCEPT !.mode = mode], outcome |-> Succeeds(text)],
             Fulfilled(op, act.state, act.outcome)
      PROVE  Tells(state, op, act)
  <2>1. /\ act.state = [state EXCEPT !.mode = mode]
        /\ act.outcome.failed \in BOOLEAN /\ ~act.outcome.failed /\ act.outcome.password = NoPassword
    BY <1>3, SucceedsOutcome
  <2>2. act.state = [users |-> state.users, mode |-> mode, unitModes |-> state.unitModes,
                     ended |-> state.ended]
    BY <2>1 DEF IsState
  <2>3. IsState(act.state) /\ act.state.users = state.users /\ act.state.mode = mode
        /\ act.state.ended = state.ended
    BY <2>2 DEF IsState
  <2> HIDE DEF act
  <2>4. QED
    BY <1>3, <2>1, <2>3 DEF Tells, Runs
<1>4. [state EXCEPT !.mode = state.mode] = state
      /\ \A mode : [state EXCEPT !.mode = mode].mode = mode
  BY DEF IsState
<1> HIDE DEF act
<1>f. ASSUME NEW text, act = [state |-> state, outcome |-> Fails(text)], ~Runs(op), ~IsAlone(op)
      PROVE  Tells(state, op, act)
  <2>1. /\ act.state = state
        /\ act.outcome.failed \in BOOLEAN /\ act.outcome.failed
        /\ act.outcome.password = NoPassword
    BY <1>f, FailsOutcome
  <2>2. QED
    BY <1>f, <2>1 DEF Tells, Runs, Interrupted
<1>5. CASE op.action = "update-database"
  <2>1. act = OnUpdateDatabase(state, op) /\ ~Runs(op) /\ ~IsAlone(op)
    BY <1>5 DEF Act, Runs, IsAlone, act
  <2>2. CASE op.leads /\ op.related /\ state.mode \in {NORMAL, DATABASE_UPDATE} /\ UnitsAreNormal(state)
    <3>1. act = [state |-> [state EXCEPT !.mode = DATABASE_UPDATE], outcome |-> Succeeds(<< >>)]
      BY <2>1, <2>2 DEF OnUpdateDatabase, Ends
    <3>2. DATABASE_UPDATE # state.mode => state.mode = NORMAL /\ UnitsAreNormal(state)
      BY <2>2
    <3>3. Fulfilled(op, act.state, act.outcome)
      BY <1>4, <1>5, <3>1 DEF Fulfilled
    <3>4. QED
      BY <1>3, <2>1, <3>1, <3>2, <3>3 DEF act
  <2>3. CASE ~(op.leads /\ op.related /\ state.mode \in {NORMAL, DATABASE_UPDATE} /\ UnitsAreNormal(state))
    <3>1. act = [state |-> state, outcome |-> Fails(<< >>)]
      BY <2>1, <2>3 DEF OnUpdateDatabase, Ends
    <3>2. QED
      BY <1>f, <2>1, <3>1 DEF act
  <2>4. QED
    BY <2>2, <2>3
<1>6. CASE op.action = "force-reconciliation"
  <2>1. act = OnForceReconciliation(state, op) /\ ~Runs(op) /\ (IsAlone(op) <=> ~op.all)
    BY <1>6 DEF Act, Runs, IsAlone, act
  <2>2. CASE ~op.all
    <3>1. act = [state |-> [state EXCEPT !.ended = op.ends],
                 outcome |-> IF op.ends = "raises" THEN Fails(<< >>) ELSE Succeeds(<< >>)]
      BY <2>1, <2>2 DEF OnForceReconciliation, Ends
    <3>2. act.state = [users |-> state.users, mode |-> state.mode, unitModes |-> state.unitModes,
                       ended |-> op.ends]
      BY <3>1 DEF IsState
    <3>3. IsState(act.state) /\ act.state.users = state.users /\ act.state.mode = state.mode
          /\ act.state.ended = op.ends
      BY <3>2 DEF IsState
    <3>4. /\ act.outcome.failed \in BOOLEAN /\ (act.outcome.failed <=> op.ends = "raises")
          /\ act.outcome.password = NoPassword
      BY <3>1, FailsOutcome, SucceedsOutcome
    <3>5. op.ends \in {"complete", "status", "raises"}
      BY <2>1, <2>2 DEF IsOperation, Endings
    <3>6. ~act.outcome.failed => Fulfilled(op, act.state, act.outcome)
      BY <1>6, <2>2, <3>4, <3>5 DEF Fulfilled
    <3>7. act.outcome.failed => Interrupted(op)
      BY <2>1, <2>2, <3>4 DEF Interrupted
    <3>8. QED
      BY <1>6, <2>1, <2>2, <3>3, <3>4, <3>6, <3>7 DEF Tells, act
  <2>3. CASE op.all /\ op.leads /\ op.related /\ state.mode = NORMAL /\ UnitsAreNormal(state)
    <3>1. act = [state |-> [state EXCEPT !.mode = FORCE_RECONCILIATION], outcome |-> Succeeds(<< >>)]
      BY <2>1, <2>3 DEF OnForceReconciliation, Ends
    <3>2. Fulfilled(op, act.state, act.outcome)
      BY <1>4, <1>6, <2>3, <3>1 DEF Fulfilled
    <3>3. QED
      BY <1>3, <2>1, <2>3, <3>1, <3>2 DEF act
  <2>4. CASE op.all /\ ~(op.leads /\ op.related /\ state.mode = NORMAL /\ UnitsAreNormal(state))
    <3>1. act = [state |-> state, outcome |-> Fails(<< >>)]
      BY <2>1, <2>4 DEF OnForceReconciliation, Ends
    <3>2. QED
      BY <1>f, <2>1, <2>4, <3>1 DEF act
  <2>5. QED
    BY <2>2, <2>3, <2>4
<1>7. CASE op.action = "set-maintenance-mode"
  <2>1. act = ReportMaintenanceMode(state, op) /\ ~Runs(op) /\ ~IsAlone(op)
    BY <1>7 DEF Act, Runs, IsAlone, act
  <2>2. CASE ~op.leads \/ ~op.related \/ state.mode = UNKNOWN
    <3>1. act = [state |-> state, outcome |-> Fails(<< >>)]
      BY <2>1, <2>2 DEF ReportMaintenanceMode, Ends
    <3>2. QED
      BY <1>f, <2>1, <3>1 DEF act
  <2>3. CASE ~(~op.leads \/ ~op.related \/ state.mode = UNKNOWN)
    <3> DEFINE text == IF state.mode = MAINTENANCE THEN <<"enabled">> ELSE << >>
    <3>1. act = [state |-> [state EXCEPT !.mode = state.mode], outcome |-> Succeeds(text)]
      BY <2>1, <2>3, <1>4 DEF ReportMaintenanceMode, Ends
    <3>2. text # << >> <=> state.mode = MAINTENANCE
      OBVIOUS
    <3> HIDE DEF text
    <3>3. act.outcome.output = text
      BY <3>1 DEF Succeeds, Fails
    <3>4. Fulfilled(op, act.state, act.outcome)
      BY <1>4, <1>7, <3>1, <3>2, <3>3 DEF Fulfilled
    <3>5. QED
      BY <1>3, <2>1, <3>1, <3>4 DEF act
  <2>4. QED
    BY <2>2, <2>3
<1>8. QED
  BY <1>1, <1>2, <1>5, <1>6, <1>7 DEF IsOperation, Runs, act

\* How the actions of a session are folded.
SessionFold(session) ==
    [fold |-> "act", state |-> session.state, values |-> SeededValues(session.model)]

\* What a session comes to.
Performs(session, done) ==
    /\ IsSequence(done) /\ Len(done) = Len(session.ops)
    /\ \A k \in 1 .. Len(done) :
          LET before == IF k = 1 THEN session.state ELSE done[k - 1].state IN
            IsState(before) /\ done[k] = Act(before, session.ops[k], SeededValues(session.model))

\* A session of the constants'.
IsSession(session) ==
    /\ IsModel(session.model)
    /\ IsState(session.state) /\ IsSequence(session.ops)
    /\ \A i \in DOMAIN session.ops : IsOperation(session.ops[i])

\* Each action of a session begins with what the one before it left.
LEMMA SessionPerforms ==
    ASSUME NEW session, IsSession(session), NEW h,
           Unfolds(SessionFold(session), << >>, session.ops, Len(session.ops), h)
    PROVE  Performs(session, h[Len(session.ops)])
<1> DEFINE n == Len(session.ops)
           values == SeededValues(session.model)
           Met(done, k) == IF k = 1 THEN session.state ELSE done[k - 1].state
           Correct(j) == /\ IsSequence(h[j]) /\ Len(h[j]) = j
                         /\ \A k \in 1 .. j : IsState(Met(h[j], k))
                                /\ h[j][k] = Act(Met(h[j], k), session.ops[k], values)
           T == {j \in 0 .. n : ~Correct(j)}
<1>1. n \in Nat /\ DOMAIN session.ops = 1 .. n
  BY DEF IsSession, IsSequence
<1>2. SUFFICES ASSUME T # {} PROVE FALSE
  <2>1. Correct(n)
    BY <1>1, <1>2
  <2>2. QED
    BY <2>1 DEF Performs
<1>3. PICK j \in T : \A i \in T : j <= i
  <2>1. T \subseteq Nat
    BY <1>1
  <2> HIDE DEF T
  <2>2. QED
    BY <1>2, <2>1, Least
<1>4. CASE j = 0
  <2>1. h[0] = << >>
    BY DEF Unfolds
  <2>2. Correct(0)
    BY <2>1 DEF IsSequence
  <2>3. QED
    BY <1>3, <1>4, <2>2
<1>5. CASE j # 0
  <2> DEFINE i == j - 1
  <2>1. i \in 0 .. n - 1 /\ j = i + 1 /\ j \in 1 .. n
    BY <1>1, <1>3, <1>5
  <2>2. Correct(i)
    BY <1>1, <1>3, <2>1
  <2> DEFINE before == IF h[i] = << >> THEN session.state ELSE Last(h[i]).state
             act == Act(before, session.ops[j], values)
  <2>3. h[j] = Append(h[i], act)
    BY <2>1 DEF Unfolds, Apply, SessionFold
  <2>4. /\ IsSequence(h[j]) /\ Len(h[j]) = j /\ h[j][j] = act
        /\ \A k \in 1 .. i : h[j][k] = h[i][k]
    BY <2>1, <2>2, <2>3, Appended
  <2>5. before = Met(h[j], j)
    <3>1. CASE i = 0
      <4>1. h[i] = << >>
        BY <3>1 DEF Unfolds
      <4>2. QED
        BY <3>1, <4>1
    <3>2. CASE i # 0
      <4>1. h[i] # << >> /\ Last(h[i]) = h[i][i]
        BY <2>1, <2>2, <3>2 DEF Last
      <4>2. j - 1 = i /\ j # 1 /\ i \in 1 .. i
        BY <2>1, <3>2
      <4>3. QED
        BY <2>4, <4>1, <4>2
    <3>3. QED
      BY <3>1, <3>2
  <2>6. IsState(before)
    <3>1. CASE i = 0
      BY <2>5, <3>1 DEF IsSession
    <3>2. CASE i # 0
      <4> DEFINE met == Met(h[i], i)
      <4>1. IsState(met) /\ h[i][i] = Act(met, session.ops[i], values)
        <5>1. i \in 1 .. i
          BY <2>1, <3>2
        <5> HIDE DEF i
        <5>2. QED
          BY <5>1, <2>2
      <4>2. IsOperation(session.ops[i])
        BY <1>1, <2>1, <3>2 DEF IsSession
      <4>3. IsState(h[i][i].state)
        <5> HIDE DEF met, i, values
        <5>1. Tells(met, session.ops[i], h[i][i])
          BY <4>1, <4>2, ActTells
        <5>2. QED
          BY <5>1 DEF Tells
      <4>4. before = h[i][i].state
        BY <2>1, <2>2, <3>2 DEF Last
      <4>5. QED
        BY <4>3, <4>4
    <3>3. QED
      BY <3>1, <3>2
  <2>7. \A k \in 1 .. i : Met(h[j], k) = Met(h[i], k)
    <3>1. ASSUME NEW k \in 1 .. i, k # 1
          PROVE  h[j][k - 1] = h[i][k - 1]
      <4>1. k - 1 \in 1 .. i
        BY <2>1, <3>1
      <4>2. QED
        BY <2>4, <4>1
    <3>2. QED
      BY <3>1
  <2>8. Correct(j)
    BY <2>1, <2>2, <2>4, <2>5, <2>6, <2>7
  <2>9. QED
    BY <1>3, <2>8
<1>6. QED
  BY <1>4, <1>5

\* What each action of a session tells is what it did.
LEMMA EachActionTells ==
    ASSUME IsSession(given), Performs(given, made), NEW k \in DOMAIN made
    PROVE  Tells(StateBefore(k), given.ops[k], made[k])
<1>1. DOMAIN made = 1 .. Len(made) /\ Len(made) = Len(given.ops)
  BY DEF Performs, IsSequence
<1>2. DOMAIN given.ops = 1 .. Len(given.ops)
  BY DEF IsSession, IsSequence
<1>3. IsOperation(given.ops[k])
  BY <1>1, <1>2 DEF IsSession
<1>4. IsState(StateBefore(k)) /\ made[k] = Act(StateBefore(k), given.ops[k], SeededValues(given.model))
  BY <1>1 DEF Performs, StateBefore
<1>5. QED
  BY <1>3, <1>4, ActTells

\* The password that a user was last told stays until another attempt may have set one.
LEMMA ToldPasswordHolds ==
    ASSUME IsSession(given), Performs(given, made), NEW username, NEW m \in DOMAIN made,
           Creates(given.ops[m], username), made[m].outcome.password # NoPassword,
           \A k \in DOMAIN made :
              /\ k > m /\ Creates(given.ops[k], username) /\ given.ops[k].generate
              => given.ops[k].answer # "late" /\ made[k].outcome.password = NoPassword
    PROVE  Last(made).state.users[username].password = made[m].outcome.password
<1> DEFINE n == Len(made)
           HoldsAt(j) == /\ username \in DOMAIN made[j].state.users
                       /\ made[j].state.users[username].password = made[m].outcome.password
           T == {j \in m .. n : ~HoldsAt(j)}
<1>1. DOMAIN made = 1 .. n /\ n \in Nat /\ m \in 1 .. n
  BY DEF Performs, IsSequence
<1>2. SUFFICES ASSUME T # {} PROVE FALSE
  <2>1. HoldsAt(n)
    BY <1>1, <1>2
  <2>2. QED
    BY <2>1 DEF Last
<1>3. PICK j \in T : \A i \in T : j <= i
  <2>1. T \subseteq Nat
    BY <1>1
  <2> HIDE DEF T
  <2>2. QED
    BY <1>2, <2>1, Least
<1>4. j \in m .. n /\ j \in 1 .. n /\ ~HoldsAt(j)
  BY <1>1, <1>3
<1>5. Tells(StateBefore(j), given.ops[j], made[j])
  BY <1>1, <1>4, EachActionTells
<1>6. CASE j = m
  BY <1>4, <1>5, <1>6 DEF Tells, Creates, Fulfilled
<1>7. CASE j # m
  <2> DEFINE i == j - 1
  <2>1. i \in m .. n /\ i \notin T /\ j > m /\ j # 1 /\ i \in 1 .. n
    BY <1>1, <1>3, <1>4, <1>7
  <2>2. HoldsAt(i) /\ StateBefore(j) = made[i].state
    BY <2>1 DEF StateBefore
  <2>3. given.ops[j].generate /\ Creates(given.ops[j], username) =>
            given.ops[j].answer # "late" /\ made[j].outcome.password = NoPassword
    BY <1>1, <1>4, <2>1
  <2> HIDE DEF i
  <2>4. QED
    BY <1>4, <1>5, <2>2, <2>3 DEF Tells
<1>8. QED
  BY <1>6, <1>7

\* What the actions of a session tell together is what they did.
LEMMA SessionTellsWhatHappened ==
    ASSUME subject = "actions", IsSession(given), Performs(given, made)
    PROVE  ActionsTellWhatHappened
<1> DEFINE n == Len(made)
<1>1. DOMAIN made = 1 .. n /\ n \in Nat
  BY DEF Performs, IsSequence
<1>2. ASSUME NEW k \in DOMAIN made
      PROVE  LET op == given.ops[k] before == StateBefore(k)
                 after == made[k].state outcome == made[k].outcome
             IN /\ outcome.failed /\ ~Interrupted(op) => after = before
                /\ ~outcome.failed => Fulfilled(op, after, outcome)
                /\ after.ended = IF IsAlone(op) THEN op.ends ELSE before.ended
                /\ after.mode # before.mode => ~outcome.failed /\ before.mode = NORMAL
                                               /\ UnitsAreNormal(before)
                /\ op.action = "create-and-promote" /\ op.generate /\ op.force =>
                     (outcome.failed <=> op.answer # "in time")
                /\ outcome.password # NoPassword => ~outcome.failed
  BY <1>2, EachActionTells DEF Tells
<1>3. ASSUME NEW username
      PROVE  LET sets == {k \in DOMAIN made : Creates(given.ops[k], username) /\ given.ops[k].generate}
                 told == {k \in sets : made[k].outcome.password # NoPassword}
             IN told # {} /\ (\A k \in sets : k > Max(told) => given.ops[k].answer # "late") =>
                   Last(made).state.users[username].password = made[Max(told)].outcome.password
  <2> DEFINE sets == {k \in DOMAIN made : Creates(given.ops[k], username) /\ given.ops[k].generate}
             told == {k \in sets : made[k].outcome.password # NoPassword}
  <2>1. SUFFICES ASSUME told # {}, \A k \in sets : k > Max(told) => given.ops[k].answer # "late"
                 PROVE  Last(made).state.users[username].password = made[Max(told)].outcome.password
    OBVIOUS
  <2> DEFINE m == Max(told)
  <2>2. told \in SUBSET (1 .. n)
    BY <1>1
  <2>3. m \in told /\ \A k \in told : k <= m
    <3> HIDE DEF told, n
    <3>1. QED
      BY <1>1, <2>1, <2>2, MaxIsThere
  <2>4. \A k \in DOMAIN made :
          /\ k > m /\ Creates(given.ops[k], username) /\ given.ops[k].generate
          => given.ops[k].answer # "late" /\ made[k].outcome.password = NoPassword
    <3>1. \A k \in 1 .. n : k > m => k \notin told
      <4>1. n \in Nat /\ m \in 1 .. n
        BY <1>1, <2>2, <2>3
      <4> HIDE DEF told, m, n
      <4>2. QED
        BY <2>3, <4>1
    <3> HIDE DEF m
    <3>2. QED
      BY <1>1, <2>1, <3>1 DEF m
  <2>5. m \in DOMAIN made /\ Creates(given.ops[m], username) /\ made[m].outcome.password # NoPassword
    BY <2>3
  <2> HIDE DEF m, told, sets
  <2>6. Last(made).state.users[username].password = made[m].outcome.password
    BY <2>4, <2>5, ToldPasswordHolds
  <2>7. QED
    BY <2>6 DEF m
<1>4. QED
  BY <1>2, <1>3 DEF ActionsTellWhatHappened

\* A session is one of the constants', and what it made is what its actions come to.
ActionsInv ==
    subject = "actions" => IsSession(given) /\ (made # NONE => Performs(given, made))

\* The actions of a session are run one after another.
LEMMA SessionsFold ==
    ASSUME subject = "actions", IsSession(given), RunActions
    PROVE  Performs(given, made')
<1> DEFINE c == SessionFold(given)
           seq == given.ops
           n == Len(seq)
           Fold(f) == f = [s \in SUBSET DOMAIN seq |->
                    IF s = {} THEN << >>
                    ELSE Append(f[s \ {Max(s)}],
                                Act(IF f[s \ {Max(s)}] = << >> THEN given.state
                                    ELSE Last(f[s \ {Max(s)}]).state,
                                    seq[Max(s)], SeededValues(given.model)))]
           g == CHOOSE f : Fold(f)
<1>1. made' = g[DOMAIN seq]
  BY DEF RunActions, FoldLeft, MapThenFoldSet
<1>2. n \in Nat /\ DOMAIN seq = 1 .. n
  BY DEF IsSession, IsSequence
<1>3. \E f : IsFold(c, << >>, seq, n, f)
  BY <1>2, FoldExists
<1>4. \A f : IsFold(c, << >>, seq, n, f) <=> Fold(f)
  BY ZenonT(40), <1>2 DEF IsFold, FoldStep, Apply, SessionFold
<1>5. IsFold(c, << >>, seq, n, g)
  BY <1>3, <1>4
<1> HIDE DEF c, g, seq, n
<1>6. PICK h : Unfolds(c, << >>, seq, n, h) /\ h[n] = g[1 .. n]
  BY <1>2, <1>5, FoldPrefixes
<1>7. made' = h[n]
  BY <1>1, <1>2, <1>6
<1>8. QED
  BY <1>6, <1>7, SessionPerforms DEF c, seq, n

\* Nothing was done at first.
LEMMA InitActions == ContentInit => ActionsInv
BY SessionsAssumption DEF ContentInit, ActionsInv, IsSession

\* ActionsInv is inductive.
LEMMA NextActions == ActionsInv /\ [ContentNext]_contentVars => ActionsInv'
<1>1. SUFFICES ASSUME ActionsInv, [ContentNext]_contentVars, subject' = "actions"
               PROVE  IsSession(given') /\ (made' # NONE => Performs(given', made'))
  BY DEF ActionsInv
<1>2. subject = "actions" /\ given' = given
  BY <1>1 DEF ContentNext, contentVars
<1>3. CASE UNCHANGED contentVars
  BY <1>1, <1>2, <1>3 DEF ActionsInv, contentVars
<1>4. CASE RunActions
  BY <1>1, <1>2, <1>4, SessionsFold DEF ActionsInv
<1>5. QED
  BY <1>1, <1>2, <1>3, <1>4 DEF ContentNext, ShowBoard, ListDashboards, Scrape, LoadRules, FetchFields, Log

\* An action that reports success has done what it was asked, one that failed has done nothing
\* unless its command was not answered, and the password shown last is the user's, in sessions of
\* any length (charm.py:453, 504, 598, 634).
THEOREM ActionsReport == ContentSpec => []ActionsTellWhatHappened
<1>1. ContentInit => ActionsInv
  BY InitActions
<1>2. ActionsInv /\ [ContentNext]_contentVars => ActionsInv'
  BY NextActions
<1>3. ActionsInv => ActionsTellWhatHappened
  <2>1. CASE Done("actions")
    BY <2>1, SessionTellsWhatHappened DEF ActionsInv, Done
  <2>2. CASE ~Done("actions")
    BY <2>2 DEF ActionsTellWhatHappened
  <2>3. QED
    BY <2>1, <2>2
<1>4. QED
  BY <1>1, <1>2, <1>3, PTL DEF ContentSpec

(***************************************************************************)
(* Masking.                                                                *)
(***************************************************************************)

\* Putting something before a sequence.
LEMMA Prefixed1 ==
    ASSUME NEW x, NEW s, IsSequence(s)
    PROVE  /\ IsSequence(<<x>> \o s) /\ Len(<<x>> \o s) = Len(s) + 1
           /\ (<<x>> \o s)[1] = x /\ \A k \in 1 .. Len(s) : (<<x>> \o s)[k + 1] = s[k]
<1> DEFINE S == Range(s) \union {x}
<1>1. s \in Seq(S) /\ <<x>> \in Seq(S) /\ Len(<<x>>) = 1 /\ <<x>>[1] = x /\ Len(s) \in Nat
  BY DEF IsSequence
<1> HIDE DEF S
<1>2. /\ Len(<<x>> \o s) = Len(s) + 1
      /\ \A k \in 1 .. Len(s) + 1 : (<<x>> \o s)[k] = IF k = 1 THEN x ELSE s[k - 1]
  BY <1>1
<1>3. \A k \in 1 .. Len(s) : k + 1 \in 1 .. Len(s) + 1 /\ k + 1 # 1 /\ k + 1 - 1 = k
  BY <1>1
<1>4. IsSequence(<<x>>)
  BY DEF IsSequence, Range
<1>5. IsSequence(<<x>> \o s)
  BY <1>4, Concatenated
<1>6. QED
  BY <1>1, <1>2, <1>3, <1>5

\* The elements of a stretch.
LEMMA StretchHas ==
    ASSUME NEW s, NEW a \in Nat, NEW b \in Nat, a <= b + 1
    PROVE  /\ IsSequence(SubSeq(s, a, b)) /\ Len(SubSeq(s, a, b)) = b - a + 1
           /\ \A k \in 1 .. b - a + 1 : SubSeq(s, a, b)[k] = s[k + a - 1]
<1> DEFINE S == {s[i] : i \in a .. b}
           t == SubSeq(s, a, b)
<1>1. /\ t \in Seq(S)
      /\ Len(t) = IF a <= b THEN b - a + 1 ELSE 0
      /\ \A i \in 1 .. b - a + 1 : t[i] = s[a + i - 1]
  BY SubSeqProperties
<1> HIDE DEF t, S
<1>2. t \in Seq(Range(t))
  BY <1>1 DEF Range
<1>3. QED
  BY <1>1, <1>2 DEF t, IsSequence

\* Sequences with the same elements are the same.
LEMMA SameSequence ==
    ASSUME NEW s, IsSequence(s), NEW t, IsSequence(t), Len(s) = Len(t),
           \A k \in 1 .. Len(s) : s[k] = t[k]
    PROVE  s = t
<1>1. /\ DOMAIN s = 1 .. Len(s) /\ DOMAIN t = 1 .. Len(t)
      /\ s = [k \in DOMAIN s |-> s[k]] /\ t = [k \in DOMAIN t |-> t[k]]
  BY DEF IsSequence
<1>2. QED
  BY <1>1

\* The first elements.
LEMMA FirstHas ==
    ASSUME NEW s, NEW b \in Nat
    PROVE  /\ IsSequence(SubSeq(s, 1, b)) /\ Len(SubSeq(s, 1, b)) = b
           /\ \A k \in 1 .. b : SubSeq(s, 1, b)[k] = s[k]
<1> DEFINE a == 1 t == SubSeq(s, a, b)
<1>1. a \in Nat /\ a <= b + 1 /\ b - a + 1 = b /\ \A k \in 1 .. b : k + a - 1 = k
  OBVIOUS
<1> HIDE DEF a
<1>2. IsSequence(t) /\ Len(t) = b - a + 1 /\ \A k \in 1 .. b - a + 1 : t[k] = s[k + a - 1]
  BY <1>1, StretchHas
<1> HIDE DEF t
<1>3. IsSequence(t) /\ Len(t) = b /\ \A k \in 1 .. b : t[k] = s[k]
  BY <1>1, <1>2
<1>4. QED
  BY <1>3 DEF t, a

\* So is a stretch of another with the same elements.
LEMMA SameFirst ==
    ASSUME NEW s, NEW b \in Nat, NEW t, NEW i \in Nat, i # 0, \A k \in 1 .. b : s[k] = t[i + k - 1]
    PROVE  SubSeq(s, 1, b) = SubSeq(t, i, i + b - 1)
<1> DEFINE last == i + b - 1 x == SubSeq(s, 1, b) y == SubSeq(t, i, last)
<1>1. last \in Nat /\ i <= last + 1 /\ last - i + 1 = b /\ \A k \in 1 .. b : k + i - 1 = i + k - 1
  OBVIOUS
<1> HIDE DEF last
<1>2. IsSequence(x) /\ Len(x) = b /\ \A k \in 1 .. b : x[k] = s[k]
  BY FirstHas
<1>3. IsSequence(y) /\ Len(y) = last - i + 1 /\ \A k \in 1 .. last - i + 1 : y[k] = t[k + i - 1]
  BY <1>1, StretchHas
<1> HIDE DEF x, y
<1>4. Len(x) = Len(y) /\ \A k \in 1 .. Len(x) : x[k] = y[k]
  BY <1>1, <1>2, <1>3
<1>5. x = y
  BY <1>2, <1>3, <1>4, SameSequence
<1>6. QED
  BY <1>5 DEF x, y, last

\* What a pass over a text puts out from a position on, if g tells it for the later ones.
Scan(text, patterns, g, i) ==
    IF i > Len(text) THEN << >>
    ELSE LET n == LongestAt(text, i, patterns) IN
        IF n = 0 THEN <<text[i]>> \o g[i + 1] ELSE <<MASK>> \o g[i + n]
Scans(text, patterns, g) == g = [i \in 1 .. Len(text) + 1 |-> Scan(text, patterns, g, i)]

\* A pattern that is found lies within the text, and is the longest there.
LEMMA FoundPattern ==
    ASSUME NEW text, IsSequence(text), NEW patterns, NEW i \in 1 .. Len(text)
    PROVE  LET n == LongestAt(text, i, patterns) IN
              /\ n \in 0 .. Len(text) - i + 1
              /\ n # 0 => SubSeq(text, i, i + n - 1) \in patterns
              /\ \A m \in 1 .. Len(text) - i + 1 : SubSeq(text, i, i + m - 1) \in patterns => m <= n
<1> DEFINE size == Len(text) - i + 1
           lengths == {m \in 1 .. size : SubSeq(text, i, i + m - 1) \in patterns}
           n == LongestAt(text, i, patterns)
<1>1. Len(text) \in Nat /\ size \in Nat
  BY DEF IsSequence
<1>2. n = IF lengths = {} THEN 0 ELSE Max(lengths)
  BY DEF LongestAt
<1>3. lengths \in SUBSET (1 .. size)
      /\ \A m \in 1 .. size : m \in lengths <=> SubSeq(text, i, i + m - 1) \in patterns
  OBVIOUS
<1> HIDE DEF lengths, n
<1>4. CASE lengths = {}
  <2> HIDE DEF size
  <2>1. n = 0 /\ n \in 0 .. size
    BY <1>1, <1>2, <1>4
  <2>2. \A m \in 1 .. size : SubSeq(text, i, i + m - 1) \notin patterns
    BY <1>3, <1>4
  <2>3. QED
    BY <2>1, <2>2 DEF n, size
<1>5. CASE lengths # {}
  <2> HIDE DEF size
  <2>1. Max(lengths) \in lengths /\ \A k \in lengths : k <= Max(lengths)
    BY <1>1, <1>3, <1>5, MaxIsThere
  <2>2. n \in lengths /\ \A k \in lengths : k <= n
    BY <1>2, <1>5, <2>1
  <2>3. n \in 0 .. size /\ SubSeq(text, i, i + n - 1) \in patterns
    BY <1>1, <1>3, <2>2
  <2>4. \A m \in 1 .. size : SubSeq(text, i, i + m - 1) \in patterns => m <= n
    BY <1>3, <2>2
  <2>5. QED
    BY <2>3, <2>4 DEF n, size
<1>6. QED
  BY <1>4, <1>5

\* There is a function that tells what a pass puts out from each position on.
LEMMA ScanExists ==
    ASSUME NEW text, IsSequence(text), NEW patterns
    PROVE  \E g : Scans(text, patterns, g)
<1> DEFINE L == Len(text)
           Later(m, g) == g = [i \in L + 1 - m .. L + 1 |-> Scan(text, patterns, g, i)]
           T == {m \in 0 .. L : ~ \E g : Later(m, g)}
<1>1. L \in Nat
  BY DEF IsSequence
<1>2. SUFFICES ASSUME T # {} PROVE FALSE
  <2>1. L \in 0 .. L /\ L \notin T
    BY <1>1, <1>2
  <2>2. PICK g : Later(L, g)
    BY <2>1
  <2>3. L + 1 - L = 1
    BY <1>1
  <2>4. g = [i \in 1 .. L + 1 |-> Scan(text, patterns, g, i)]
    BY <2>2, <2>3
  <2>5. QED
    BY <2>4 DEF Scans
<1>3. PICK m \in T : \A k \in T : m <= k
  <2>1. T \subseteq Nat
    OBVIOUS
  <2> HIDE DEF T
  <2>2. QED
    BY <1>2, <2>1, Least
<1>4. m \in 0 .. L
  BY <1>3
<1>5. CASE m = 0
  <2> DEFINE g == [i \in L + 1 .. L + 1 |-> << >>]
  <2>1. \A i \in L + 1 .. L + 1 : i > L
    BY <1>1
  <2>2. \A i \in L + 1 .. L + 1 : g[i] = Scan(text, patterns, g, i)
    BY <2>1 DEF Scan
  <2>3. L + 1 - m = L + 1
    BY <1>1, <1>5
  <2>4. g = [i \in L + 1 - m .. L + 1 |-> Scan(text, patterns, g, i)]
    BY <2>2, <2>3
  <2>5. QED
    BY <1>3, <2>4
<1>6. CASE m # 0
  <2> DEFINE first == L + 1 - m
  <2>1. m - 1 \in 0 .. L /\ m - 1 \notin T /\ first \in 1 .. L /\ L + 1 - (m - 1) = first + 1
    <3>1. m - 1 \in 0 .. L /\ ~(m <= m - 1) /\ first \in 1 .. L /\ L + 1 - (m - 1) = first + 1
      BY <1>1, <1>4, <1>6
    <3> HIDE DEF T
    <3>2. QED
      BY <1>3, <3>1
  <2>2. PICK f : Later(m - 1, f)
    BY <2>1
  <2>3. f = [i \in first + 1 .. L + 1 |-> Scan(text, patterns, f, i)]
    BY <2>1, <2>2
  <2> DEFINE g == [i \in first .. L + 1 |-> IF i = first THEN Scan(text, patterns, f, first) ELSE f[i]]
  <2>4. \A i \in first + 1 .. L + 1 : g[i] = f[i]
    BY <2>1
  <2>5. ASSUME NEW i \in first .. L + 1 PROVE Scan(text, patterns, f, i) = Scan(text, patterns, g, i)
    <3>1. CASE i > L
      BY <3>1 DEF Scan
    <3>2. CASE ~(i > L)
      <4>1. i \in 1 .. Len(text) /\ i + 1 \in first + 1 .. L + 1
        BY <1>1, <2>1, <3>2
      <4> DEFINE n == LongestAt(text, i, patterns)
      <4>2. n \in 0 .. Len(text) - i + 1
        BY <4>1, FoundPattern
      <4>3. n # 0 => i + n \in first + 1 .. L + 1
        BY <1>1, <2>1, <4>1, <4>2
      <4> HIDE DEF g
      <4>4. g[i + 1] = f[i + 1] /\ (n # 0 => g[i + n] = f[i + n])
        BY <2>4, <4>1, <4>3
      <4>5. QED
        BY <4>4 DEF Scan
    <3>3. QED
      BY <3>1, <3>2
  <2>6. ASSUME NEW i \in first .. L + 1 PROVE g[i] = Scan(text, patterns, g, i)
    <3>1. g[i] = Scan(text, patterns, f, i)
      <4>1. CASE i = first
        BY <4>1
      <4>2. CASE i # first
        <5>1. i \in first + 1 .. L + 1
          BY <2>1, <4>2
        <5>2. f[i] = Scan(text, patterns, f, i)
          <6> HIDE DEF g
          <6>1. QED
            BY <2>3, <5>1
        <5>3. QED
          BY <2>4, <5>1, <5>2
      <4>3. QED
        BY <4>1, <4>2
    <3>2. QED
      BY <2>5, <3>1
  <2>7. g = [i \in first .. L + 1 |-> Scan(text, patterns, g, i)]
    <3> DEFINE G == [i \in first .. L + 1 |-> Scan(text, patterns, g, i)]
    <3>1. \A i \in first .. L + 1 : g[i] = G[i]
      <4> HIDE DEF g
      <4>1. QED
        BY <2>6
    <3>2. QED
      BY <3>1
  <2>8. Later(m, g)
    BY <2>7
  <2>9. QED
    BY <1>3, <2>8
<1>7. QED
  BY <1>5, <1>6

\* What a pass puts out.
LEMMA RedactedScans ==
    ASSUME NEW text, IsSequence(text), NEW values
    PROVE  \E g : Scans(text, Patterns(values), g) /\ Redacted(text, values) = g[1]
<1> DEFINE patterns == Patterns(values)
           Scanning(g) == g = [i \in 1 .. Len(text) + 1 |->
                IF i > Len(text) THEN << >>
                ELSE LET n == LongestAt(text, i, patterns) IN
                    IF n = 0 THEN <<text[i]>> \o g[i + 1] ELSE <<MASK>> \o g[i + n]]
           from == CHOOSE g : Scanning(g)
<1>1. Redacted(text, values) = from[1]
  BY DEF Redacted
<1>2. \A g : Scans(text, patterns, g) <=> Scanning(g)
  BY DEF Scans, Scan
<1> HIDE DEF Scanning
<1>3. Scans(text, patterns, from)
  <2> HIDE DEF patterns
  <2>1. QED
    BY <1>2, ScanExists
<1>4. QED
  BY <1>1, <1>3

\* No pattern is in what a pass puts out from a position on, but where it has put a mask; up to the
\* first mask it is the text.
Clean(text, patterns, s, i) ==
    /\ IsSequence(s)
    /\ \A b \in 1 .. Len(s) : (\A k \in 1 .. b : s[k] # MASK) =>
          i + b - 1 <= Len(text) /\ \A k \in 1 .. b : s[k] = text[i + k - 1]
    /\ \A a, b \in 1 .. Len(s) :
          a <= b /\ (\A k \in a .. b : s[k] # MASK) => SubSeq(s, a, b) \notin patterns

\* Stretches of what follows are as before.
LEMMA LaterStretch ==
    ASSUME NEW x, NEW s, IsSequence(s), NEW a \in 2 .. Len(s) + 1, NEW b \in 2 .. Len(s) + 1, a <= b
    PROVE  /\ SubSeq(<<x>> \o s, a, b) = SubSeq(s, a - 1, b - 1)
           /\ \A k \in a - 1 .. b - 1 : s[k] = (<<x>> \o s)[k + 1]
<1> DEFINE t == <<x>> \o s
<1>1. Len(s) \in Nat /\ \A k \in 1 .. Len(s) : t[k + 1] = s[k]
  <2>1. Len(s) \in Nat
    BY DEF IsSequence
  <2>2. QED
    BY <2>1, Prefixed1
<1> HIDE DEF t
<1>2. a - 1 \in 1 .. Len(s) /\ b - 1 \in 1 .. Len(s) /\ a \in Nat /\ b \in Nat /\ a - 1 \in Nat
      /\ b - 1 \in Nat /\ a <= b + 1 /\ b - a = (b - 1) - (a - 1)
  BY <1>1
<1>3. ASSUME NEW k \in 1 .. b - a + 1 PROVE t[k + a - 1] = s[k + (a - 1) - 1]
  <2>1. k + (a - 1) - 1 \in 1 .. Len(s) /\ k + (a - 1) - 1 + 1 = k + a - 1
    BY <1>1, <1>2
  <2>2. QED
    BY <1>1, <2>1
<1>4. SubSeq(t, a, b) = SubSeq(s, a - 1, b - 1)
  <2> DEFINE c == a - 1 d == b - 1 later == SubSeq(t, a, b) same == SubSeq(s, c, d)
  <2>1. /\ a \in Nat /\ b \in Nat /\ c \in Nat /\ d \in Nat /\ a <= b + 1 /\ c <= d + 1
        /\ d - c + 1 = b - a + 1 /\ \A k \in 1 .. b - a + 1 : t[k + a - 1] = s[k + c - 1]
    BY <1>2, <1>3
  <2> HIDE DEF c, d
  <2>2. IsSequence(later) /\ Len(later) = b - a + 1 /\ \A k \in 1 .. b - a + 1 : later[k] = t[k + a - 1]
    BY <2>1, StretchHas
  <2>3. IsSequence(same) /\ Len(same) = d - c + 1 /\ \A k \in 1 .. d - c + 1 : same[k] = s[k + c - 1]
    BY <2>1, StretchHas
  <2> HIDE DEF later, same
  <2>4. Len(later) = Len(same) /\ \A k \in 1 .. Len(later) : later[k] = same[k]
    BY <2>1, <2>2, <2>3
  <2>5. later = same
    BY <2>2, <2>3, <2>4, SameSequence
  <2>6. QED
    BY <2>5 DEF later, same, c, d
<1>5. \A k \in a - 1 .. b - 1 : s[k] = t[k + 1]
  BY <1>1, <1>2
<1>6. QED
  BY <1>4, <1>5 DEF t

\* A mask keeps it clean.
LEMMA CleanMask ==
    ASSUME NEW text, NEW patterns, NEW s, NEW i, NEW j, Clean(text, patterns, s, j)
    PROVE  Clean(text, patterns, <<MASK>> \o s, i)
<1> DEFINE t == <<MASK>> \o s
<1>1. IsSequence(s) /\ Len(s) \in Nat
  BY DEF Clean, IsSequence
<1>2. IsSequence(t) /\ Len(t) = Len(s) + 1 /\ t[1] = MASK /\ \A k \in 1 .. Len(s) : t[k + 1] = s[k]
  BY <1>1, Prefixed1
<1>3. \A a, b \in 2 .. Len(s) + 1 : a <= b =>
          /\ SubSeq(t, a, b) = SubSeq(s, a - 1, b - 1)
          /\ \A k \in a - 1 .. b - 1 : s[k] = t[k + 1]
  BY <1>1, LaterStretch
<1> HIDE DEF t
<1>4. ASSUME NEW b \in 1 .. Len(t), \A k \in 1 .. b : t[k] # MASK PROVE FALSE
  BY <1>1, <1>2, <1>4
<1>5. ASSUME NEW a \in 1 .. Len(t), NEW b \in 1 .. Len(t), a <= b, \A k \in a .. b : t[k] # MASK
      PROVE  SubSeq(t, a, b) \notin patterns
  <2>1. a \in 2 .. Len(s) + 1 /\ b \in 2 .. Len(s) + 1
    BY <1>1, <1>2, <1>5
  <2>2. a - 1 \in 1 .. Len(s) /\ b - 1 \in 1 .. Len(s) /\ a - 1 <= b - 1
    BY <1>1, <1>5, <2>1
  <2>3. ASSUME NEW k \in a - 1 .. b - 1 PROVE s[k] # MASK
    <3>1. s[k] = t[k + 1]
      BY <1>3, <1>5, <2>1
    <3>2. k + 1 \in a .. b
      BY <2>1
    <3>3. QED
      BY <1>5, <3>1, <3>2
  <2>4. SubSeq(s, a - 1, b - 1) \notin patterns
    BY <2>2, <2>3 DEF Clean
  <2>5. QED
    BY <1>3, <1>5, <2>1, <2>4
<1>6. Clean(text, patterns, t, i)
  BY <1>2, <1>4, <1>5 DEF Clean
<1>7. QED
  BY <1>6 DEF t

\* So does a character with which no pattern begins.
LEMMA CleanKeep ==
    ASSUME NEW text, IsSequence(text), NEW patterns, NEW i \in 1 .. Len(text),
           LongestAt(text, i, patterns) = 0, NEW s, Clean(text, patterns, s, i + 1)
    PROVE  Clean(text, patterns, <<text[i]>> \o s, i)
<1> DEFINE t == <<text[i]>> \o s
<1>1. IsSequence(s) /\ Len(s) \in Nat /\ Len(text) \in Nat
  BY DEF Clean, IsSequence
<1>2. IsSequence(t) /\ Len(t) = Len(s) + 1 /\ t[1] = text[i] /\ \A k \in 1 .. Len(s) : t[k + 1] = s[k]
  BY <1>1, Prefixed1
<1>3. \A a, b \in 2 .. Len(s) + 1 : a <= b =>
          /\ SubSeq(t, a, b) = SubSeq(s, a - 1, b - 1)
          /\ \A k \in a - 1 .. b - 1 : s[k] = t[k + 1]
  BY <1>1, LaterStretch
<1> HIDE DEF t
<1>4. ASSUME NEW b \in 1 .. Len(t), \A k \in 1 .. b : t[k] # MASK
      PROVE  i + b - 1 <= Len(text) /\ \A k \in 1 .. b : t[k] = text[i + k - 1]
  <2>1. CASE b = 1
    BY <1>1, <1>2, <2>1
  <2>2. CASE b # 1
    <3>1. b - 1 \in 1 .. Len(s)
      BY <1>1, <1>2, <1>4, <2>2
    <3>2. ASSUME NEW k \in 1 .. b - 1 PROVE s[k] # MASK
      <4>1. k + 1 \in 1 .. b /\ k \in 1 .. Len(s)
        BY <1>1, <3>1
      <4>2. QED
        BY <1>2, <1>4, <4>1
    <3>3. i + 1 + (b - 1) - 1 <= Len(text) /\ \A k \in 1 .. b - 1 : s[k] = text[i + 1 + k - 1]
      BY <3>1, <3>2 DEF Clean
    <3>4. ASSUME NEW k \in 1 .. b PROVE t[k] = text[i + k - 1]
      <4>1. CASE k = 1
        BY <1>1, <1>2, <4>1
      <4>2. CASE k # 1
        <5>1. /\ k - 1 \in 1 .. b - 1 /\ k - 1 \in 1 .. Len(s) /\ k - 1 + 1 = k
              /\ i + 1 + (k - 1) - 1 = i + k - 1
          BY <1>1, <3>1, <4>2
        <5>2. t[k] = s[k - 1] /\ s[k - 1] = text[i + 1 + (k - 1) - 1]
          BY <1>2, <3>3, <5>1
        <5>3. QED
          BY <5>1, <5>2
      <4>3. QED
        BY <4>1, <4>2
    <3>5. i + b - 1 <= Len(text)
      BY <1>1, <3>1, <3>3
    <3>6. QED
      BY <3>4, <3>5
  <2>3. QED
    BY <2>1, <2>2
<1>5. ASSUME NEW a \in 1 .. Len(t), NEW b \in 1 .. Len(t), a <= b, \A k \in a .. b : t[k] # MASK
      PROVE  SubSeq(t, a, b) \notin patterns
  <2>1. CASE a = 1
    <3>1. i + b - 1 <= Len(text) /\ \A k \in 1 .. b : t[k] = text[i + k - 1]
      BY <1>4, <1>5, <2>1
    <3>2. SubSeq(t, 1, b) = SubSeq(text, i, i + b - 1)
      <4>1. b \in Nat /\ i \in Nat /\ i # 0
        BY <1>1, <1>2
      <4>2. QED
        BY <3>1, <4>1, SameFirst
    <3>3. b \in 1 .. Len(text) - i + 1
      BY <1>1, <1>2, <3>1
    <3>4. SubSeq(text, i, i + b - 1) \notin patterns
      <4>1. \A m \in 1 .. Len(text) - i + 1 : SubSeq(text, i, i + m - 1) \in patterns => m <= 0
        BY FoundPattern
      <4>2. ~(b <= 0)
        BY <3>3
      <4>3. QED
        BY <3>3, <4>1, <4>2
    <3>5. QED
      BY <2>1, <3>2, <3>4
  <2>2. CASE a # 1
    <3>1. a \in 2 .. Len(s) + 1 /\ b \in 2 .. Len(s) + 1
      BY <1>1, <1>2, <1>5, <2>2
    <3>2. a - 1 \in 1 .. Len(s) /\ b - 1 \in 1 .. Len(s) /\ a - 1 <= b - 1
      BY <1>1, <1>5, <3>1
    <3>3. ASSUME NEW k \in a - 1 .. b - 1 PROVE s[k] # MASK
      <4>1. s[k] = t[k + 1]
        BY <1>3, <1>5, <3>1
      <4>2. k + 1 \in a .. b
        BY <3>1
      <4>3. QED
        BY <1>5, <4>1, <4>2
    <3>4. SubSeq(s, a - 1, b - 1) \notin patterns
      <4> DEFINE c == a - 1 d == b - 1
      <4>1. c \in 1 .. Len(s) /\ d \in 1 .. Len(s) /\ c <= d /\ \A k \in c .. d : s[k] # MASK
        BY <3>2, <3>3
      <4> HIDE DEF c, d
      <4>2. SubSeq(s, c, d) \notin patterns
        BY <4>1 DEF Clean
      <4>3. QED
        BY <4>2 DEF c, d
    <3>5. SubSeq(t, a, b) = SubSeq(s, a - 1, b - 1)
      BY <1>3, <1>5, <3>1
    <3>6. QED
      BY <3>4, <3>5
  <2>3. QED
    BY <2>1, <2>2
<1>6. Clean(text, patterns, t, i)
  BY <1>2, <1>4, <1>5 DEF Clean
<1>7. QED
  BY <1>6 DEF t

\* So a pass leaves no pattern.
LEMMA PassIsClean ==
    ASSUME NEW text, IsSequence(text), NEW patterns, NEW g, Scans(text, patterns, g)
    PROVE  \A i \in 1 .. Len(text) + 1 : Clean(text, patterns, g[i], i)
<1> DEFINE L == Len(text)
           P == {m \in 0 .. L : \A k \in 0 .. m : Clean(text, patterns, g[L + 1 - k], L + 1 - k)}
<1>1. L \in Nat
  BY DEF IsSequence
<1>2. \A i \in 1 .. L + 1 : g[i] = Scan(text, patterns, g, i)
  BY DEF Scans
<1>3. Clean(text, patterns, g[L + 1], L + 1)
  <2>1. g[L + 1] = << >>
    <3>1. L + 1 \in 1 .. L + 1 /\ L + 1 > Len(text)
      BY <1>1
    <3>2. g[L + 1] = Scan(text, patterns, g, L + 1)
      BY <1>2, <3>1
    <3>3. QED
      BY <3>1, <3>2 DEF Scan
  <2>2. IsSequence(<< >>) /\ Len(<< >>) = 0
    BY DEF IsSequence
  <2>3. QED
    BY <2>1, <2>2 DEF Clean
<1>4. 0 \in P
  <2>1. \A k \in 0 .. 0 : L + 1 - k = L + 1
    BY <1>1
  <2>2. QED
    BY <1>1, <1>3, <2>1
<1>5. ASSUME NEW m \in 0 .. L - 1, m \in P PROVE m + 1 \in P
  <2> DEFINE i == L + 1 - (m + 1)
  <2>1. i \in 1 .. L /\ i + 1 = L + 1 - m /\ m + 1 \in 0 .. L
    BY <1>1
  <2>2. \A k \in 0 .. m : Clean(text, patterns, g[L + 1 - k], L + 1 - k)
    BY <1>5
  <2> DEFINE n == LongestAt(text, i, patterns)
  <2>3. n \in 0 .. L - i + 1
    <3> HIDE DEF i
    <3>1. QED
      BY <2>1, FoundPattern
  <2>4. g[i] = IF n = 0 THEN <<text[i]>> \o g[i + 1] ELSE <<MASK>> \o g[i + n]
    <3> HIDE DEF i
    <3>1. i \in 1 .. L + 1 /\ ~(i > Len(text))
      BY <1>1, <2>1
    <3>2. g[i] = Scan(text, patterns, g, i)
      BY <1>2, <3>1
    <3>3. QED
      BY <3>1, <3>2 DEF Scan
  <2>5. Clean(text, patterns, g[i], i)
    <3>1. CASE n = 0
      <4>1. g[i] = <<text[i]>> \o g[i + 1]
        BY <2>4, <3>1
      <4>2. Clean(text, patterns, g[i + 1], i + 1)
        <5>1. m \in 0 .. m
          BY <1>1
        <5>2. QED
          BY <2>1, <2>2, <5>1
      <4> HIDE DEF i
      <4>3. QED
        BY <2>1, <3>1, <4>1, <4>2, CleanKeep
    <3>2. CASE n # 0
      <4>1. g[i] = <<MASK>> \o g[i + n]
        BY <2>4, <3>2
      <4> DEFINE k == L + 1 - (i + n)
      <4>2. k \in 0 .. m /\ L + 1 - k = i + n
        <5> HIDE DEF n
        <5>1. QED
          BY <1>1, <2>3, <3>2
      <4>3. Clean(text, patterns, g[i + n], i + n)
        <5> HIDE DEF n, i, k
        <5>1. QED
          BY <2>2, <4>2
      <4> HIDE DEF i, n
      <4>4. QED
        BY <4>1, <4>3, CleanMask
    <3>3. QED
      BY <3>1, <3>2
  <2>6. \A k \in 0 .. m + 1 : k \in 0 .. m \/ k = m + 1
    BY <1>1
  <2>7. QED
    BY <2>1, <2>2, <2>5, <2>6
<1> HIDE DEF P
<1>6. \A m \in 0 .. L : m \in P
  BY <1>1, <1>4, <1>5, Upward
<1>7. \A m \in 0 .. L : Clean(text, patterns, g[L + 1 - m], L + 1 - m)
  <2>1. \A m \in 0 .. L : m \in 0 .. m
    OBVIOUS
  <2>2. QED
    BY <1>6, <2>1 DEF P
<1>8. ASSUME NEW i \in 1 .. L + 1 PROVE Clean(text, patterns, g[i], i)
  <2> DEFINE m == L + 1 - i
  <2>1. m \in 0 .. L /\ L + 1 - m = i
    BY <1>1
  <2> HIDE DEF m
  <2>2. QED
    BY <1>7, <2>1
<1>9. QED
  BY <1>8

\* SecretRedactor.redact leaves nothing that is registered: no stretch without a mask is a pattern.
LEMMA NothingIsLeft ==
    ASSUME NEW text, IsSequence(text), NEW values, NEW p \in Patterns(values), MASK \notin Range(p)
    PROVE  ~Shows(Redacted(text, values), p)
<1> DEFINE made_ == Redacted(text, values)
           patterns == Patterns(values)
<1>1. Clean(text, patterns, made_, 1)
  <2>1. PICK g : Scans(text, patterns, g) /\ made_ = g[1]
    BY RedactedScans
  <2>2. 1 \in 1 .. Len(text) + 1
    BY DEF IsSequence
  <2> HIDE DEF made_, patterns
  <2>3. QED
    BY <2>1, <2>2, PassIsClean
<1> HIDE DEF made_
<1>2. SUFFICES ASSUME Shows(made_, p) PROVE FALSE
  BY DEF made_
<1> DEFINE n == Len(p)
<1>3. n \in 1 .. Len(made_) /\ IsSequence(made_) /\ Len(made_) \in Nat
  BY <1>1, <1>2 DEF Shows, Clean, IsSequence
<1>4. PICK a \in 1 .. Len(made_) - n + 1 : SubSeq(made_, a, a + n - 1) = p
  BY <1>2 DEF Shows
<1> HIDE DEF n
<1> DEFINE b == a + n - 1
<1>5. /\ a \in 1 .. Len(made_) /\ b \in 1 .. Len(made_) /\ a <= b /\ a \in Nat /\ b \in Nat /\ a <= b + 1
  BY <1>3
<1>6. SubSeq(made_, a, b) = p
  BY <1>4
<1> HIDE DEF b
<1>7. /\ IsSequence(p) /\ Len(p) = b - a + 1
      /\ \A k \in 1 .. b - a + 1 : p[k] = made_[k + a - 1]
  BY <1>5, <1>6, StretchHas
<1>8. ASSUME NEW j \in a .. b PROVE made_[j] # MASK
  <2> DEFINE k == j - a + 1
  <2>1. k \in 1 .. b - a + 1 /\ k + a - 1 = j
    BY <1>3, <1>5
  <2>2. k \in DOMAIN p /\ p[k] = made_[j]
    BY <1>7, <2>1 DEF IsSequence
  <2>3. QED
    BY <2>2 DEF Range
<1>9. SubSeq(made_, a, b) \notin patterns
  BY <1>1, <1>5, <1>8 DEF Clean
<1>10. QED
  BY <1>6, <1>9

\* What is looked for is every form of what is not to be seen.
LEMMA PatternsAreForms ==
    ASSUME NEW values
    PROVE  Patterns(values) = SecretForms(values)
<1> DEFINE kept == {x \in values : Stripped(x) # << >>}
           keys == {c \in kept : Range(c) \intersect DELIMITERS # {}}
           Body(c) == {k \in Lines(c) : Stripped(k) # << >> /\ k[1] \notin DELIMITERS}
           lines == {l \in UNION {Lines(c) : c \in keys} : Stripped(l) # << >> /\ l[1] \notin DELIMITERS}
           found == UNION {Variants(w) : w \in kept}
<1>1. Secret(values) = kept \union {Stripped(l) : l \in lines}
  BY DEF Secret
<1>2. \A w : Variants(w) = {w} \union
                (IF Range(w) \intersect DELIMITERS # {} THEN {Stripped(l) : l \in Body(w)} ELSE {})
  BY DEF Variants
<1>3. \A l : l \in lines <=> \E c \in keys : l \in Body(c)
  OBVIOUS
<1> HIDE DEF lines, Body
<1>4. \A v : v \in found <=> v \in kept \union {Stripped(l) : l \in lines}
  <2>1. ASSUME NEW v, v \in found PROVE v \in kept \union {Stripped(l) : l \in lines}
    <3>1. PICK w \in kept : v \in Variants(w)
      BY <2>1
    <3>2. CASE v = w
      BY <3>1, <3>2
    <3>3. CASE v # w
      <4>1. Range(w) \intersect DELIMITERS # {} /\ v \in {Stripped(l) : l \in Body(w)}
        BY <1>2, <3>1, <3>3
      <4>2. QED
        BY <1>3, <3>1, <4>1
    <3>4. QED
      BY <3>2, <3>3
  <2>2. ASSUME NEW v \in kept PROVE v \in found
    BY <1>2
  <2>3. ASSUME NEW l \in lines PROVE Stripped(l) \in found
    <3>1. PICK c \in keys : l \in Body(c)
      BY <1>3
    <3>2. Stripped(l) \in Variants(c) /\ c \in kept
      BY <1>2, <3>1
    <3>3. QED
      BY <3>2
  <2> HIDE DEF found, kept
  <2>4. QED
    BY <2>1, <2>2, <2>3
<1>5. found = Secret(values)
  BY <1>1, <1>4
<1>6. Patterns(values) = {InForm(v, f) : v \in found, f \in Forms}
  BY DEF Patterns
<1>7. SecretForms(values) = {InForm(v, f) : v \in Secret(values), f \in Forms}
  BY DEF SecretForms
<1> HIDE DEF found
<1>8. QED
  BY <1>5, <1>6, <1>7

\* A value under the name of a credential in a secret.
Told(secret) ==
    {secret.tracked[f] : f \in Named(secret.tracked)} \union {secret.latest[f] : f \in Named(secret.latest)}

\* What is registered of a secret is what stands under these names, in either revision.
LEMMA SecretTold ==
    ASSUME NEW secret, NEW fields, fields \subseteq CredentialNames, NEW v
    PROVE  /\ v \in SecretValues(secret, fields) => secret.readable /\ v \in Told(secret)
           /\ secret.readable /\ v \in Told(secret) /\ NamedIn(secret) \subseteq fields =>
                 v \in SecretValues(secret, fields)
<1>1. \A content : v \in ValuesOf(content, fields) <=>
                     \E f \in fields \intersect DOMAIN content : v = content[f]
  BY DEF ValuesOf
<1>2. v \in SecretValues(secret, fields) <=>
          secret.readable /\ (v \in ValuesOf(secret.tracked, fields) \/ v \in ValuesOf(secret.latest, fields))
  BY DEF SecretValues
<1>3. v \in Told(secret) <=> (\E f \in Named(secret.tracked) : v = secret.tracked[f])
                             \/ (\E f \in Named(secret.latest) : v = secret.latest[f])
  BY DEF Told
<1>4. \A content : Named(content) = DOMAIN content \intersect CredentialNames
  BY DEF Named
<1>5. QED
  BY <1>1, <1>2, <1>3, <1>4 DEF NamedIn

\* Where the fields of an endpoint's credentials are, their names are.
LEMMA FieldsAreNamed ==
    /\ ReplicaFields \subseteq CredentialNames /\ SshKeyFields \subseteq CredentialNames
    /\ \A e \in DOMAIN REDACTION : REDACTION[e].fields \subseteq CredentialNames
<1>1. ReplicaFields \subseteq CredentialNames /\ SshKeyFields \subseteq CredentialNames
  BY DEF ReplicaFields, SshKeyFields, CredentialNames
<1>2. DOMAIN REDACTION = {"database", "valkey", "smtp", "oauth", "s3"}
  BY DEF REDACTION
<1>3. /\ REDACTION["database"].fields \subseteq CredentialNames
      /\ REDACTION["valkey"].fields \subseteq CredentialNames
      /\ REDACTION["smtp"].fields \subseteq CredentialNames
      /\ REDACTION["oauth"].fields \subseteq CredentialNames
      /\ REDACTION["s3"].fields \subseteq CredentialNames
  BY DEF REDACTION, CredentialNames
<1>4. QED
  BY <1>1, <1>2, <1>3

\* What is a credential: it is in a secret that can be read, or in a relation.
LEMMA CredentialIs ==
    ASSUME NEW model, NEW v
    PROVE  v \in CredentialsIn(model) <=>
              \/ \E s \in {model.replica, model.sshKey} \union Range(model.secrets) :
                    s.readable /\ v \in Told(s)
              \/ \E r \in model.relations : \E data \in Bags(r) : v \in {data[f] : f \in Named(data)}
<1> DEFINE readable == {s \in {model.replica, model.sshKey} \union Range(model.secrets) : s.readable}
           revisions == UNION {{s.tracked, s.latest} : s \in readable}
           contents == revisions \union UNION {Bags(r) : r \in model.relations}
<1>1. CredentialsIn(model) = UNION {{c[f] : f \in Named(c)} : c \in contents}
  BY DEF CredentialsIn
<1>2. \A c : c \in contents <=>
          \/ \E s \in {model.replica, model.sshKey} \union Range(model.secrets) :
                s.readable /\ (c = s.tracked \/ c = s.latest)
          \/ \E r \in model.relations : c \in Bags(r)
  OBVIOUS
<1> DEFINE Values(c) == {c[f] : f \in Named(c)}
<1>3. \A s : v \in Told(s) <=> v \in Values(s.tracked) \/ v \in Values(s.latest)
  BY DEF Told
<1>4. v \in CredentialsIn(model) <=> \E c \in contents : v \in Values(c)
  <2> HIDE DEF contents
  <2>1. QED
    BY <1>1
<1> HIDE DEF contents, Values
<1>5. v \in CredentialsIn(model) <=>
          \/ \E s \in {model.replica, model.sshKey} \union Range(model.secrets) :
                s.readable /\ v \in Told(s)
          \/ \E r \in model.relations : \E data \in Bags(r) : v \in Values(data)
  BY <1>2, <1>3, <1>4
<1>6. QED
  BY <1>5 DEF Values

\* What a relation has registered.
LEMMA RelationTold ==
    ASSUME NEW secrets, NEW r, r.endpoint \in DOMAIN REDACTION, NEW v
    PROVE  v \in RelationValues(secrets, r, REDACTION[r.endpoint]) <=>
              \E data \in Bags(r) :
                  \/ \E f \in REDACTION[r.endpoint].fields \intersect DOMAIN data : v = data[f]
                  \/ \E i \in References(r, data) :
                        v \in SecretValues(secrets[i], REDACTION[r.endpoint].fields)
<1> DEFINE redaction == REDACTION[r.endpoint]
           items == Range(r.requests)
           Here(data) == FieldValues(secrets, data, redaction)
<1>1. v \in RelationValues(secrets, r, redaction) <=>
          v \in Here(r.bag) \/ (r.parses /\ \E data \in items : v \in Here(data))
  BY DEF RelationValues
<1>2. \A data : data \in Bags(r) <=> data = r.bag \/ (r.parses /\ data \in items)
  BY DEF Bags
<1>3. ASSUME NEW data
      PROVE  v \in Here(data) <=>
                \/ \E f \in redaction.fields \intersect DOMAIN data : v = data[f]
                \/ \E i \in References(r, data) : v \in SecretValues(secrets[i], redaction.fields)
  <2>1. v \in Here(data) <=>
            \/ v \in ValuesOf(data, redaction.fields)
            \/ \E f \in redaction.references \intersect DOMAIN data :
                  v \in SecretValues(secrets[data[f]], redaction.fields)
    BY DEF FieldValues
  <2>2. References(r, data) = {data[f] : f \in redaction.references \intersect DOMAIN data}
    BY DEF References
  <2>3. v \in ValuesOf(data, redaction.fields) <=>
            \E f \in redaction.fields \intersect DOMAIN data : v = data[f]
    BY DEF ValuesOf
  <2> HIDE DEF redaction, Here
  <2>4. QED
    BY <2>1, <2>2, <2>3
<1> HIDE DEF redaction, Here, items
<1>4. v \in RelationValues(secrets, r, redaction) <=> \E data \in Bags(r) : v \in Here(data)
  BY <1>1, <1>2
<1>5. v \in RelationValues(secrets, r, redaction) <=>
          \E data \in Bags(r) :
              \/ \E f \in redaction.fields \intersect DOMAIN data : v = data[f]
              \/ \E i \in References(r, data) : v \in SecretValues(secrets[i], redaction.fields)
  BY <1>3, <1>4
<1>6. QED
  BY <1>5 DEF redaction

\* Charm._seed_log_secrets registers every credential that the unit can read, and nothing else.
LEMMA CredentialsAreRegistered ==
    ASSUME NEW model, IsModel(model)
    PROVE  SeededValues(model) = CredentialsIn(model)
<1> DEFINE F(r) == REDACTION[r.endpoint].fields
           Others == model.relations
<1>1. ASSUME NEW v
      PROVE  v \in SeededValues(model) <=>
                \/ v \in SecretValues(model.replica, ReplicaFields)
                \/ v \in SecretValues(model.sshKey, SshKeyFields)
                \/ \E r \in model.relations : v \in RelationValues(model.secrets, r, REDACTION[r.endpoint])
  BY DEF SeededValues
<1>2. \A r \in model.relations : r.endpoint \in DOMAIN REDACTION /\ F(r) \subseteq CredentialNames
  BY FieldsAreNamed DEF IsModel
<1>3. \A r \in model.relations : \A data \in Bags(r) :
          Named(data) \subseteq F(r) /\ References(r, data) \subseteq DOMAIN model.secrets
  BY DEF IsModel
<1>4. \A i \in DOMAIN model.secrets : model.secrets[i].readable =>
          \E r \in model.relations : \E data \in Bags(r) :
              i \in References(r, data) /\ NamedIn(model.secrets[i]) \subseteq F(r)
  BY DEF IsModel
<1>5. /\ NamedIn(model.replica) \subseteq ReplicaFields /\ ReplicaFields \subseteq CredentialNames
      /\ NamedIn(model.sshKey) \subseteq SshKeyFields /\ SshKeyFields \subseteq CredentialNames
  BY FieldsAreNamed DEF IsModel
<1>6. \A s : s \in Range(model.secrets) <=> \E i \in DOMAIN model.secrets : s = model.secrets[i]
  BY DEF Range
<1>7. \A data : Named(data) = DOMAIN data \intersect CredentialNames
  BY DEF Named
<1>8. \A r \in model.relations : \A v :
          v \in RelationValues(model.secrets, r, REDACTION[r.endpoint]) <=>
              \E data \in Bags(r) :
                  \/ \E f \in F(r) \intersect DOMAIN data : v = data[f]
                  \/ \E i \in References(r, data) : v \in SecretValues(model.secrets[i], F(r))
  BY <1>2, RelationTold
<1> HIDE DEF F
<1>9. ASSUME NEW v, v \in SeededValues(model) PROVE v \in CredentialsIn(model)
  <2>1. CASE v \in SecretValues(model.replica, ReplicaFields)
    BY <2>1, <1>5, SecretTold, CredentialIs
  <2>2. CASE v \in SecretValues(model.sshKey, SshKeyFields)
    BY <2>2, <1>5, SecretTold, CredentialIs
  <2>3. ASSUME NEW r \in model.relations, v \in RelationValues(model.secrets, r, REDACTION[r.endpoint])
        PROVE  v \in CredentialsIn(model)
    <3>1. PICK data \in Bags(r) :
              \/ \E f \in F(r) \intersect DOMAIN data : v = data[f]
              \/ \E i \in References(r, data) : v \in SecretValues(model.secrets[i], F(r))
      BY <2>3, <1>8
    <3>2. ASSUME NEW f \in F(r) \intersect DOMAIN data, v = data[f] PROVE v \in CredentialsIn(model)
      <4>1. f \in Named(data)
        BY <1>2, <1>7
      <4>2. v \in {data[g] : g \in Named(data)}
        BY <3>2, <4>1
      <4>3. QED
        BY <4>2, CredentialIs
    <3>3. ASSUME NEW i \in References(r, data), v \in SecretValues(model.secrets[i], F(r))
          PROVE  v \in CredentialsIn(model)
      <4>1. model.secrets[i] \in Range(model.secrets)
        BY <1>3, <1>6
      <4>2. model.secrets[i].readable /\ v \in Told(model.secrets[i])
        BY <1>2, <3>3, SecretTold
      <4>3. QED
        BY <4>1, <4>2, CredentialIs
    <3>4. QED
      BY <3>1, <3>2, <3>3
  <2>4. QED
    BY <1>1, <1>9, <2>1, <2>2, <2>3
<1>10. ASSUME NEW v, v \in CredentialsIn(model) PROVE v \in SeededValues(model)
  <2>1. ASSUME NEW s \in {model.replica, model.sshKey} \union Range(model.secrets), s.readable, v \in Told(s)
        PROVE  v \in SeededValues(model)
    <3>1. CASE s = model.replica
      <4>1. v \in SecretValues(model.replica, ReplicaFields)
        BY <1>5, <2>1, <3>1, SecretTold
      <4>2. QED
        BY <1>1, <4>1
    <3>2. CASE s = model.sshKey
      <4>1. v \in SecretValues(model.sshKey, SshKeyFields)
        BY <1>5, <2>1, <3>2, SecretTold
      <4>2. QED
        BY <1>1, <4>1
    <3>3. CASE s \in Range(model.secrets)
      <4>1. PICK i \in DOMAIN model.secrets : s = model.secrets[i]
        BY <1>6, <3>3
      <4>2. PICK r \in model.relations : \E data \in Bags(r) :
                i \in References(r, data) /\ NamedIn(s) \subseteq F(r)
        BY <1>4, <2>1, <4>1
      <4>3. v \in SecretValues(s, F(r))
        BY <1>2, <2>1, <4>2, SecretTold
      <4>4. v \in RelationValues(model.secrets, r, REDACTION[r.endpoint])
        BY <1>8, <4>1, <4>2, <4>3
      <4>5. QED
        BY <1>1, <4>4
    <3>4. QED
      BY <2>1, <3>1, <3>2, <3>3
  <2>2. ASSUME NEW r \in model.relations, NEW data \in Bags(r), v \in {data[f] : f \in Named(data)}
        PROVE  v \in SeededValues(model)
    <3>1. PICK f \in Named(data) : v = data[f]
      BY <2>2
    <3>2. f \in F(r) \intersect DOMAIN data
      BY <1>3, <1>7, <3>1
    <3>3. v \in RelationValues(model.secrets, r, REDACTION[r.endpoint])
      BY <1>8, <3>1, <3>2
    <3>4. QED
      BY <1>1, <3>3
  <2>3. QED
    BY <1>10, <2>1, <2>2, CredentialIs
<1>11. QED
  BY <1>9, <1>10

\* So what is redacted hides every credential.
LEMMA RedactedHides ==
    ASSUME NEW text, IsSequence(text), NEW credentials
    PROVE  Hides(Redacted(text, credentials), credentials)
<1>1. SUFFICES ASSUME NEW value \in SecretForms(credentials), MASK \notin Range(value)
               PROVE  ~Shows(Redacted(text, credentials), value)
  BY DEF Hides
<1>2. value \in Patterns(credentials)
  BY PatternsAreForms
<1>3. QED
  BY <1>1, <1>2, NothingIsLeft

\* A sequence has a length.
LEMMA LengthOf ==
    ASSUME NEW s, IsSequence(s)
    PROVE  Len(s) \in Nat /\ DOMAIN s = 1 .. Len(s)
  BY DEF IsSequence

\* Sequences can be put into one in any grouping, and an empty one makes no difference.
LEMMA Grouped ==
    ASSUME NEW s, IsSequence(s), NEW t, IsSequence(t), NEW u, IsSequence(u)
    PROVE  (s \o t) \o u = s \o (t \o u) /\ << >> \o s = s /\ s \o << >> = s
<1> DEFINE S == Range(s) \union Range(t) \union Range(u)
<1>1. s \in Seq(S) /\ t \in Seq(S) /\ u \in Seq(S)
  BY DEF IsSequence
<1> HIDE DEF S
<1>2. QED
  BY <1>1, ConcatAssociative, ConcatEmptySeq

\* Where the elements of the two are.
LEMMA TwoInOne ==
    ASSUME NEW s, IsSequence(s), NEW t, IsSequence(t)
    PROVE  /\ IsSequence(s \o t) /\ Len(s \o t) = Len(s) + Len(t)
           /\ Len(s) \in Nat /\ Len(t) \in Nat
           /\ \A k \in 1 .. Len(s) : (s \o t)[k] = s[k]
           /\ \A k \in 1 .. Len(t) : (s \o t)[Len(s) + k] = t[k]
<1> DEFINE S == Range(s) \union Range(t) u == s \o t
<1>1. s \in Seq(S) /\ t \in Seq(S) /\ Len(s) \in Nat /\ Len(t) \in Nat
  BY DEF IsSequence
<1> HIDE DEF S
<1>2. Len(u) = Len(s) + Len(t)
      /\ \A i \in 1 .. Len(s) + Len(t) : u[i] = IF i <= Len(s) THEN s[i] ELSE t[i - Len(s)]
  BY <1>1, ConcatProperties
<1>3. IsSequence(u)
  BY Concatenated
<1> HIDE DEF u
<1>4. \A k \in 1 .. Len(s) : k \in 1 .. Len(s) + Len(t) /\ k <= Len(s)
  BY <1>1
<1>5. \A k \in 1 .. Len(t) :
          Len(s) + k \in 1 .. Len(s) + Len(t) /\ ~(Len(s) + k <= Len(s)) /\ Len(s) + k - Len(s) = k
  BY <1>1
<1>6. QED
  BY <1>1, <1>2, <1>3, <1>4, <1>5 DEF u

\* The first sequences, put into one.
Joins(seqs, n, f) == f[0] = << >> /\ \A i \in 1 .. n : f[i] = f[i - 1] \o seqs[i]

\* FlattenSeq puts sequences into one, one after the other.
LEMMA FlattenJoins ==
    ASSUME NEW seqs, IsSequence(seqs), \A k \in DOMAIN seqs : IsSequence(seqs[k])
    PROVE  \E f : Joins(seqs, Len(seqs), f) /\ FlattenSeq(seqs) = f[Len(seqs)]
<1> DEFINE n == Len(seqs)
           g == CHOOSE f : f = [i \in 1 .. n |-> IF i = 1 THEN seqs[i] ELSE f[i - 1] \o seqs[i]]
           f == [i \in 0 .. n |-> IF i = 0 THEN << >> ELSE g[i]]
<1>1. n \in Nat /\ DOMAIN seqs = 1 .. n
  BY DEF IsSequence
<1>2. CASE n = 0
  <2>1. FlattenSeq(seqs) = seqs
    BY <1>2 DEF FlattenSeq
  <2>2. seqs = << >>
    BY <1>2 DEF IsSequence
  <2>3. Joins(seqs, 0, [i \in 0 .. 0 |-> << >>])
    BY DEF Joins
  <2> DEFINE e == [i \in 0 .. 0 |-> << >>]
  <2>4. Joins(seqs, Len(seqs), e) /\ FlattenSeq(seqs) = e[Len(seqs)]
    BY <1>2, <2>1, <2>2, <2>3
  <2> HIDE DEF e
  <2>5. QED
    BY <2>4
<1>3. CASE n # 0
  <2>1. FlattenSeq(seqs) = g[n]
    BY <1>3 DEF FlattenSeq
  <2>2. \A e : Flattens(seqs, n, e) <=>
          e = [i \in 1 .. n |-> IF i = 1 THEN seqs[i] ELSE e[i - 1] \o seqs[i]]
    BY DEF Flattens
  <2>3. Flattens(seqs, n, g)
    BY <1>1, <2>2, FlattenExists
  <2> HIDE DEF g, n
  <2>4. ASSUME NEW i \in 1 .. n PROVE g[i] = IF i = 1 THEN seqs[i] ELSE g[i - 1] \o seqs[i]
    BY <2>3 DEF Flattens
  <2>5. f[0] = << >> /\ \A i \in 1 .. n : f[i] = g[i]
    BY <1>1
  <2> HIDE DEF f
  <2>6. ASSUME NEW i \in 1 .. n PROVE f[i] = f[i - 1] \o seqs[i]
    <3>1. IsSequence(seqs[i])
      BY <1>1
    <3>2. CASE i = 1
      <4>1. f[i] = seqs[i] /\ f[i - 1] = << >>
        BY <2>4, <2>5, <3>2
      <4>2. QED
        BY <3>1, <4>1, Grouped
    <3>3. CASE i # 1
      <4>1. i - 1 \in 1 .. n
        BY <1>1, <3>3
      <4>2. QED
        BY <2>4, <2>5, <3>3, <4>1
    <3>4. QED
      BY <3>2, <3>3
  <2>7. f[n] = g[n]
    BY <1>1, <1>3, <2>5
  <2>8. Joins(seqs, n, f)
    BY <2>5, <2>6 DEF Joins
  <2>9. QED
    BY <2>1, <2>7, <2>8 DEF n
<1>4. QED
  BY <1>2, <1>3

\* What the first are put into is what more of them begin with.
Extends(n, f) ==
    \A j \in 0 .. n : IsSequence(f[j]) /\ \A i \in 0 .. j :
        Len(f[i]) <= Len(f[j]) /\ \A k \in 1 .. Len(f[i]) : f[j][k] = f[i][k]

LEMMA JoinedPrefixes ==
    ASSUME NEW n \in Nat, NEW seqs, \A k \in 1 .. n : IsSequence(seqs[k]), NEW f, Joins(seqs, n, f)
    PROVE  Extends(n, f)
<1> DEFINE Correct(j) == IsSequence(f[j]) /\ \A i \in 0 .. j :
              Len(f[i]) <= Len(f[j]) /\ \A k \in 1 .. Len(f[i]) : f[j][k] = f[i][k]
           P == {j \in 0 .. n : \A m \in 0 .. j : Correct(m)}
<1>1. Correct(0)
  <2>1. f[0] = << >> /\ IsSequence(<< >>)
    BY DEF Joins, IsSequence
  <2>2. QED
    BY <2>1
<1>2. 0 \in P
  <2> HIDE DEF Correct
  <2>1. QED
    BY <1>1
<1>3. ASSUME NEW j \in 0 .. n - 1, j \in P PROVE j + 1 \in P
  <2>1. Correct(j) /\ j + 1 \in 1 .. n /\ j + 1 - 1 = j
    <3> HIDE DEF Correct
    <3>1. QED
      BY <1>3
  <2> DEFINE next == j + 1
  <2>2. next \in 1 .. n /\ next - 1 = j
    BY <2>1
  <2> HIDE DEF next
  <2>3. f[next] = f[next - 1] \o seqs[next]
    BY <2>2 DEF Joins
  <2>4. IsSequence(f[j]) /\ f[next] = f[j] \o seqs[next] /\ IsSequence(seqs[next])
    BY <2>1, <2>2, <2>3
  <2>5. /\ IsSequence(f[next]) /\ Len(f[j]) <= Len(f[next])
        /\ \A k \in 1 .. Len(f[j]) : f[next][k] = f[j][k]
    <3> DEFINE u == f[j] w == seqs[next]
    <3>1. IsSequence(u) /\ IsSequence(w) /\ f[next] = u \o w
      BY <2>4
    <3> HIDE DEF u, w
    <3>2. /\ IsSequence(u \o w) /\ Len(u \o w) = Len(u) + Len(w) /\ Len(u) \in Nat /\ Len(w) \in Nat
          /\ \A k \in 1 .. Len(u) : (u \o w)[k] = u[k]
      BY <3>1, TwoInOne
    <3>3. Len(u) <= Len(u \o w)
      BY <3>2
    <3>4. QED
      BY <3>1, <3>2, <3>3 DEF u
  <2>7. Len(f[j]) \in Nat /\ Len(f[next]) \in Nat
    BY <2>4, <2>5, LengthOf
  <2>8. ASSUME NEW i \in 0 .. next
        PROVE  Len(f[i]) <= Len(f[next]) /\ \A k \in 1 .. Len(f[i]) : f[next][k] = f[i][k]
    <3>1. CASE i = next
      BY <2>7, <3>1
    <3>2. CASE i # next
      <4>1. i \in 0 .. j
        BY <2>2, <3>2
      <4>2. Len(f[i]) <= Len(f[j]) /\ \A k \in 1 .. Len(f[i]) : f[j][k] = f[i][k]
        BY <2>1, <4>1
      <4>3. Len(f[i]) \in Nat
        <5>1. Correct(i)
          <6> HIDE DEF Correct
          <6>1. QED
            BY <1>3, <4>1
        <5>2. QED
          BY <5>1 DEF IsSequence
      <4>4. \A k \in 1 .. Len(f[i]) : k \in 1 .. Len(f[j])
        BY <2>7, <4>2, <4>3
      <4>5. QED
        BY <2>5, <2>7, <4>2, <4>3, <4>4
    <3>3. QED
      BY <3>1, <3>2
  <2>9. Correct(next)
    BY <2>5, <2>8
  <2>10. \A m \in 0 .. j + 1 : m \in 0 .. j \/ m = j + 1
    OBVIOUS
  <2> HIDE DEF Correct
  <2>11. QED
    BY <1>3, <2>1, <2>9, <2>10 DEF next
<1>4. \A j \in 0 .. n : j \in P
  <2> HIDE DEF P
  <2>1. QED
    BY <1>2, <1>3, Upward
<1>5. QED
  <2>1. \A j \in 0 .. n : Correct(j)
    <3> HIDE DEF Correct
    <3>1. QED
      BY <1>4
  <2>2. QED
    BY <2>1 DEF Extends

\* What the first are put into does not depend on the rest.
LEMMA JoinedAlike ==
    ASSUME NEW m \in Nat, NEW seqs, NEW f, Joins(seqs, m, f), NEW others, NEW g, Joins(others, m, g),
           \A k \in 1 .. m : others[k] = seqs[k]
    PROVE  g[m] = f[m]
<1> DEFINE P == {j \in 0 .. m : g[j] = f[j]}
<1>1. 0 \in P
  BY DEF Joins
<1>2. ASSUME NEW j \in 0 .. m - 1, j \in P PROVE j + 1 \in P
  <2> DEFINE next == j + 1
  <2>1. next \in 1 .. m /\ next - 1 = j /\ g[j] = f[j] /\ next \in 0 .. m
    BY <1>2
  <2> HIDE DEF next
  <2>2. f[next] = f[next - 1] \o seqs[next] /\ g[next] = g[next - 1] \o others[next]
    BY <2>1 DEF Joins
  <2>3. g[next] = f[next]
    BY <2>1, <2>2
  <2>4. QED
    BY <2>1, <2>3 DEF next
<1>3. \A j \in 0 .. m : j \in P
  <2> HIDE DEF P
  <2>1. QED
    BY <1>1, <1>2, Upward
<1>4. QED
  BY <1>3

\* The lengths of the patterns that begin at a position.
Starts(text, patterns, i) ==
    {n \in 1 .. Len(text) - i + 1 : SubSeq(text, i, i + n - 1) \in patterns}

\* A sequence is in a text from a to before b, and g tells what a pass over the text puts out.
Stands(text, patterns, g, o, w, a, b) ==
    /\ IsSequence(text) /\ Scans(text, patterns, g) /\ o \in Nat /\ IsSequence(w)
    /\ o + Len(w) <= Len(text) /\ \A k \in 1 .. Len(w) : text[o + k] = w[k]
    /\ a = o + 1 /\ b = o + Len(w) + 1

\* Characters with which no pattern begins are put out as they are.
LEMMA Copied ==
    ASSUME NEW text, NEW patterns, NEW g, NEW o, NEW w, NEW a, NEW b,
           Stands(text, patterns, g, o, w, a, b),
           \A j \in 1 .. Len(w) : Starts(text, patterns, o + j) = {}
    PROVE  g[a] = w \o g[b]
<1> DEFINE s == Len(w)
           P == {j \in 0 .. s : g[o + 1] = SubSeq(w, 1, j) \o g[o + j + 1]}
<1>. /\ IsSequence(text) /\ Scans(text, patterns, g) /\ o \in Nat /\ IsSequence(w)
     /\ o + Len(w) <= Len(text) /\ \A k \in 1 .. Len(w) : text[o + k] = w[k]
     /\ a = o + 1 /\ b = o + Len(w) + 1
  BY DEF Stands
<1>1. s \in Nat /\ Len(text) \in Nat
  BY DEF IsSequence
<1>2. \A i \in 1 .. Len(text) + 1 : g[i] = Scan(text, patterns, g, i) /\ IsSequence(g[i])
  <2>1. \A i \in 1 .. Len(text) + 1 : g[i] = Scan(text, patterns, g, i)
    BY DEF Scans
  <2>2. \A i \in 1 .. Len(text) + 1 : Clean(text, patterns, g[i], i)
    BY PassIsClean
  <2>3. QED
    BY <2>1, <2>2 DEF Clean
<1>3. 0 \in P
  <2>1. SubSeq(w, 1, 0) = << >>
    <3>1. IsSequence(SubSeq(w, 1, 0)) /\ Len(SubSeq(w, 1, 0)) = 0
      BY FirstHas
    <3>2. QED
      BY <3>1 DEF IsSequence
  <2>2. o + 1 \in 1 .. Len(text) + 1
    BY <1>1
  <2>3. IsSequence(g[o + 1])
    BY <1>2, <2>2
  <2>4. << >> \o g[o + 1] = g[o + 1]
    BY <2>3, Grouped
  <2>5. o + 0 + 1 = o + 1 /\ 0 \in 0 .. s
    BY <1>1
  <2>6. QED
    BY <2>1, <2>4, <2>5
<1>4. ASSUME NEW j \in 0 .. s - 1, j \in P PROVE j + 1 \in P
  <2> DEFINE k == j + 1 i == o + k first == SubSeq(w, 1, j) rest == g[i + 1]
  <2>1. /\ k \in 1 .. s /\ i \in 1 .. Len(text) /\ i + 1 \in 1 .. Len(text) + 1
        /\ i \in 1 .. Len(text) + 1 /\ i = o + j + 1 /\ k \in 0 .. s
        /\ ~(i > Len(text)) /\ i + 1 = o + k + 1
    BY <1>1
  <2>2. g[o + 1] = first \o g[i]
    BY <1>4, <2>1
  <2>3. text[i] = w[k] /\ Starts(text, patterns, i) = {}
    BY <2>1
  <2> HIDE DEF i, k, s
  <2>4. LongestAt(text, i, patterns) = 0
    BY <2>3 DEF LongestAt, Starts
  <2>5. g[i] = <<w[k]>> \o rest
    <3>1. g[i] = Scan(text, patterns, g, i)
      BY <1>2, <2>1
    <3>2. QED
      BY <2>1, <2>3, <2>4, <3>1 DEF Scan
  <2>6. IsSequence(rest)
    BY <1>2, <2>1
  <2>7. IsSequence(first) /\ Len(first) = j /\ \A l \in 1 .. j : first[l] = w[l]
    <3>1. j \in Nat
      BY <1>1
    <3>2. QED
      BY <3>1, FirstHas
  <2>8. IsSequence(<<w[k]>>) /\ Len(<<w[k]>>) = 1 /\ <<w[k]>>[1] = w[k]
    BY DEF IsSequence, Range
  <2> HIDE DEF first, rest
  <2>9. first \o <<w[k]>> = SubSeq(w, 1, k)
    <3> DEFINE x == first \o <<w[k]>> y == SubSeq(w, 1, k)
    <3>1. IsSequence(x) /\ Len(x) = j + 1 /\ (\A l \in 1 .. j : x[l] = first[l]) /\ x[j + 1] = w[k]
      <4> DEFINE last == <<w[k]>>
      <4>1. IsSequence(last) /\ Len(last) = 1 /\ last[1] = w[k] /\ 1 \in 1 .. 1
        BY <2>8
      <4> HIDE DEF last
      <4>2. /\ IsSequence(first \o last) /\ Len(first \o last) = Len(first) + Len(last)
            /\ \A l \in 1 .. Len(first) : (first \o last)[l] = first[l]
            /\ \A l \in 1 .. Len(last) : (first \o last)[Len(first) + l] = last[l]
        <5>1. IsSequence(first) /\ IsSequence(last)
          BY <2>7, <4>1
        <5>2. QED
          BY <5>1, TwoInOne
      <4>3. /\ Len(first \o last) = j + 1 /\ (\A l \in 1 .. j : (first \o last)[l] = first[l])
            /\ (first \o last)[j + 1] = w[k]
        BY <2>7, <4>1, <4>2
      <4>4. QED
        BY <4>2, <4>3 DEF last
    <3>2. IsSequence(y) /\ Len(y) = k /\ \A l \in 1 .. k : y[l] = w[l]
      <4>1. k \in Nat
        BY <1>1, <2>1
      <4>2. QED
        BY <4>1, FirstHas
    <3> HIDE DEF x, y
    <3>3. Len(x) = Len(y) /\ Len(x) = k
      BY <3>1, <3>2 DEF k
    <3>4. ASSUME NEW l \in 1 .. Len(x) PROVE x[l] = y[l]
      <4>1. y[l] = w[l]
        BY <3>2, <3>3 DEF k
      <4>2. CASE l = k
        BY <3>1, <4>1, <4>2 DEF k
      <4>3. CASE l # k
        <5>1. l \in 1 .. j
          BY <3>3, <4>3 DEF k
        <5>2. QED
          BY <2>7, <3>1, <4>1, <5>1
      <4>4. QED
        BY <4>2, <4>3
    <3>5. QED
      BY <3>1, <3>2, <3>3, <3>4, SameSequence DEF x, y
  <2>10. g[o + 1] = SubSeq(w, 1, k) \o rest
    <3>1. (first \o <<w[k]>>) \o rest = first \o (<<w[k]>> \o rest)
      <4> DEFINE last == <<w[k]>>
      <4>1. IsSequence(first) /\ IsSequence(last) /\ IsSequence(rest)
        BY <2>6, <2>7, <2>8
      <4> HIDE DEF last
      <4>2. (first \o last) \o rest = first \o (last \o rest)
        BY SMTT(60), <4>1, Grouped
      <4>3. QED
        BY <4>2 DEF last
    <3>2. QED
      BY <2>2, <2>5, <2>9, <3>1
  <2>11. QED
    BY <2>1, <2>10 DEF k, rest
<1> HIDE DEF P
<1>5. \A j \in 0 .. s : j \in P
  BY <1>1, <1>3, <1>4, Upward
<1>6. g[o + 1] = SubSeq(w, 1, s) \o g[o + s + 1]
  <2>1. s \in P
    BY <1>1, <1>5
  <2>2. QED
    BY <2>1 DEF P
<1>7. SubSeq(w, 1, s) = w
  <2> DEFINE y == SubSeq(w, 1, s)
  <2>1. IsSequence(y) /\ Len(y) = s /\ \A l \in 1 .. s : y[l] = w[l]
    BY <1>1, FirstHas
  <2> HIDE DEF y
  <2>2. Len(y) = Len(w) /\ \A l \in 1 .. Len(y) : y[l] = w[l]
    BY <1>1, <2>1
  <2>3. QED
    BY <2>1, <2>2, SameSequence DEF y
<1>8. QED
  BY <1>6, <1>7

\* A pattern that is the longest where it begins is masked as a whole.
LEMMA MaskedOnce ==
    ASSUME NEW text, NEW patterns, NEW g, NEW o, NEW w, NEW a, NEW b,
           Stands(text, patterns, g, o, w, a, b), w # << >>, w \in patterns,
           Starts(text, patterns, o + 1) \subseteq 1 .. Len(w)
    PROVE  g[a] = <<MASK>> \o g[b]
<1> DEFINE s == Len(w) i == o + 1 n == LongestAt(text, i, patterns)
<1>. /\ IsSequence(text) /\ Scans(text, patterns, g) /\ o \in Nat /\ IsSequence(w)
     /\ o + Len(w) <= Len(text) /\ \A k \in 1 .. Len(w) : text[o + k] = w[k]
     /\ a = o + 1 /\ b = o + Len(w) + 1
  BY DEF Stands
<1>1. s \in Nat /\ Len(text) \in Nat /\ s # 0
  BY DEF IsSequence
<1>2. i \in 1 .. Len(text) /\ i \in 1 .. Len(text) + 1 /\ s \in 1 .. Len(text) - i + 1
  BY <1>1
<1>3. SubSeq(text, i, i + s - 1) = w
  <2> DEFINE last == i + s - 1 x == SubSeq(text, i, last)
  <2>1. i \in Nat /\ last \in Nat /\ i <= last + 1 /\ last - i + 1 = s
    BY <1>1
  <2> HIDE DEF last
  <2>2. IsSequence(x) /\ Len(x) = last - i + 1 /\ \A k \in 1 .. last - i + 1 : x[k] = text[k + i - 1]
    <3> HIDE DEF i
    <3>1. QED
      BY <2>1, StretchHas
  <2> HIDE DEF x
  <2>3. Len(x) = Len(w) /\ \A k \in 1 .. Len(x) : x[k] = w[k]
    <3>1. \A k \in 1 .. s : k + i - 1 = o + k
      BY <1>1
    <3>2. QED
      BY <2>1, <2>2, <3>1
  <2>4. QED
    BY <2>2, <2>3, SameSequence DEF x, last
<1> HIDE DEF i
<1>4. /\ n \in 0 .. Len(text) - i + 1
      /\ n # 0 => SubSeq(text, i, i + n - 1) \in patterns
      /\ \A m \in 1 .. Len(text) - i + 1 : SubSeq(text, i, i + m - 1) \in patterns => m <= n
  BY <1>2, FoundPattern
<1> HIDE DEF n
<1>5. s <= n /\ n # 0
  <2>1. SubSeq(text, i, i + s - 1) \in patterns
    BY <1>3
  <2>2. s <= n
    BY <1>2, <1>4, <2>1
  <2>3. QED
    BY <1>1, <1>4, <2>2
<1>6. n \in Starts(text, patterns, i)
  BY <1>4, <1>5 DEF Starts
<1>7. n = s
  BY <1>1, <1>5, <1>6 DEF i
<1>8. g[i] = Scan(text, patterns, g, i)
  BY <1>2 DEF Scans
<1>9. ~(i > Len(text))
  BY <1>1, <1>2
<1>10. g[i] = <<MASK>> \o g[i + n]
  BY <1>5, <1>8, <1>9 DEF Scan, n
<1>11. i + n = o + Len(w) + 1
  BY <1>1, <1>7 DEF i
<1>12. QED
  BY <1>10, <1>11 DEF i

\* What is written of a value is there, unless the value is empty.
LEMMA FormWritten ==
    ASSUME NEW value, IsSequence(value), NEW form
    PROVE  IsSequence(InForm(value, form)) /\ (value # << >> => InForm(value, form) # << >>)
<1> DEFINE chars == [i \in DOMAIN value |-> Escaped(value[i], form)]
<1>1. Len(value) \in Nat /\ DOMAIN value = 1 .. Len(value)
  BY LengthOf
<1>2. \A c : IsSequence(Escaped(c, form)) /\ 1 \in DOMAIN Escaped(c, form)
  <2>1. \A x : IsSequence(<<x>>) /\ 1 \in DOMAIN <<x>>
    BY DEF IsSequence, Range
  <2>2. \A x, y : IsSequence(<<x, y>>) /\ 1 \in DOMAIN <<x, y>>
    BY DEF IsSequence, Range
  <2>3. TAKE c
  <2>4. (\E x : Escaped(c, form) = <<x>>) \/ (\E x, y : Escaped(c, form) = <<x, y>>)
    BY DEF Escaped
  <2>5. QED
    BY <2>1, <2>2, <2>4
<1>3. IsSequence(chars) /\ DOMAIN chars = 1 .. Len(value)
  BY <1>1, FunctionIsSequence
<1>4. \A k \in DOMAIN chars : IsSequence(chars[k]) /\ 1 \in DOMAIN chars[k]
  BY <1>1, <1>2
<1>5. InForm(value, form) = FlattenSeq(chars)
  BY DEF InForm
<1> HIDE DEF chars
<1>6. /\ IsSequence(FlattenSeq(chars))
      /\ Range(FlattenSeq(chars)) = UNION {Range(chars[k]) : k \in DOMAIN chars}
  BY <1>3, <1>4, Flattened
<1>7. ASSUME value # << >> PROVE InForm(value, form) # << >>
  <2>1. 1 \in DOMAIN chars
    BY <1>1, <1>3, <1>7 DEF IsSequence
  <2>2. chars[1][1] \in Range(chars[1])
    BY <1>4, <2>1 DEF Range
  <2>3. chars[1][1] \in Range(FlattenSeq(chars))
    BY <1>6, <2>1, <2>2
  <2>4. Range(<< >>) = {}
    BY DEF Range
  <2>5. QED
    BY <1>5, <2>3, <2>4
<1>8. QED
  BY <1>5, <1>6, <1>7

\* What is not to be seen is not empty.
LEMMA SecretIsThere ==
    ASSUME NEW credentials, NEW v \in Secret(credentials)
    PROVE  v # << >>
<1>1. Stripped(<< >>) = << >>
  BY DEF Stripped
<1>2. QED
  BY <1>1 DEF Secret

\* A line whose pieces are credentials or have none in them is masked piece by piece.
LEMMA MaskedByPieces ==
    ASSUME NEW pieces, IsSequence(pieces), \A i \in DOMAIN pieces : IsSequence(pieces[i].value),
           \A i \in DOMAIN pieces : pieces[i].form \in Forms,
           NEW credentials, Separate(pieces, credentials)
    PROVE  Redacted(Line(pieces), credentials) =
              FlattenSeq([i \in DOMAIN pieces |->
                  IF pieces[i].value \in Secret(credentials) THEN <<MASK>>
                  ELSE InForm(pieces[i].value, pieces[i].form)])
<1> DEFINE n == Len(pieces)
           W(i) == InForm(pieces[i].value, pieces[i].form)
           Hidden(i) == pieces[i].value \in Secret(credentials)
           written == [i \in DOMAIN pieces |-> W(i)]
           lines == [i \in DOMAIN pieces |-> IF Hidden(i) THEN <<MASK>> ELSE W(i)]
           text == Line(pieces)
           patterns == SecretForms(credentials)
<1>1. n \in Nat /\ DOMAIN pieces = 1 .. n
  BY LengthOf
<1>2. \A i \in 1 .. n : IsSequence(W(i)) /\ (Hidden(i) => W(i) # << >> /\ W(i) \in patterns)
  <2>1. TAKE i \in 1 .. n
  <2>2. IsSequence(W(i)) /\ (pieces[i].value # << >> => W(i) # << >>)
    BY <1>1, FormWritten
  <2>3. Hidden(i) => pieces[i].value # << >>
    BY SecretIsThere
  <2>4. Hidden(i) => W(i) \in patterns
    BY <1>1 DEF SecretForms
  <2>5. QED
    BY <2>2, <2>3, <2>4
<1>3. /\ IsSequence(written) /\ DOMAIN written = 1 .. n /\ Len(written) = n
      /\ \A i \in 1 .. n : written[i] = W(i)
  BY <1>1, FunctionIsSequence
<1>4. /\ IsSequence(lines) /\ DOMAIN lines = 1 .. n /\ Len(lines) = n
      /\ \A i \in 1 .. n : lines[i] = IF Hidden(i) THEN <<MASK>> ELSE W(i)
  BY <1>1, FunctionIsSequence
<1>5. IsSequence(<<MASK>>)
  BY DEF IsSequence, Range
<1>6. text = FlattenSeq(written)
  BY DEF Line
<1>7. ASSUME NEW i \in 1 .. n
      PROVE  LET o == Len(Line(SubSeq(pieces, 1, i - 1))) IN
                IF Hidden(i) THEN Starts(text, patterns, o + 1) \subseteq 1 .. Len(W(i))
                ELSE \A j \in 1 .. Len(W(i)) : Starts(text, patterns, o + j) = {}
  BY <1>1 DEF Separate, Starts
<1> HIDE DEF written, lines, W, Hidden, text, patterns
<1>8. PICK f : Joins(written, n, f) /\ text = f[n]
  BY <1>2, <1>3, <1>6, FlattenJoins
<1>9. PICK h : Joins(lines, n, h) /\ FlattenSeq(lines) = h[n]
  BY <1>2, <1>4, <1>5, FlattenJoins
<1>10. /\ \A j \in 0 .. n : IsSequence(f[j]) /\ \A i \in 0 .. j :
              Len(f[i]) <= Len(f[j]) /\ \A k \in 1 .. Len(f[i]) : f[j][k] = f[i][k]
       /\ \A j \in 0 .. n : IsSequence(h[j])
  <2>1. \A k \in 1 .. n : IsSequence(written[k])
    BY <1>2, <1>3
  <2>2. \A k \in 1 .. n : IsSequence(lines[k])
    BY <1>2, <1>4, <1>5
  <2> HIDE DEF n
  <2>3. n \in Nat /\ Joins(written, n, f) /\ Joins(lines, n, h)
    BY <1>1, <1>8, <1>9
  <2>4. Extends(n, f)
    BY <2>1, <2>3, JoinedPrefixes
  <2>5. Extends(n, h)
    BY <2>2, <2>3, JoinedPrefixes
  <2>6. QED
    BY <2>4, <2>5 DEF Extends
<1>11. IsSequence(text) /\ Len(text) \in Nat
  BY <1>1, <1>8, <1>10, LengthOf
<1>12. PICK g : Scans(text, patterns, g) /\ Redacted(text, credentials) = g[1]
  BY <1>11, RedactedScans, PatternsAreForms DEF patterns
<1>13. \A i \in 1 .. Len(text) + 1 : IsSequence(g[i])
  BY <1>11, <1>12, PassIsClean DEF Clean
<1> HIDE DEF n
<1>14. ASSUME NEW i \in 1 .. n
       PROVE  /\ Len(f[i - 1]) \in Nat /\ Len(f[i]) = Len(f[i - 1]) + Len(W(i))
              /\ Len(f[i - 1]) + Len(W(i)) <= Len(text)
              /\ \A k \in 1 .. Len(W(i)) : text[Len(f[i - 1]) + k] = W(i)[k]
  <2> DEFINE before == f[i - 1] w == W(i)
  <2>1. i - 1 \in 0 .. n /\ i \in 0 .. n /\ n \in 0 .. n
    BY <1>1
  <2>2. f[i] = before \o w
    BY <1>3, <1>8 DEF Joins
  <2>3. IsSequence(before) /\ IsSequence(w)
    BY <1>2, <1>10, <2>1
  <2> HIDE DEF before, w
  <2>4. /\ Len(f[i]) = Len(before) + Len(w) /\ Len(before) \in Nat /\ Len(w) \in Nat
        /\ \A k \in 1 .. Len(w) : f[i][Len(before) + k] = w[k]
    BY <2>2, <2>3, TwoInOne
  <2>5. Len(f[i]) <= Len(text) /\ \A k \in 1 .. Len(f[i]) : text[k] = f[i][k]
    BY <1>8, <1>10, <2>1
  <2>6. \A k \in 1 .. Len(w) : Len(before) + k \in 1 .. Len(f[i])
    BY <2>4
  <2>7. \A k \in 1 .. Len(w) : text[Len(before) + k] = w[k]
    BY <2>4, <2>5, <2>6
  <2>8. QED
    BY <2>4, <2>5, <2>7 DEF before, w
<1>15. ASSUME NEW i \in 1 .. n PROVE Len(Line(SubSeq(pieces, 1, i - 1))) = Len(f[i - 1])
  <2> DEFINE m == i - 1 short == SubSeq(pieces, 1, m)
             these == [k \in DOMAIN short |-> InForm(short[k].value, short[k].form)]
  <2>1. m \in Nat /\ m <= n
    BY <1>1
  <2> HIDE DEF m
  <2>2. IsSequence(short) /\ Len(short) = m /\ \A k \in 1 .. m : short[k] = pieces[k]
    BY <2>1, FirstHas
  <2>3. Line(short) = FlattenSeq(these)
    BY DEF Line
  <2> HIDE DEF short
  <2>4. DOMAIN short = 1 .. m
    BY <2>2, LengthOf
  <2>5. IsSequence(these) /\ DOMAIN these = 1 .. m /\ Len(these) = m
    BY <2>1, <2>4, FunctionIsSequence
  <2>6. \A k \in 1 .. m : these[k] = written[k] /\ IsSequence(these[k])
    <3>1. TAKE k \in 1 .. m
    <3>2. these[k] = InForm(pieces[k].value, pieces[k].form) /\ k \in 1 .. n
      BY <1>1, <2>1, <2>2, <2>4
    <3>3. QED
      BY <1>2, <1>3, <3>2 DEF W
  <2> HIDE DEF these
  <2>7. PICK e : Joins(these, m, e) /\ FlattenSeq(these) = e[m]
    BY <2>5, <2>6, FlattenJoins
  <2>8. Joins(written, m, f)
    <3>1. \A k \in 1 .. m : k \in 1 .. n
      BY <1>1, <2>1
    <3>2. QED
      BY <1>8, <3>1 DEF Joins
  <2>9. e[m] = f[m]
    BY <2>1, <2>6, <2>7, <2>8, JoinedAlike
  <2>10. QED
    BY <2>3, <2>7, <2>9 DEF short, m
<1>16. ASSUME NEW i \in 1 .. n PROVE g[Len(f[i - 1]) + 1] = lines[i] \o g[Len(f[i]) + 1]
  <2> DEFINE o == Len(f[i - 1]) w == W(i) a == o + 1 b == o + Len(w) + 1
  <2>1. /\ o \in Nat /\ Len(f[i]) = o + Len(w) /\ o + Len(w) <= Len(text) /\ IsSequence(w)
        /\ \A k \in 1 .. Len(w) : text[o + k] = w[k]
        /\ Hidden(i) => w # << >> /\ w \in patterns
    BY <1>2, <1>14
  <2>2. IF Hidden(i) THEN Starts(text, patterns, o + 1) \subseteq 1 .. Len(w)
        ELSE \A j \in 1 .. Len(w) : Starts(text, patterns, o + j) = {}
    BY <1>7, <1>15
  <2>3. lines[i] = IF Hidden(i) THEN <<MASK>> ELSE w
    BY <1>4
  <2> HIDE DEF o, w
  <2>4. Stands(text, patterns, g, o, w, a, b) /\ Len(f[i]) + 1 = b
    BY <1>11, <1>12, <2>1 DEF Stands
  <2> HIDE DEF a, b
  <2>5. CASE Hidden(i)
    <3>1. Starts(text, patterns, o + 1) \subseteq 1 .. Len(w) /\ w # << >> /\ w \in patterns
      BY <2>1, <2>2, <2>5
    <3>2. g[a] = <<MASK>> \o g[b]
      BY <2>4, <3>1, MaskedOnce
    <3>3. QED
      BY <2>3, <2>4, <2>5, <3>2 DEF o, a
  <2>6. CASE ~Hidden(i)
    <3>1. \A j \in 1 .. Len(w) : Starts(text, patterns, o + j) = {}
      BY <2>2, <2>6
    <3>2. g[a] = w \o g[b]
      BY <2>4, <3>1, Copied
    <3>3. QED
      BY <2>3, <2>4, <2>6, <3>2 DEF o, a
  <2>7. QED
    BY <2>5, <2>6
<1> DEFINE P == {j \in 0 .. n : g[1] = h[j] \o g[Len(f[j]) + 1]}
<1>17. 0 \in P
  <2>1. f[0] = << >> /\ h[0] = << >>
    BY <1>8, <1>9 DEF Joins
  <2>2. Len(f[0]) + 1 = 1
    BY <2>1
  <2>3. IsSequence(g[1])
    BY <1>11, <1>13
  <2>4. << >> \o g[1] = g[1]
    BY <2>3, Grouped
  <2>5. 0 \in 0 .. n
    BY <1>1
  <2>6. QED
    BY <2>1, <2>2, <2>4, <2>5
<1>18. ASSUME NEW j \in 0 .. n - 1, j \in P PROVE j + 1 \in P
  <2> DEFINE next == j + 1 rest == g[Len(f[next]) + 1] there == h[j] line == lines[next]
  <2>1. next \in 1 .. n /\ next - 1 = j /\ next \in 0 .. n /\ j \in 0 .. n
    BY <1>1
  <2> HIDE DEF next
  <2>2. g[1] = there \o g[Len(f[j]) + 1] /\ g[Len(f[j]) + 1] = line \o rest
    <3>1. g[Len(f[next - 1]) + 1] = line \o rest
      BY <1>16, <2>1
    <3>2. QED
      BY <1>18, <2>1, <3>1
  <2>3. h[next] = there \o line
    BY <1>9, <2>1 DEF Joins
  <2>4. IsSequence(there) /\ IsSequence(line) /\ IsSequence(rest)
    <3>1. IsSequence(there)
      BY <1>10, <2>1
    <3>2. IsSequence(line)
      BY <1>2, <1>4, <1>5, <2>1
    <3>3. Len(f[next]) \in Nat /\ Len(f[next]) <= Len(text)
      <4>1. Len(f[next]) <= Len(f[n]) /\ IsSequence(f[next])
        <5>1. n \in 0 .. n
          BY <1>1
        <5>2. QED
          BY <1>10, <2>1, <5>1
      <4>2. Len(f[next]) \in Nat
        BY <4>1, LengthOf
      <4>3. QED
        BY <1>8, <4>1, <4>2
    <3>4. Len(f[next]) + 1 \in 1 .. Len(text) + 1
      BY <1>11, <3>3
    <3>5. QED
      BY <1>13, <3>1, <3>2, <3>4
  <2> HIDE DEF rest, there, line
  <2>5. (there \o line) \o rest = there \o (line \o rest)
    BY SMTT(40), <2>4, Grouped
  <2>6. g[1] = h[next] \o rest
    BY <2>2, <2>3, <2>5
  <2>7. QED
    BY <2>1, <2>6 DEF next, rest
<1>19. n \in P
  <2> HIDE DEF P
  <2>1. \A j \in 0 .. n : j \in P
    BY <1>1, <1>17, <1>18, Upward
  <2>2. QED
    BY <1>1, <2>1
<1>20. g[Len(text) + 1] = << >>
  <2> DEFINE last == Len(text) + 1
  <2>1. last \in 1 .. Len(text) + 1 /\ last > Len(text)
    BY <1>11
  <2> HIDE DEF last
  <2>2. g[last] = Scan(text, patterns, g, last)
    BY <1>12, <2>1 DEF Scans
  <2>3. QED
    BY <2>1, <2>2 DEF Scan, last
<1>21. g[1] = h[n]
  <2>1. g[1] = h[n] \o << >>
    BY <1>8, <1>19, <1>20
  <2>2. IsSequence(h[n])
    BY <1>1, <1>10
  <2>3. QED
    BY <2>1, <2>2, Grouped
<1>22. QED
  BY <1>9, <1>12, <1>21 DEF text, lines, W, Hidden

\* What hides credentials hides some of them.
LEMMA HidesFewer ==
    ASSUME NEW all, NEW some, some \subseteq all, NEW text, Hides(text, all)
    PROVE  Hides(text, some)
<1> DEFINE Values(credentials) == {c \in credentials : Stripped(c) # << >>}
           Keys(credentials) == {c \in Values(credentials) : Range(c) \intersect DELIMITERS # {}}
           Kept(l) == Stripped(l) # << >> /\ l[1] \notin DELIMITERS
<1>1. Values(some) \subseteq Values(all)
  OBVIOUS
<1>2. Keys(some) \subseteq Keys(all)
  OBVIOUS
<1>3. \A credentials : Secret(credentials) =
          Values(credentials) \union
          {Stripped(l) : l \in {l \in UNION {Lines(c) : c \in Keys(credentials)} : Kept(l)}}
  BY DEF Secret
<1> HIDE DEF Values, Keys, Kept
<1>4. UNION {Lines(c) : c \in Keys(some)} \subseteq UNION {Lines(c) : c \in Keys(all)}
  BY <1>2
<1>5. Secret(some) \subseteq Secret(all)
  BY <1>1, <1>3, <1>4
<1>6. SecretForms(some) \subseteq SecretForms(all)
  BY <1>5 DEF SecretForms
<1>7. QED
  BY <1>6 DEF Hides

\* Nothing shows nothing.
LEMMA NothingHides ==
    ASSUME NEW credentials
    PROVE  Hides(<< >>, credentials)
<1>1. Len(<< >>) = 0
  OBVIOUS
<1>2. \A value : ~Shows(<< >>, value)
  BY <1>1 DEF Shows
<1>3. QED
  BY <1>2 DEF Hides

\* What a command puts out hides what was registered.
LEMMA CommandHides ==
    ASSUME NEW state, NEW op, MayAnswer(op), IsSequence(op.prints), NEW effect, NEW values
    PROVE  Hides(RunCli(state, op, effect, values).output, values)
<1>1. Hides(Redacted(op.prints, values), values) /\ Hides(<< >>, values)
  BY RedactedHides, NothingHides
<1>2. RunCli(state, op, effect, values).output \in {Redacted(op.prints, values), << >>}
  <2>1. CASE op.answer = "in time"
    BY <2>1 DEF RunCli
  <2>2. CASE op.answer = "late"
    BY <2>2 DEF RunCli
  <2>3. CASE op.answer = "none"
    BY <2>3 DEF RunCli
  <2>4. QED
    BY <2>1, <2>2, <2>3 DEF MayAnswer
<1>3. QED
  BY <1>1, <1>2

\* What outcomes put out.
LEMMA OutcomeShows ==
    ASSUME NEW text, NEW password
    PROVE  /\ Fails(text).output = text /\ Succeeds(text).output = text
           /\ [Succeeds(text) EXCEPT !.password = password].output = text
BY DEF Fails, Succeeds

\* What an action puts out hides what was registered, and the password of the user that it creates.
LEMMA ActHides ==
    ASSUME NEW state, NEW op, IsOperation(op), Runs(op), NEW values
    PROVE  Hides(Act(state, op, values).outcome.output, values \union Generated(op))
<1> DEFINE act == Act(state, op, values)
           hidden == values \union Generated(op)
<1>1. MayAnswer(op) /\ IsSequence(op.prints)
  BY DEF IsOperation
<1>2. CASE op.action = "create-and-promote"
  <2> DEFINE password == IF op.generate THEN op.fresh ELSE NoPassword
             registered == values \union {password}
             result == RunCli(state, op, Account(state, op, password), registered)
             raised == RaiseForStatus(result)
  <2>1. act = OnCreateAndPromoteUser(state, op, values)
    BY <1>2 DEF Act
  <2>2. hidden \subseteq registered
    BY <1>2 DEF Generated
  <2>3. Hides(result.output, registered)
    <3> DEFINE effect == Account(state, op, password)
    <3>1. result = RunCli(state, op, effect, registered)
      OBVIOUS
    <3> HIDE DEF effect, registered, result
    <3>2. QED
      BY <1>1, <3>1, CommandHides
  <2>4. raised.output = result.output
    <3>1. /\ result = [state |-> result.state, code |-> result.code, raised |-> result.raised,
                       output |-> result.output]
          /\ result.raised \in BOOLEAN
      <4> DEFINE effect == Account(state, op, password)
      <4>1. result = RunCli(state, op, effect, registered)
        OBVIOUS
      <4> HIDE DEF effect, registered, result
      <4>2. result = [state |-> result.state, code |-> result.code, raised |-> result.raised,
                      output |-> result.output]
        BY <1>1, <4>1, CommandRecord
      <4>3. result.raised \in BOOLEAN
        BY <1>1, <4>1, CommandRaised
      <4>4. QED
        BY <4>2, <4>3
    <3> HIDE DEF result
    <3>2. QED
      BY <3>1, StatusIsRaised
  <2>5. act.outcome = IF ~op.generate /\ ~op.force THEN Fails(<< >>)
                      ELSE IF raised.raised THEN Fails(raised.output)
                      ELSE [Succeeds(<< >>) EXCEPT !.password = password]
    BY <2>1 DEF OnCreateAndPromoteUser, CreateAndPromoteUser, Ends
  <2> HIDE DEF act, result, raised, password, registered
  <2>6. act.outcome.output \in {<< >>, result.output}
    BY <2>4, <2>5, OutcomeShows
  <2>7. Hides(act.outcome.output, registered)
    BY <2>3, <2>6, NothingHides
  <2> HIDE DEF hidden
  <2>8. Hides(act.outcome.output, hidden)
    BY <2>2, <2>7, HidesFewer
  <2>9. QED
    BY <2>8 DEF act, hidden
<1>3. CASE op.action = "run-maintenance-script"
  <2> DEFINE result == RunCli(state, op, Script(state, op), values)
  <2>1. act = OnRunMaintenanceScript(state, op, values)
    BY <1>3 DEF Act
  <2>2. hidden = values
    BY <1>3 DEF Generated
  <2>3. Hides(result.output, values)
    <3> DEFINE effect == Script(state, op)
    <3>1. result = RunCli(state, op, effect, values)
      OBVIOUS
    <3> HIDE DEF effect, result
    <3>2. QED
      BY <1>1, <3>1, CommandHides
  <2>4. act.outcome = IF Refused(op) THEN Fails(<< >>)
                      ELSE IF result.raised \/ result.code # 0 THEN Fails(result.output)
                      ELSE Succeeds(result.output)
    <3> HIDE DEF result
    <3>1. QED
      BY <2>1 DEF OnRunMaintenanceScript, Ends, result
  <2> HIDE DEF act, result
  <2>5. act.outcome.output \in {<< >>, result.output}
    BY <2>4, OutcomeShows
  <2>6. Hides(act.outcome.output, values)
    BY <2>3, <2>5, NothingHides
  <2>7. QED
    BY <2>2, <2>6 DEF act
<1>4. QED
  BY <1>2, <1>3 DEF Runs

\* What is logged is what is masked of a line of the constants'.
TextInv ==
    subject = "text" =>
        /\ given \in Texts
        /\ made # NONE => made = Redacted(Line(given.pieces), SeededValues(given.model))

\* Nothing was logged at first.
LEMMA InitText == ContentInit => TextInv
BY DEF ContentInit, TextInv

\* TextInv is inductive.
LEMMA NextText == TextInv /\ [ContentNext]_contentVars => TextInv'
<1>1. SUFFICES ASSUME TextInv, [ContentNext]_contentVars, subject' = "text"
               PROVE  /\ given' \in Texts
                      /\ made' # NONE => made' = Redacted(Line(given'.pieces), SeededValues(given'.model))
  BY DEF TextInv
<1>2. subject = "text" /\ given' = given
  BY <1>1 DEF ContentNext, contentVars
<1>3. CASE UNCHANGED contentVars
  BY <1>1, <1>2, <1>3 DEF TextInv, contentVars
<1>4. CASE Log
  BY <1>1, <1>2, <1>4 DEF TextInv, Log
<1>5. QED
  BY <1>1, <1>2, <1>3, <1>4
     DEF ContentNext, ShowBoard, ListDashboards, Scrape, LoadRules, FetchFields, RunActions

\* A line that was logged is masked.
LEMMA LinesAreMasked ==
    ASSUME subject = "text", TextInv, made # NONE
    PROVE  /\ Hides(made, CredentialsIn(given.model))
           /\ Separate(given.pieces, CredentialsIn(given.model)) =>
                made = FlattenSeq([i \in DOMAIN given.pieces |->
                            LET piece == given.pieces[i] IN
                                IF piece.value \in Secret(CredentialsIn(given.model)) THEN <<MASK>>
                                ELSE InForm(piece.value, piece.form)])
<1> DEFINE pieces == given.pieces credentials == CredentialsIn(given.model) text == Line(pieces)
           written == [i \in DOMAIN pieces |-> InForm(pieces[i].value, pieces[i].form)]
<1>1. /\ IsModel(given.model) /\ IsSequence(pieces)
      /\ \A i \in DOMAIN pieces : IsSequence(pieces[i].value) /\ pieces[i].form \in Forms
  BY TextsAssumption DEF TextInv
<1>2. made = Redacted(text, credentials)
  BY <1>1, CredentialsAreRegistered DEF TextInv
<1>3. IsSequence(text)
  <2>1. text = FlattenSeq(written)
    BY DEF Line
  <2>2. Len(pieces) \in Nat /\ DOMAIN pieces = 1 .. Len(pieces)
    BY <1>1, LengthOf
  <2>3. IsSequence(written) /\ DOMAIN written = 1 .. Len(pieces)
    BY <2>2, FunctionIsSequence
  <2>4. \A k \in DOMAIN written : IsSequence(written[k])
    <3>1. \A k \in DOMAIN pieces : IsSequence(InForm(pieces[k].value, pieces[k].form))
      BY <1>1, FormWritten
    <3>2. QED
      BY <2>2, <2>3, <3>1
  <2> HIDE DEF written
  <2>5. QED
    BY <2>1, <2>3, <2>4, Flattened
<1> HIDE DEF pieces, credentials, text
<1>4. Hides(made, credentials)
  BY <1>2, <1>3, RedactedHides
<1>5. ASSUME Separate(pieces, credentials)
      PROVE  made = FlattenSeq([i \in DOMAIN pieces |->
                        IF pieces[i].value \in Secret(credentials) THEN <<MASK>>
                        ELSE InForm(pieces[i].value, pieces[i].form)])
  BY <1>1, <1>2, <1>5, MaskedByPieces DEF text
<1>6. QED
  BY <1>4, <1>5 DEF pieces, credentials

\* What the actions of a session put out is masked.
LEMMA OutputsAreMasked ==
    ASSUME subject = "actions", ActionsInv, made # NONE, NEW k \in DOMAIN made, Runs(given.ops[k])
    PROVE  Hides(made[k].outcome.output, CredentialsIn(given.model) \union Generated(given.ops[k]))
<1> DEFINE op == given.ops[k]
           before == IF k = 1 THEN given.state ELSE made[k - 1].state
           credentials == CredentialsIn(given.model)
<1>1. IsSession(given) /\ Performs(given, made)
  BY DEF ActionsInv
<1>2. k \in 1 .. Len(made) /\ k \in DOMAIN given.ops
  BY <1>1 DEF Performs, IsSession, IsSequence
<1>3. IsOperation(op) /\ Runs(op)
  BY <1>1, <1>2 DEF IsSession
<1>4. SeededValues(given.model) = credentials
  BY <1>1, CredentialsAreRegistered DEF IsSession
<1>5. made[k] = Act(before, op, credentials)
  BY <1>1, <1>2, <1>4 DEF Performs
<1> HIDE DEF op, before, credentials
<1>6. Hides(made[k].outcome.output, credentials \union Generated(op))
  BY <1>3, <1>5, ActHides
<1>7. QED
  BY <1>6 DEF op, credentials

\* No credential that the unit can read is seen in what it logs or in what an action puts out, which
\* does not show the password of the user that it creates either; and nothing else of a line is
\* masked, of any length and of any pieces (log_redaction.py:48, 82, charm.py:257, container.py:38).
THEOREM SecretsStayHidden == ContentSpec => []SecretsAreMasked
<1>1. ContentInit => TextInv /\ ActionsInv
  BY InitText, InitActions
<1>2. TextInv /\ ActionsInv /\ [ContentNext]_contentVars => TextInv' /\ ActionsInv'
  BY NextText, NextActions
<1>3. TextInv /\ ActionsInv => SecretsAreMasked
  BY LinesAreMasked, OutputsAreMasked DEF SecretsAreMasked, Done
<1>4. QED
  BY <1>1, <1>2, <1>3, PTL DEF ContentSpec

(***************************************************************************)
(* Fields of a relation.                                                   *)
(***************************************************************************)

\* What is folded over sets here, by its name.
ApplyTo(c, x, t) ==
    IF c.fold = "update" THEN GroupUpdated(t, x, OfGroup(c.data, x))
    ELSE IF c.fold = "delete" THEN GroupDeleted(t, x, c.fields)
    ELSE With(t, c.contents[x])

\* FoldSet(op, base, set), as its definition has it.
First(s) == CHOOSE x \in s : TRUE
SetStep(c, base, g, s) == IF s = {} THEN base ELSE ApplyTo(c, First(s), g[s \ {First(s)}])
IsSetFold(c, base, S, g) == g = [s \in SUBSET S |-> SetStep(c, base, g, s)]

\* There is a function that takes each subset to what folding over it comes to.
LEMMA SetFoldExists ==
    ASSUME NEW c, NEW base, NEW S, IsFiniteSet(S)
    PROVE  \E g : IsSetFold(c, base, S, g)
<1> DEFINE n == Cardinality(S)
           Small(m) == {s \in SUBSET S : Cardinality(s) <= m}
           IsUpTo(g, m) == g = [s \in Small(m) |-> SetStep(c, base, g, s)]
           P == {m \in 0 .. n : \E g : IsUpTo(g, m)}
<1>1. n \in Nat
  BY FS_CardinalityType
<1>2. ASSUME NEW s \in SUBSET S
      PROVE  /\ IsFiniteSet(s) /\ Cardinality(s) \in Nat /\ Cardinality(s) <= n
             /\ Cardinality(s) = 0 <=> s = {}
             /\ s # {} => Cardinality(s \ {First(s)}) = Cardinality(s) - 1
  <2>1. IsFiniteSet(s) /\ Cardinality(s) <= n
    BY FS_Subset
  <2>2. s # {} => First(s) \in s
    BY DEF First
  <2>3. QED
    BY <2>1, <2>2, FS_CardinalityType, FS_EmptySet, FS_RemoveElement
<1>3. 0 \in P
  <2> DEFINE g == [s \in Small(0) |-> base]
  <2>1. ASSUME NEW s \in Small(0)
        PROVE  s = {}
    <3>1. s \in SUBSET S /\ Cardinality(s) <= 0
      OBVIOUS
    <3>2. Cardinality(s) \in Nat /\ (Cardinality(s) = 0 <=> s = {})
      BY <1>2, <3>1
    <3>3. QED
      BY <3>1, <3>2
  <2>2. g = [s \in Small(0) |-> SetStep(c, base, g, s)]
    BY <2>1 DEF SetStep
  <2> HIDE DEF g
  <2>3. IsUpTo(g, 0)
    BY <2>2
  <2> HIDE DEF IsUpTo
  <2>4. QED
    BY <1>1, <2>3
<1>4. ASSUME NEW m \in 0 .. n - 1, m \in P
      PROVE  m + 1 \in P
  <2>1. PICK f : IsUpTo(f, m)
    BY <1>4
  <2> DEFINE g == [s \in Small(m + 1) |-> SetStep(c, base, f, s)]
  <2>2. ASSUME NEW s \in Small(m + 1)
        PROVE  SetStep(c, base, f, s) = SetStep(c, base, g, s)
    <3>1. CASE s = {}
      BY <3>1 DEF SetStep
    <3>2. CASE s # {}
      <4> DEFINE t == s \ {First(s)}
      <4>1. t \in SUBSET S /\ t \in Small(m) /\ t \in Small(m + 1)
        BY <1>1, <1>2, <3>2
      <4>2. f[t] = SetStep(c, base, f, t)
        BY <2>1, <4>1
      <4>3. g[t] = f[t]
        BY <4>1, <4>2
      <4>4. QED
        BY <3>2, <4>3 DEF SetStep
    <3>3. QED
      BY <3>1, <3>2
  <2>3. g = [s \in Small(m + 1) |-> SetStep(c, base, g, s)]
    BY <2>2
  <2> HIDE DEF g
  <2>4. IsUpTo(g, m + 1)
    BY <2>3
  <2> HIDE DEF IsUpTo
  <2>5. QED
    BY <1>1, <2>4
<1>5. n \in P
  <2> HIDE DEF P, n
  <2>1. n \in 0 .. n
    BY <1>1
  <2>2. QED
    BY <1>1, <1>3, <1>4, <2>1, Upward
<1>6. Small(n) = SUBSET S
  BY <1>2
<1>7. PICK g : IsUpTo(g, n)
  BY <1>5
<1>8. g = [s \in SUBSET S |-> SetStep(c, base, g, s)]
  <2> HIDE DEF Small, n
  <2>1. QED
    BY <1>6, <1>7
<1>9. QED
  BY <1>8 DEF IsSetFold

\* What holds of the empty set, and of each set if it holds of it without any one element, holds of
\* the whole set.
LEMMA Inward ==
    ASSUME NEW S, IsFiniteSet(S), NEW P, {} \in P,
           \A s \in SUBSET S : s # {} /\ (\A x \in s : s \ {x} \in P) => s \in P
    PROVE  S \in P
<1> DEFINE T == {m \in Nat : \E s \in SUBSET S : s \notin P /\ Cardinality(s) = m}
<1>1. ASSUME NEW s \in SUBSET S
      PROVE  /\ IsFiniteSet(s) /\ Cardinality(s) \in Nat
             /\ \A x \in s : Cardinality(s \ {x}) = Cardinality(s) - 1
  <2>1. IsFiniteSet(s)
    BY FS_Subset
  <2>2. QED
    BY <2>1, FS_CardinalityType, FS_RemoveElement
<1>2. SUFFICES ASSUME S \notin P PROVE FALSE
  OBVIOUS
<1>3. T # {}
  <2>1. S \in SUBSET S /\ Cardinality(S) \in Nat
    BY <1>1
  <2>2. Cardinality(S) \in T
    BY <1>2, <2>1
  <2>3. QED
    BY <2>2
<1>4. PICK m \in T : \A k \in T : m <= k
  <2>1. T \subseteq Nat
    OBVIOUS
  <2> HIDE DEF T
  <2>2. QED
    BY <1>3, <2>1, Least
<1>5. PICK s \in SUBSET S : s \notin P /\ Cardinality(s) = m
  BY <1>4
<1>6. s # {}
  BY <1>5
<1>7. ASSUME NEW x \in s
      PROVE  s \ {x} \in P
  <2>1. s \ {x} \in SUBSET S /\ Cardinality(s \ {x}) = m - 1 /\ m - 1 \in Nat
    BY <1>1, <1>5
  <2>2. m - 1 \notin T
    BY <1>4, <2>1
  <2>3. QED
    BY <2>1, <2>2
<1>8. QED
  BY <1>5, <1>6, <1>7

\* A function as it is: of its domain.
IsOf(f) == f = [x \in DOMAIN f |-> f[x]]

\* The content of a group's secret, nothing without one, and all that is known of a relation.
At(r, g) == IF g \in DOMAIN r.uris THEN r.secrets[r.uris[g]].content ELSE NoFields
Known(r) ==
    [f \in DOMAIN r.bag \union {x \in SECRET_FIELDS : x \in DOMAIN At(r, GroupOf(x))} |->
        IF f \in DOMAIN r.bag THEN r.bag[f] ELSE At(r, GroupOf(f))[f]]

\* The parts of a relation.
IsRelation(r) ==
    /\ r = [bag |-> r.bag, uris |-> r.uris, secrets |-> r.secrets, cache |-> r.cache,
            requested |-> r.requested, named |-> r.named, enabled |-> r.enabled]
    /\ IsOf(r.bag) /\ IsOf(r.uris) /\ IsOf(r.cache) /\ IsSequence(r.secrets)
    /\ \A i \in DOMAIN r.secrets : LET secret == r.secrets[i] IN
          secret = [group |-> secret.group, content |-> secret.content] /\ IsOf(secret.content)
    /\ r.named \in BOOLEAN /\ r.enabled \in BOOLEAN

\* The URIs in the databag are those of the secrets that there are, and the cache is what is in them.
IsLinked(r) ==
    /\ \A g \in DOMAIN r.uris :
          /\ r.uris[g] \in DOMAIN r.secrets /\ r.secrets[r.uris[g]].group = g
          /\ At(r, g) # NoFields
          /\ \A f \in DOMAIN At(r, g) : f \in SECRET_FIELDS /\ GroupOf(f) = g
    /\ \A i \in DOMAIN r.secrets : LET secret == r.secrets[i] IN
          secret.content # NoFields => secret.group \in DOMAIN r.uris /\ r.uris[secret.group] = i
    /\ \A g \in DOMAIN r.cache : g \in DOMAIN r.uris /\ r.cache[g] = At(r, g)

\* What is in secrets is not in the databag.
IsSplit(r, asks) ==
    /\ DOMAIN r.uris # {} => r.enabled /\ r.requested = SECRET_FIELDS /\
                             DOMAIN r.bag \intersect SECRET_FIELDS = {}
    /\ r.requested = IF r.named /\ asks THEN SECRET_FIELDS ELSE {}
    /\ ~r.named => DOMAIN r.bag \subseteq EarlyFields

Sound(r, asks) == IsRelation(r) /\ IsLinked(r) /\ IsSplit(r, asks)

\* No field that is wanted in a secret is in the databag.
IsClear(r) == DOMAIN r.bag \intersect r.requested = {}

\* A provider's hooks and what they come to.
Simulates(h, hook, asks, enabled) ==
    /\ h = [now |-> h.now, kept |-> h.kept]
    /\ hook = [now |-> hook.now, kept |-> hook.kept, named |-> hook.named, loose |-> hook.loose]
    /\ hook.loose \in BOOLEAN /\ Sound(h.now, asks) /\ Sound(h.kept, asks)
    /\ h.kept.cache = NoFields
    /\ h.now.named = hook.named /\ h.kept.named = hook.named
    /\ ~hook.loose => hook.now = Known(h.now) /\ hook.kept = Known(h.kept)
    /\ enabled => h.now.enabled /\ IsClear(h.now) /\ h.kept.enabled /\ IsClear(h.kept)

\* Functions of an empty domain are all the same.
LEMMA NothingIsEmpty ==
    ASSUME NEW f, IsOf(f)
    PROVE  f = NoFields <=> DOMAIN f = {}
BY DEF NoFields, IsOf

\* Secrets are found by their labels where URIs are, and read as they are.
LEMMA SecretIsFound ==
    ASSUME NEW r, IsRelation(r), IsLinked(r), NEW g
    PROVE  /\ SecretOf(r, g) = IF g \in DOMAIN r.uris THEN r.uris[g] ELSE 0
           /\ SecretOf(r, g) = 0 <=> g \notin DOMAIN r.uris
           /\ g \in DOMAIN r.uris => ContentOf(r, g) = At(r, g)
           /\ IsOf(At(r, g))
<1> DEFINE found == {i \in DOMAIN r.secrets :
                        r.secrets[i].group = g /\ r.secrets[i].content # NoFields}
<1>1. DOMAIN r.secrets = 1 .. Len(r.secrets) /\ Len(r.secrets) \in Nat
  BY DEF IsRelation, IsSequence
<1>2. CASE g \in DOMAIN r.uris
  <2>1. r.uris[g] \in found /\ r.uris[g] # 0
    BY <1>1, <1>2 DEF IsLinked, At
  <2>2. \A i \in found : i = r.uris[g]
    BY DEF IsLinked
  <2>3. SecretOf(r, g) = r.uris[g]
    BY <2>1, <2>2 DEF SecretOf
  <2>4. ContentOf(r, g) = At(r, g)
    BY <1>2, <2>3 DEF ContentOf, At, IsLinked
  <2>5. IsOf(At(r, g))
    BY <1>2 DEF IsLinked, IsRelation, At
  <2>6. QED
    BY <1>2, <2>1, <2>3, <2>4, <2>5
<1>3. CASE g \notin DOMAIN r.uris
  <2>1. found = {}
    BY <1>3 DEF IsLinked
  <2>2. SecretOf(r, g) = 0
    BY <2>1 DEF SecretOf
  <2>3. IsOf(At(r, g))
    BY <1>3 DEF At, IsOf, NoFields
  <2>4. QED
    BY <1>3, <2>2, <2>3
<1>4. QED
  BY <1>2, <1>3

\* What a group's secret may hold.
IsContent(content, g) ==
    IsOf(content) /\ content # NoFields /\ \A f \in DOMAIN content : f \in SECRET_FIELDS /\ GroupOf(f) = g

\* Only the secret of a group is changed.
OnlyGroup(t, r, g, content) ==
    /\ t.bag = r.bag /\ t.requested = r.requested /\ t.named = r.named /\ t.enabled = r.enabled
    /\ At(t, g) = content /\ \A k : k # g => At(t, k) = At(r, k)

\* A secret is given new content.
LEMMA ContentIsSet ==
    ASSUME NEW r, IsRelation(r), IsLinked(r), NEW g \in DOMAIN r.uris,
           NEW content, IsContent(content, g)
    PROVE  LET t == WithContent(r, g, content) IN
             /\ IsRelation(t) /\ IsLinked(t) /\ DOMAIN t.uris = DOMAIN r.uris
             /\ OnlyGroup(t, r, g, content)
<1> DEFINE n == r.uris[g]
           t == WithContent(r, g, content)
           secrets == [r.secrets EXCEPT ![n].content = content]
           cache == With(r.cache, Only(g, content))
<1>1. SecretOf(r, g) = n
  BY SecretIsFound
<1>2. n \in DOMAIN r.secrets /\ r.secrets[n].group = g
  BY DEF IsLinked
<1>a. t = [r EXCEPT !.secrets = secrets, !.cache = cache]
  BY <1>1 DEF WithContent
<1> HIDE DEF secrets, cache
<1>3. t = [bag |-> r.bag, uris |-> r.uris, secrets |-> secrets, cache |-> cache,
           requested |-> r.requested, named |-> r.named, enabled |-> r.enabled]
  BY <1>a DEF IsRelation
<1>4. /\ t.bag = r.bag /\ t.uris = r.uris /\ t.secrets = secrets /\ t.cache = cache
      /\ t.requested = r.requested /\ t.named = r.named /\ t.enabled = r.enabled
  BY <1>3
<1> HIDE DEF t
<1> USE DEF secrets
<1>5. /\ DOMAIN secrets = DOMAIN r.secrets
      /\ secrets[n] = [group |-> g, content |-> content]
      /\ \A i \in DOMAIN r.secrets : i # n => secrets[i] = r.secrets[i]
  BY <1>2 DEF IsRelation
<1>6. IsSequence(secrets)
  <2> DEFINE m == Len(r.secrets)
  <2>1. m \in Nat /\ DOMAIN r.secrets = 1 .. m
    BY DEF IsRelation, IsSequence
  <2>2. secrets = [i \in 1 .. m |-> secrets[i]]
    BY <2>1
  <2> HIDE DEF m, secrets
  <2>3. QED
    BY <2>1, <2>2, FunctionIsSequence
<1> HIDE DEF secrets
<1>7. /\ DOMAIN cache = DOMAIN r.cache \union {g} /\ cache[g] = content /\ IsOf(cache)
      /\ \A k \in DOMAIN r.cache : k # g => cache[k] = r.cache[k]
  BY DEF With, Only, IsOf, cache
<1>8. IsRelation(t)
  <2>1. ASSUME NEW i \in DOMAIN secrets
        PROVE  secrets[i] = [group |-> secrets[i].group, content |-> secrets[i].content] /\
               IsOf(secrets[i].content)
    <3>1. CASE i = n
      BY <1>5, <3>1 DEF IsContent
    <3>2. CASE i # n
      BY <1>5, <3>2 DEF IsRelation
    <3>3. QED
      BY <3>1, <3>2
  <2>2. QED
    BY <1>3, <1>4, <1>6, <1>7, <2>1 DEF IsRelation
<1>9. At(t, g) = content
  BY <1>4, <1>5 DEF At
<1>10. ASSUME NEW k, k # g
       PROVE  At(t, k) = At(r, k)
  <2>1. k \in DOMAIN r.uris => r.uris[k] # n /\ r.uris[k] \in DOMAIN r.secrets
    BY <1>2, <1>10 DEF IsLinked
  <2>2. QED
    BY <1>4, <1>5, <2>1 DEF At
<1>11. IsLinked(t)
  <2>1. ASSUME NEW k \in DOMAIN t.uris
        PROVE  /\ t.uris[k] \in DOMAIN t.secrets /\ t.secrets[t.uris[k]].group = k
               /\ At(t, k) # NoFields
               /\ \A f \in DOMAIN At(t, k) : f \in SECRET_FIELDS /\ GroupOf(f) = k
    <3>1. CASE k = g
      BY <1>2, <1>4, <1>5, <1>9, <3>1 DEF IsContent
    <3>2. CASE k # g
      <4>1. r.uris[k] # n /\ r.uris[k] \in DOMAIN r.secrets
        BY <1>2, <1>4, <3>2 DEF IsLinked
      <4>2. At(t, k) = At(r, k)
        BY <1>10, <3>2
      <4>3. QED
        BY <1>4, <1>5, <4>1, <4>2 DEF IsLinked
    <3>3. QED
      BY <3>1, <3>2
  <2>2. ASSUME NEW i \in DOMAIN t.secrets, t.secrets[i].content # NoFields
        PROVE  t.secrets[i].group \in DOMAIN t.uris /\ t.uris[t.secrets[i].group] = i
    <3>1. CASE i = n
      BY <1>4, <1>5, <3>1
    <3>2. CASE i # n
      BY <1>4, <1>5, <2>2, <3>2 DEF IsLinked
    <3>3. QED
      BY <3>1, <3>2
  <2>3. ASSUME NEW k \in DOMAIN t.cache
        PROVE  k \in DOMAIN t.uris /\ t.cache[k] = At(t, k)
    <3>1. CASE k = g
      BY <1>4, <1>7, <1>9, <3>1
    <3>2. CASE k # g
      BY <1>4, <1>7, <1>10, <2>3, <3>2 DEF IsLinked
    <3>3. QED
      BY <3>1, <3>2
  <2>4. QED
    BY <2>1, <2>2, <2>3 DEF IsLinked
<1>12. QED
  BY <1>4, <1>8, <1>9, <1>10, <1>11 DEF OnlyGroup, t

\* A secret is added, where there was none.
LEMMA SecretIsAdded ==
    ASSUME NEW r, IsRelation(r), IsLinked(r), NEW g, g \notin DOMAIN r.uris,
           NEW content, IsContent(content, g)
    PROVE  LET t == Added(r, g, content) IN
             /\ IsRelation(t) /\ IsLinked(t) /\ DOMAIN t.uris = DOMAIN r.uris \union {g}
             /\ OnlyGroup(t, r, g, content)
<1> DEFINE n == Len(r.secrets) + 1
           t == Added(r, g, content)
           secret == [group |-> g, content |-> content]
           secrets == Append(r.secrets, secret)
           uris == With(r.uris, Only(g, n))
<1>1. t = [bag |-> r.bag, uris |-> uris, secrets |-> secrets, cache |-> r.cache,
           requested |-> r.requested, named |-> r.named, enabled |-> r.enabled]
  <2> DEFINE new == NewSecret(r, g, content)
             later == With(new.uris, Only(g, n))
  <2>1. new = [r EXCEPT !.secrets = secrets]
    BY DEF NewSecret
  <2>2. t = [new EXCEPT !.uris = later]
    BY DEF Added
  <2> HIDE DEF new, t, secrets
  <2>3. new = [bag |-> r.bag, uris |-> r.uris, secrets |-> secrets, cache |-> r.cache,
               requested |-> r.requested, named |-> r.named, enabled |-> r.enabled]
    BY <2>1 DEF IsRelation
  <2>4. new.uris = r.uris
    BY <2>3
  <2>5. later = uris
    BY <2>4
  <2> HIDE DEF uris, later
  <2>6. t = [bag |-> r.bag, uris |-> later, secrets |-> secrets, cache |-> r.cache,
             requested |-> r.requested, named |-> r.named, enabled |-> r.enabled]
    BY <2>2, <2>3
  <2>7. QED
    BY <2>5, <2>6
<1> HIDE DEF secrets, uris, t
<1>3. /\ t.bag = r.bag /\ t.uris = uris /\ t.secrets = secrets /\ t.cache = r.cache
      /\ t.requested = r.requested /\ t.named = r.named /\ t.enabled = r.enabled
  BY <1>1
<1>4. /\ IsSequence(secrets) /\ DOMAIN secrets = DOMAIN r.secrets \union {n} /\ n \notin DOMAIN r.secrets
      /\ secrets[n] = secret /\ \A i \in DOMAIN r.secrets : secrets[i] = r.secrets[i]
  <2>1. IsSequence(r.secrets) /\ DOMAIN r.secrets = 1 .. Len(r.secrets) /\ Len(r.secrets) \in Nat
    BY DEF IsRelation, IsSequence
  <2> HIDE DEF secret
  <2>2. /\ IsSequence(secrets) /\ Len(secrets) = n /\ secrets[n] = secret
        /\ \A i \in DOMAIN r.secrets : secrets[i] = r.secrets[i]
    BY <2>1, Appended DEF secrets
  <2>3. DOMAIN secrets = 1 .. n
    BY <2>2 DEF IsSequence
  <2>4. QED
    BY <2>1, <2>2, <2>3
<1>5. /\ DOMAIN uris = DOMAIN r.uris \union {g} /\ uris[g] = n /\ IsOf(uris)
      /\ \A k \in DOMAIN r.uris : k # g => uris[k] = r.uris[k]
  BY DEF With, Only, IsOf, uris
<1>6. secret.group = g /\ secret.content = content
  OBVIOUS
<1>7. IsRelation(t)
  <2>1. ASSUME NEW i \in DOMAIN secrets
        PROVE  secrets[i] = [group |-> secrets[i].group, content |-> secrets[i].content] /\
               IsOf(secrets[i].content)
    <3>1. CASE i = n
      BY <1>4, <1>6, <3>1 DEF IsContent
    <3>2. CASE i # n
      BY <1>4, <3>2 DEF IsRelation
    <3>3. QED
      BY <3>1, <3>2
  <2>2. QED
    BY <1>1, <1>3, <1>4, <1>5, <2>1 DEF IsRelation
<1> HIDE DEF secret
<1>8. At(t, g) = content
  BY <1>3, <1>4, <1>5, <1>6 DEF At
<1>9. ASSUME NEW k, k # g
      PROVE  At(t, k) = At(r, k)
  <2>1. k \in DOMAIN r.uris => r.uris[k] \in DOMAIN r.secrets
    BY DEF IsLinked
  <2>2. k \in DOMAIN t.uris <=> k \in DOMAIN r.uris
    BY <1>3, <1>5, <1>9
  <2>3. QED
    BY <1>3, <1>4, <1>5, <1>9, <2>1, <2>2 DEF At
<1>10. IsLinked(t)
  <2>1. ASSUME NEW k \in DOMAIN t.uris
        PROVE  /\ t.uris[k] \in DOMAIN t.secrets /\ t.secrets[t.uris[k]].group = k
               /\ At(t, k) # NoFields
               /\ \A f \in DOMAIN At(t, k) : f \in SECRET_FIELDS /\ GroupOf(f) = k
    <3>1. CASE k = g
      BY <1>3, <1>4, <1>5, <1>6, <1>8, <3>1 DEF IsContent
    <3>2. CASE k # g
      <4>1. k \in DOMAIN r.uris /\ r.uris[k] \in DOMAIN r.secrets /\ t.uris[k] = r.uris[k]
        BY <1>3, <1>5, <3>2 DEF IsLinked
      <4>2. At(t, k) = At(r, k)
        BY <1>9, <3>2
      <4>3. QED
        BY <1>3, <1>4, <4>1, <4>2 DEF IsLinked
    <3>3. QED
      BY <3>1, <3>2
  <2>2. ASSUME NEW i \in DOMAIN t.secrets, t.secrets[i].content # NoFields
        PROVE  t.secrets[i].group \in DOMAIN t.uris /\ t.uris[t.secrets[i].group] = i
    <3>1. CASE i = n
      BY <1>3, <1>4, <1>5, <1>6, <3>1
    <3>2. CASE i # n
      <4>1. i \in DOMAIN r.secrets /\ t.secrets[i] = r.secrets[i]
        BY <1>3, <1>4, <3>2
      <4>2. r.secrets[i].group \in DOMAIN r.uris /\ r.uris[r.secrets[i].group] = i
        BY <2>2, <4>1 DEF IsLinked
      <4>3. QED
        BY <1>3, <1>5, <4>1, <4>2
    <3>3. QED
      BY <3>1, <3>2
  <2>3. ASSUME NEW k \in DOMAIN t.cache
        PROVE  k \in DOMAIN t.uris /\ t.cache[k] = At(t, k)
    <3>1. k \in DOMAIN r.uris /\ r.cache[k] = At(r, k) /\ t.cache[k] = r.cache[k]
      BY <1>3, <2>3 DEF IsLinked
    <3>2. QED
      BY <1>3, <1>5, <1>9, <3>1
  <2>4. QED
    BY <2>1, <2>2, <2>3 DEF IsLinked
<1>11. QED
  BY <1>3, <1>5, <1>7, <1>8, <1>9, <1>10 DEF OnlyGroup, t

\* A secret is removed.
LEMMA SecretIsRemoved ==
    ASSUME NEW r, IsRelation(r), IsLinked(r), NEW g \in DOMAIN r.uris
    PROVE  LET t == Removed(r, g) IN
             /\ IsRelation(t) /\ IsLinked(t) /\ DOMAIN t.uris = DOMAIN r.uris \ {g}
             /\ OnlyGroup(t, r, g, NoFields)
<1> DEFINE n == r.uris[g]
           t == Removed(r, g)
           secrets == [r.secrets EXCEPT ![n].content = NoFields]
           uris == OtherThan(r.uris, {g})
           cache == OtherThan(r.cache, {g})
<1>1. SecretOf(r, g) = n
  BY SecretIsFound
<1>2. n \in DOMAIN r.secrets /\ r.secrets[n].group = g
  BY DEF IsLinked
<1>a. t = [r EXCEPT !.secrets = secrets, !.uris = uris, !.cache = cache]
  BY <1>1 DEF Removed
<1> HIDE DEF secrets, cache, uris, t
<1>3. t = [bag |-> r.bag, uris |-> uris, secrets |-> secrets, cache |-> cache,
           requested |-> r.requested, named |-> r.named, enabled |-> r.enabled]
  BY <1>a DEF IsRelation
<1>4. /\ t.bag = r.bag /\ t.uris = uris /\ t.secrets = secrets /\ t.cache = cache
      /\ t.requested = r.requested /\ t.named = r.named /\ t.enabled = r.enabled
  BY <1>3
<1>5. /\ DOMAIN secrets = DOMAIN r.secrets
      /\ secrets[n] = [group |-> g, content |-> NoFields]
      /\ \A i \in DOMAIN r.secrets : i # n => secrets[i] = r.secrets[i]
  BY <1>2 DEF IsRelation, secrets
<1>6. IsSequence(secrets)
  <2> DEFINE m == Len(r.secrets)
  <2>1. m \in Nat /\ DOMAIN r.secrets = 1 .. m
    BY DEF IsRelation, IsSequence
  <2>2. secrets = [i \in 1 .. m |-> secrets[i]]
    BY <2>1 DEF secrets
  <2> HIDE DEF m
  <2>3. QED
    BY <2>1, <2>2, FunctionIsSequence
<1>7. /\ DOMAIN cache = DOMAIN r.cache \ {g} /\ IsOf(cache)
      /\ \A k \in DOMAIN cache : cache[k] = r.cache[k]
      /\ DOMAIN uris = DOMAIN r.uris \ {g} /\ IsOf(uris)
      /\ \A k \in DOMAIN uris : uris[k] = r.uris[k]
  BY DEF OtherThan, Restrict, IsOf, cache, uris
<1>8. IsRelation(t)
  <2>1. IsOf(NoFields)
    BY DEF IsOf, NoFields
  <2>2. ASSUME NEW i \in DOMAIN secrets
        PROVE  secrets[i] = [group |-> secrets[i].group, content |-> secrets[i].content] /\
               IsOf(secrets[i].content)
    <3>1. CASE i = n
      BY <1>5, <2>1, <3>1
    <3>2. CASE i # n
      BY <1>5, <3>2 DEF IsRelation
    <3>3. QED
      BY <3>1, <3>2
  <2>3. QED
    BY <1>3, <1>4, <1>6, <1>7, <2>2 DEF IsRelation
<1>9. At(t, g) = NoFields
  BY <1>4, <1>7 DEF At
<1>10. ASSUME NEW k, k # g
       PROVE  At(t, k) = At(r, k)
  <2>1. k \in DOMAIN r.uris => r.uris[k] # n /\ r.uris[k] \in DOMAIN r.secrets
    BY <1>2, <1>10 DEF IsLinked
  <2>2. k \in DOMAIN t.uris <=> k \in DOMAIN r.uris
    BY <1>4, <1>7, <1>10
  <2>3. QED
    BY <1>4, <1>5, <1>7, <2>1, <2>2 DEF At
<1>11. IsLinked(t)
  <2>1. ASSUME NEW k \in DOMAIN t.uris
        PROVE  /\ t.uris[k] \in DOMAIN t.secrets /\ t.secrets[t.uris[k]].group = k
               /\ At(t, k) # NoFields
               /\ \A f \in DOMAIN At(t, k) : f \in SECRET_FIELDS /\ GroupOf(f) = k
    <3>1. k \in DOMAIN r.uris /\ k # g /\ t.uris[k] = r.uris[k]
      BY <1>4, <1>7
    <3>2. r.uris[k] # n /\ r.uris[k] \in DOMAIN r.secrets
      BY <1>2, <3>1 DEF IsLinked
    <3>3. At(t, k) = At(r, k)
      BY <1>10, <3>1
    <3>4. QED
      BY <1>4, <1>5, <3>1, <3>2, <3>3 DEF IsLinked
  <2>2. ASSUME NEW i \in DOMAIN t.secrets, t.secrets[i].content # NoFields
        PROVE  t.secrets[i].group \in DOMAIN t.uris /\ t.uris[t.secrets[i].group] = i
    <3>1. i # n /\ i \in DOMAIN r.secrets /\ t.secrets[i] = r.secrets[i]
      BY <1>4, <1>5, <2>2
    <3>2. r.secrets[i].group \in DOMAIN r.uris /\ r.uris[r.secrets[i].group] = i
      BY <2>2, <3>1 DEF IsLinked
    <3>3. QED
      BY <1>4, <1>7, <3>1, <3>2
  <2>3. ASSUME NEW k \in DOMAIN t.cache
        PROVE  k \in DOMAIN t.uris /\ t.cache[k] = At(t, k)
    <3>1. k # g /\ k \in DOMAIN r.cache /\ t.cache[k] = r.cache[k]
      BY <1>4, <1>7
    <3>2. k \in DOMAIN r.uris /\ r.cache[k] = At(r, k)
      BY <3>1 DEF IsLinked
    <3>3. QED
      BY <1>4, <1>7, <1>10, <3>1, <3>2
  <2>4. QED
    BY <2>1, <2>2, <2>3 DEF IsLinked
<1>12. QED
  BY <1>4, <1>7, <1>8, <1>9, <1>10, <1>11 DEF OnlyGroup, t

\* What is left of a secret's content: nothing is taken out of one that has not all of the fields.
Left(content, fields) == IF fields \subseteq DOMAIN content THEN OtherThan(content, fields) ELSE content

\* The fields of a group are written.
LEMMA GroupIsUpdated ==
    ASSUME NEW r, IsRelation(r), IsLinked(r), NEW g, NEW new, IsContent(new, g)
    PROVE  LET t == GroupUpdated(r, g, new) IN
             /\ IsRelation(t) /\ IsLinked(t) /\ DOMAIN t.uris = DOMAIN r.uris \union {g}
             /\ OnlyGroup(t, r, g, With(At(r, g), new))
<1>1. CASE g \in DOMAIN r.uris
  <2> DEFINE content == With(At(r, g), new)
  <2>1. GroupUpdated(r, g, new) = WithContent(r, g, content)
    BY <1>1, SecretIsFound DEF GroupUpdated, Revised
  <2>2. DOMAIN content = DOMAIN At(r, g) \union DOMAIN new /\ IsOf(content)
    BY DEF With, IsOf
  <2>3. DOMAIN new # {}
    BY NothingIsEmpty DEF IsContent
  <2>4. DOMAIN content # {}
    BY <2>2, <2>3
  <2>5. content # NoFields
    <3> HIDE DEF content
    <3>1. QED
      BY <2>2, <2>4, NothingIsEmpty
  <2>6. \A f \in DOMAIN content : f \in SECRET_FIELDS /\ GroupOf(f) = g
    BY <1>1, <2>2 DEF IsLinked, IsContent
  <2> HIDE DEF content
  <2>7. IsContent(content, g)
    BY <2>2, <2>5, <2>6 DEF IsContent
  <2>8. QED
    BY <1>1, <2>1, <2>7, ContentIsSet DEF content
<1>2. CASE g \notin DOMAIN r.uris
  <2>1. GroupUpdated(r, g, new) = Added(r, g, new)
    BY <1>2, SecretIsFound DEF GroupUpdated
  <2>2. At(r, g) = NoFields /\ DOMAIN NoFields = {}
    BY <1>2 DEF At, NoFields
  <2>3. With(At(r, g), new) = [k \in DOMAIN new |-> new[k]]
    BY <2>2 DEF With
  <2>4. With(At(r, g), new) = new
    BY <2>3 DEF IsContent, IsOf
  <2>5. QED
    BY <1>2, <2>1, <2>4, SecretIsAdded
<1>3. QED
  BY <1>1, <1>2

\* Fields are deleted from a group.
LEMMA GroupIsDeleted ==
    ASSUME NEW r, IsRelation(r), IsLinked(r), NEW g, NEW fields
    PROVE  LET t == GroupDeleted(r, g, fields) IN
             /\ IsRelation(t) /\ IsLinked(t) /\ DOMAIN t.uris \subseteq DOMAIN r.uris
             /\ OnlyGroup(t, r, g, Left(At(r, g), fields))
<1> DEFINE t == GroupDeleted(r, g, fields)
           content == At(r, g)
           left == OtherThan(content, fields)
<1>0. DOMAIN left = DOMAIN content \ fields /\ IsOf(left) /\ \A f \in DOMAIN left : left[f] = content[f]
  BY DEF OtherThan, Restrict, IsOf
<1>1. CASE g \notin DOMAIN r.uris
  <2>1. t = r
    BY <1>1, SecretIsFound DEF GroupDeleted
  <2>2. content = NoFields /\ DOMAIN content = {}
    BY <1>1 DEF At, NoFields
  <2>3. DOMAIN left = {}
    BY <1>0, <2>2
  <2>4. left = content
    <3> HIDE DEF left
    <3>1. QED
      BY <1>0, <2>2, <2>3, NothingIsEmpty
  <2>5. Left(content, fields) = content
    BY <2>4 DEF Left
  <2>6. QED
    BY <2>1, <2>5 DEF OnlyGroup
<1>2. CASE g \in DOMAIN r.uris /\ ~(fields \subseteq DOMAIN content)
  <2>1. t = r
    BY <1>2, SecretIsFound DEF GroupDeleted
  <2>2. Left(content, fields) = content
    BY <1>2 DEF Left
  <2>3. QED
    BY <2>1, <2>2 DEF OnlyGroup
<1>3. CASE g \in DOMAIN r.uris /\ DOMAIN content = fields
  <2>1. t = Removed(r, g)
    BY <1>3, SecretIsFound DEF GroupDeleted
  <2>2. DOMAIN left = {}
    BY <1>0, <1>3
  <2>3. left = NoFields
    <3> HIDE DEF left
    <3>1. QED
      BY <1>0, <2>2, NothingIsEmpty
  <2>4. Left(content, fields) = NoFields
    BY <1>3, <2>3 DEF Left
  <2>5. QED
    BY <1>3, <2>1, <2>4, SecretIsRemoved
<1>4. CASE g \in DOMAIN r.uris /\ fields \subseteq DOMAIN content /\ DOMAIN content # fields
  <2>1. t = WithContent(r, g, left)
    BY <1>4, SecretIsFound DEF GroupDeleted
  <2>2. DOMAIN left # {}
    BY <1>0, <1>4
  <2>3. left # NoFields
    <3> HIDE DEF left
    <3>1. QED
      BY <1>0, <2>2, NothingIsEmpty
  <2>4. \A f \in DOMAIN left : f \in SECRET_FIELDS /\ GroupOf(f) = g
    BY <1>0, <1>4 DEF IsLinked
  <2>5. Left(content, fields) = left
    BY <1>4 DEF Left
  <2> HIDE DEF left, content
  <2>6. IsContent(left, g)
    BY <1>0, <2>3, <2>4 DEF IsContent
  <2>7. QED
    BY <1>4, <2>1, <2>5, <2>6, ContentIsSet DEF content
<1>5. QED
  BY <1>1, <1>2, <1>3, <1>4

\* What an operation makes of one group, and of all in a set.
After(c, r, g) ==
    IF c.fold = "update" THEN With(At(r, g), OfGroup(c.data, g)) ELSE Left(At(r, g), c.fields)
Changed(c, s, r, t) ==
    /\ IsRelation(t) /\ IsLinked(t)
    /\ t.bag = r.bag /\ t.requested = r.requested /\ t.named = r.named /\ t.enabled = r.enabled
    /\ DOMAIN t.uris \subseteq DOMAIN r.uris \union (IF c.fold = "update" THEN s ELSE {})
    /\ \A k : At(t, k) = IF k \in s THEN After(c, r, k) ELSE At(r, k)

\* An operation on secrets changes each group once.
LEMMA GroupsAreChanged ==
    ASSUME NEW c, c.fold \in {"update", "delete"}, NEW S, IsFiniteSet(S),
           c.fold = "update" => \A x \in S : IsContent(OfGroup(c.data, x), x),
           NEW r, IsRelation(r), IsLinked(r), NEW g, IsSetFold(c, r, S, g)
    PROVE  Changed(c, S, r, g[S])
<1> DEFINE P == {s \in SUBSET S : Changed(c, s, r, g[s])}
<1>1. {} \in P
  <2>1. {} \in SUBSET S /\ g[{}] = r
    BY DEF IsSetFold, SetStep
  <2>2. Changed(c, {}, r, r)
    BY DEF Changed
  <2>3. QED
    BY <2>1, <2>2
<1>2. ASSUME NEW s \in SUBSET S, s # {}, \A x \in s : s \ {x} \in P
      PROVE  s \in P
  <2> DEFINE x == First(s)
             rest == s \ {x}
             u == g[rest]
             t == g[s]
  <2>1. x \in s /\ x \in S
    BY <1>2 DEF First
  <2>2. t = ApplyTo(c, x, u)
    BY <1>2 DEF IsSetFold, SetStep
  <2>3. Changed(c, rest, r, u)
    BY <1>2, <2>1
  <2> HIDE DEF x, u, t
  <2>4. At(u, x) = At(r, x)
    BY <2>3 DEF Changed
  <2>5. IsRelation(u) /\ IsLinked(u)
    BY <2>3 DEF Changed
  <2>6. /\ IsRelation(t) /\ IsLinked(t)
        /\ DOMAIN t.uris \subseteq DOMAIN u.uris \union (IF c.fold = "update" THEN {x} ELSE {})
        /\ OnlyGroup(t, u, x, After(c, r, x))
    <3>1. CASE c.fold = "update"
      <4>1. t = GroupUpdated(u, x, OfGroup(c.data, x))
        BY <2>2, <3>1 DEF ApplyTo
      <4>2. IsContent(OfGroup(c.data, x), x)
        BY <2>1, <3>1
      <4>3. After(c, r, x) = With(At(u, x), OfGroup(c.data, x))
        BY <2>4, <3>1 DEF After
      <4>4. QED
        BY <2>5, <3>1, <4>1, <4>2, <4>3, GroupIsUpdated
    <3>2. CASE c.fold = "delete"
      <4>1. t = GroupDeleted(u, x, c.fields)
        BY <2>2, <3>2 DEF ApplyTo
      <4>2. After(c, r, x) = Left(At(u, x), c.fields)
        BY <2>4, <3>2 DEF After
      <4>3. QED
        BY <2>5, <3>2, <4>1, <4>2, GroupIsDeleted
    <3>3. QED
      BY <3>1, <3>2
  <2>7. \A k : At(t, k) = IF k \in s THEN After(c, r, k) ELSE At(r, k)
    BY <2>1, <2>3, <2>6 DEF Changed, OnlyGroup
  <2>8. /\ t.bag = r.bag /\ t.requested = r.requested /\ t.named = r.named /\ t.enabled = r.enabled
        /\ DOMAIN t.uris \subseteq DOMAIN r.uris \union (IF c.fold = "update" THEN s ELSE {})
    BY <2>1, <2>3, <2>6 DEF Changed, OnlyGroup
  <2>9. Changed(c, s, r, t)
    BY <2>6, <2>7, <2>8 DEF Changed
  <2>10. QED
    BY <2>9 DEF t
<1>3. S \in P
  <2> HIDE DEF P
  <2>1. QED
    BY <1>1, <1>2, Inward
<1>4. QED
  BY <1>3

\* What folding with GroupUpdated, and with GroupDeleted, comes to.
UpdatedGroups(base, data, S) == FoldSet(LAMBDA g, t : GroupUpdated(t, g, OfGroup(data, g)), base, S)
DeletedGroups(base, fields, S) == FoldSet(LAMBDA g, t : GroupDeleted(t, g, fields), base, S)

\* Folding over groups with GroupUpdated.
LEMMA UpdateFold ==
    ASSUME NEW base, NEW data, NEW S, IsFiniteSet(S)
    PROVE  \E g : /\ IsSetFold([fold |-> "update", data |-> data], base, S, g)
                  /\ UpdatedGroups(base, data, S) = g[S]
<1> DEFINE c == [fold |-> "update", data |-> data]
           Fold(f) == f = [s \in SUBSET S |->
                              IF s = {} THEN base
                              ELSE LET x == CHOOSE x \in s : TRUE IN
                                  GroupUpdated(f[s \ {x}], x, OfGroup(data, x))]
           g == CHOOSE f : Fold(f)
<1>1. UpdatedGroups(base, data, S) = g[S]
  BY DEF UpdatedGroups, FoldSet, MapThenFoldSet
<1>2. \E f : IsSetFold(c, base, S, f)
  BY SetFoldExists
<1>3. \A x, t : ApplyTo(c, x, t) = GroupUpdated(t, x, OfGroup(data, x))
  BY DEF ApplyTo
<1>4. \A f : IsSetFold(c, base, S, f) <=> Fold(f)
  <2> HIDE DEF c
  <2>1. QED
    BY <1>3 DEF IsSetFold, SetStep, First
<1>5. IsSetFold(c, base, S, g)
  <2> HIDE DEF Fold
  <2>1. QED
    BY <1>2, <1>4
<1> HIDE DEF g
<1>6. QED
  BY <1>1, <1>5

\* Folding over groups with GroupDeleted.
LEMMA DeleteFold ==
    ASSUME NEW base, NEW fields, NEW S, IsFiniteSet(S)
    PROVE  \E g : /\ IsSetFold([fold |-> "delete", fields |-> fields], base, S, g)
                  /\ DeletedGroups(base, fields, S) = g[S]
<1> DEFINE c == [fold |-> "delete", fields |-> fields]
           Fold(f) == f = [s \in SUBSET S |->
                              IF s = {} THEN base
                              ELSE LET x == CHOOSE x \in s : TRUE IN GroupDeleted(f[s \ {x}], x, fields)]
           g == CHOOSE f : Fold(f)
<1>1. DeletedGroups(base, fields, S) = g[S]
  BY DEF DeletedGroups, FoldSet, MapThenFoldSet
<1>2. \E f : IsSetFold(c, base, S, f)
  BY SetFoldExists
<1>3. \A x, t : ApplyTo(c, x, t) = GroupDeleted(t, x, fields)
  BY DEF ApplyTo
<1>4. \A f : IsSetFold(c, base, S, f) <=> Fold(f)
  <2> HIDE DEF c
  <2>1. QED
    BY <1>3 DEF IsSetFold, SetStep, First
<1>5. IsSetFold(c, base, S, g)
  <2> HIDE DEF Fold
  <2>1. QED
    BY <1>2, <1>4
<1> HIDE DEF g
<1>6. QED
  BY <1>1, <1>5

\* There are few groups.
LEMMA FewGroups ==
    ASSUME NEW fields
    PROVE  IsFiniteSet(Groups(fields))
<1> DEFINE all == {"user", "tls", "mtls", "entity", "extra"}
<1>1. \A f : GroupOf(f) \in all
  BY DEF GroupOf, SECRET_LABEL_MAP
<1>2. Groups(fields) \subseteq all
  BY <1>1 DEF Groups
<1>3. IsFiniteSet(all)
  <2>1. IsFiniteSet({"user"} \union {"tls"}) /\ IsFiniteSet({"mtls"} \union {"entity"})
    BY FS_Singleton, FS_Union
  <2>2. IsFiniteSet(({"user"} \union {"tls"}) \union ({"mtls"} \union {"entity"}))
    BY <2>1, FS_Union
  <2>3. IsFiniteSet((({"user"} \union {"tls"}) \union ({"mtls"} \union {"entity"})) \union {"extra"})
    BY <2>2, FS_Singleton, FS_Union
  <2>4. all = (({"user"} \union {"tls"}) \union ({"mtls"} \union {"entity"})) \union {"extra"}
    OBVIOUS
  <2>5. QED
    BY <2>3, <2>4
<1> HIDE DEF all
<1>4. QED
  BY <1>2, <1>3, FS_Subset

\* Functions are what they take each element of their domain to.
LEMMA SameFunction ==
    ASSUME NEW f, NEW g, IsOf(f), IsOf(g), DOMAIN f = DOMAIN g, \A x \in DOMAIN f : f[x] = g[x]
    PROVE  f = g
BY DEF IsOf

\* What is known of a relation.
LEMMA KnownFields ==
    ASSUME NEW r
    PROVE  /\ IsOf(Known(r))
           /\ \A f : f \in DOMAIN Known(r) <=>
                        \/ f \in DOMAIN r.bag
                        \/ f \in SECRET_FIELDS /\ f \in DOMAIN At(r, GroupOf(f))
           /\ \A f \in DOMAIN Known(r) :
                Known(r)[f] = IF f \in DOMAIN r.bag THEN r.bag[f] ELSE At(r, GroupOf(f))[f]
BY DEF Known, IsOf

\* A databag is changed, and what is known changes with it where no secret hides it.
LEMMA BagIsSet ==
    ASSUME NEW r, IsRelation(r), IsLinked(r), NEW bag, IsOf(bag)
    PROVE  LET t == [r EXCEPT !.bag = bag] IN
             /\ IsRelation(t) /\ IsLinked(t) /\ t.bag = bag /\ t.uris = r.uris /\ t.secrets = r.secrets
             /\ t.cache = r.cache /\ t.requested = r.requested /\ t.named = r.named
             /\ t.enabled = r.enabled /\ \A g : At(t, g) = At(r, g)
<1> DEFINE t == [r EXCEPT !.bag = bag]
<1>1. t = [bag |-> bag, uris |-> r.uris, secrets |-> r.secrets, cache |-> r.cache,
           requested |-> r.requested, named |-> r.named, enabled |-> r.enabled]
  BY DEF IsRelation
<1>2. /\ t.bag = bag /\ t.uris = r.uris /\ t.secrets = r.secrets /\ t.cache = r.cache
      /\ t.requested = r.requested /\ t.named = r.named /\ t.enabled = r.enabled
  BY <1>1
<1> HIDE DEF t
<1>3. \A g : At(t, g) = At(r, g)
  BY <1>2 DEF At
<1>4. IsLinked(t)
  BY <1>2, <1>3 DEF IsLinked
<1>5. IsRelation(t)
  BY <1>1, <1>2 DEF IsRelation
<1>6. QED
  BY <1>2, <1>3, <1>4, <1>5 DEF t

\* Which fields are looked for in secrets, and where secrets are.
LEMMA WhereSecretsAre ==
    ASSUME NEW asks, NEW r, Sound(r, asks), NEW fields
    PROVE  LET secret == SecretFields(r, fields) IN
             /\ secret \subseteq fields /\ secret \subseteq SECRET_FIELDS
             /\ secret # {} => /\ r.enabled /\ r.requested = SECRET_FIELDS
                               /\ DOMAIN r.bag \intersect SECRET_FIELDS = {}
                               /\ secret = fields \intersect SECRET_FIELDS
             /\ DOMAIN r.uris # {} => secret = fields \intersect SECRET_FIELDS
<1>1. r.requested \subseteq SECRET_FIELDS /\ (r.requested # {} => r.requested = SECRET_FIELDS)
  BY DEF Sound, IsSplit
<1>2. DOMAIN r.uris # {} => r.enabled /\ r.requested = SECRET_FIELDS /\ ~FallsBack(r)
  BY DEF Sound, IsSplit, FallsBack
<1>3. SecretFields(r, fields) # {} =>
        r.enabled /\ ~FallsBack(r) /\ SecretFields(r, fields) = fields \intersect r.requested
  BY DEF SecretFields, LocalSecretFields
<1>4. ~FallsBack(r) /\ r.requested = SECRET_FIELDS => DOMAIN r.bag \intersect SECRET_FIELDS = {}
  BY DEF FallsBack
<1>5. SecretFields(r, fields) # {} => r.requested = SECRET_FIELDS
  BY <1>1, <1>3
<1>6. DOMAIN r.uris # {} => SecretFields(r, fields) = fields \intersect SECRET_FIELDS
  BY <1>2 DEF SecretFields, LocalSecretFields
<1>7. SecretFields(r, fields) \subseteq fields /\ SecretFields(r, fields) \subseteq SECRET_FIELDS
  BY <1>3, <1>5
<1>8. QED
  BY <1>3, <1>4, <1>5, <1>6, <1>7

\* An update leaves a sound relation, and what is known of it is what was and the new data.
LEMMA UpdateIsSound ==
    ASSUME NEW asks, NEW r, Sound(r, asks), NEW data, IsOf(data),
           MayProvide(r.named, DOMAIN data)
    PROVE  LET t == Updated(r, data) IN
             /\ Sound(t, asks) /\ t.named = r.named /\ t.enabled = r.enabled
             /\ Known(t) = With(Known(r), data)
             /\ r.enabled /\ IsClear(r) => IsClear(t)
<1> DEFINE secret == SecretFields(r, DOMAIN data)
           own == Restrict(data, secret)
           S == Groups(secret)
           u == UpdatedGroups(r, own, S)
           c == [fold |-> "update", data |-> own]
           plain == OtherThan(data, secret)
           bag == With(u.bag, plain)
           t == Updated(r, data)
<1>1. t = [u EXCEPT !.bag = bag]
  BY DEF Updated, PlainWritten, UpdatedGroups
<1>2. /\ secret \subseteq DOMAIN data /\ secret \subseteq SECRET_FIELDS
      /\ secret # {} => /\ r.enabled /\ r.requested = SECRET_FIELDS
                        /\ DOMAIN r.bag \intersect SECRET_FIELDS = {}
                        /\ secret = DOMAIN data \intersect SECRET_FIELDS
      /\ DOMAIN r.uris # {} => secret = DOMAIN data \intersect SECRET_FIELDS
  BY WhereSecretsAre
<1>3. IsRelation(r) /\ IsLinked(r) /\ IsSplit(r, asks)
  BY DEF Sound
<1> HIDE DEF secret
<1>4. /\ DOMAIN own = secret /\ \A f \in secret : own[f] = data[f]
      /\ DOMAIN plain = DOMAIN data \ secret /\ \A f \in DOMAIN plain : plain[f] = data[f]
  BY <1>2 DEF Restrict, OtherThan
<1>5. IsFiniteSet(S)
  BY FewGroups
<1> HIDE DEF own, plain
<1>6. ASSUME NEW x
      PROVE  /\ DOMAIN OfGroup(own, x) = {f \in secret : GroupOf(f) = x}
             /\ \A f \in secret : GroupOf(f) = x => OfGroup(own, x)[f] = data[f]
             /\ IsOf(OfGroup(own, x))
  BY <1>4 DEF OfGroup, Restrict, IsOf
<1>7. ASSUME NEW x \in S
      PROVE  IsContent(OfGroup(own, x), x)
  <2>1. DOMAIN OfGroup(own, x) # {}
    BY <1>6 DEF Groups
  <2>2. OfGroup(own, x) # NoFields
    BY <1>6, <2>1, NothingIsEmpty
  <2>3. \A f \in DOMAIN OfGroup(own, x) : f \in SECRET_FIELDS /\ GroupOf(f) = x
    BY ZenonT(40), <1>2, <1>6
  <2>4. QED
    BY <1>6, <2>2, <2>3 DEF IsContent
<1>8. Changed(c, S, r, u)
  <2> HIDE DEF S, u
  <2>1. PICK g : IsSetFold(c, r, S, g) /\ u = g[S]
    BY <1>5, UpdateFold DEF u
  <2>2. c.fold = "update" /\ c.data = own
    OBVIOUS
  <2> HIDE DEF c
  <2>3. Changed(c, S, r, g[S])
    BY <1>3, <1>5, <1>7, <2>1, <2>2, GroupsAreChanged
  <2>4. QED
    BY <2>1, <2>3
<1> HIDE DEF u
<1>9. /\ IsRelation(u) /\ IsLinked(u) /\ u.bag = r.bag /\ u.requested = r.requested
      /\ u.named = r.named /\ u.enabled = r.enabled
      /\ DOMAIN u.uris \subseteq DOMAIN r.uris \union S
      /\ \A k : At(u, k) = IF k \in S THEN With(At(r, k), OfGroup(own, k)) ELSE At(r, k)
  <2>1. c.fold = "update" /\ c.data = own
    OBVIOUS
  <2> HIDE DEF c, S
  <2>2. QED
    BY <1>8, <2>1 DEF Changed, After
<1>10. /\ IsOf(bag) /\ DOMAIN bag = DOMAIN r.bag \union (DOMAIN data \ secret)
       /\ \A f \in DOMAIN bag : bag[f] = IF f \in DOMAIN data \ secret THEN data[f] ELSE r.bag[f]
  BY <1>4, <1>9 DEF With, IsOf
<1> HIDE DEF bag, t
<1>11. /\ IsRelation(t) /\ IsLinked(t) /\ t.bag = bag /\ t.uris = u.uris /\ t.requested = r.requested
       /\ t.named = r.named /\ t.enabled = r.enabled /\ \A k : At(t, k) = At(u, k)
  BY <1>1, <1>9, <1>10, BagIsSet
<1>12. IsSplit(t, asks)
  <2>1. DOMAIN t.uris # {} => r.enabled /\ r.requested = SECRET_FIELDS /\
                              DOMAIN r.bag \intersect SECRET_FIELDS = {} /\
                              secret = DOMAIN data \intersect SECRET_FIELDS
    <3>1. S # {} => secret # {}
      BY DEF Groups
    <3> HIDE DEF S
    <3>2. QED
      BY <1>2, <1>3, <1>9, <1>11, <3>1 DEF IsSplit
  <2>2. ~r.named => DOMAIN data \subseteq EarlyFields /\ DOMAIN r.bag \subseteq EarlyFields
    BY <1>3 DEF MayProvide, IsSplit
  <2>3. ~t.named => DOMAIN t.bag \subseteq EarlyFields
    BY <1>10, <1>11, <2>2
  <2>4. t.requested = IF t.named /\ asks THEN SECRET_FIELDS ELSE {}
    BY <1>3, <1>11 DEF IsSplit
  <2>5. DOMAIN t.uris # {} => DOMAIN t.bag \intersect SECRET_FIELDS = {}
    BY <1>10, <1>11, <2>1
  <2>6. QED
    BY <1>11, <2>1, <2>3, <2>4, <2>5 DEF IsSplit
<1>13. Known(t) = With(Known(r), data)
  <2> DEFINE old == Known(r)
             now == Known(t)
             both == With(old, data)
  <2>1. /\ IsOf(both) /\ DOMAIN both = DOMAIN old \union DOMAIN data
        /\ \A f \in DOMAIN both : both[f] = IF f \in DOMAIN data THEN data[f] ELSE old[f]
    BY DEF With, IsOf
  <2> HIDE DEF both
  <2>2. ASSUME NEW f
        PROVE  /\ f \in DOMAIN At(t, GroupOf(f)) <=> f \in DOMAIN At(r, GroupOf(f)) \/ f \in secret
               /\ f \in secret => At(t, GroupOf(f))[f] = data[f]
               /\ f \in DOMAIN At(r, GroupOf(f)) /\ f \notin secret =>
                     At(t, GroupOf(f))[f] = At(r, GroupOf(f))[f]
    <3> DEFINE k == GroupOf(f)
               new == OfGroup(own, k)
    <3>1. f \in secret => k \in S
      BY DEF Groups
    <3>2. CASE k \in S
      <4>1. At(t, k) = With(At(r, k), new)
        BY <1>9, <1>11, <3>2
      <4>2. f \in DOMAIN new <=> f \in secret
        BY <1>6
      <4>3. f \in secret => new[f] = data[f]
        BY <1>6
      <4> HIDE DEF new
      <4>4. QED
        BY <4>1, <4>2, <4>3 DEF With
    <3>3. CASE k \notin S
      BY <1>9, <1>11, <3>1, <3>3
    <3>4. QED
      BY <3>2, <3>3
  <2>3. \A f : f \in DOMAIN At(r, GroupOf(f)) => DOMAIN r.uris # {}
    BY DEF At, NoFields
  <2>4. ASSUME NEW f
        PROVE  f \in DOMAIN now <=> f \in DOMAIN both
    BY <1>2, <1>10, <1>11, <2>1, <2>2, KnownFields
  <2>5. ASSUME NEW f \in DOMAIN now
        PROVE  now[f] = both[f]
    <3>1. CASE f \in secret
      <4>1. f \notin DOMAIN t.bag /\ f \in DOMAIN data
        BY <1>2, <1>10, <1>11, <3>1
      <4>2. QED
        BY <2>1, <2>2, <2>4, <3>1, <4>1, KnownFields
    <3>2. CASE f \in DOMAIN data \ secret
      BY <1>10, <1>11, <2>1, <2>4, <3>2, KnownFields
    <3>3. CASE f \notin DOMAIN data
      <4>1. f \notin secret /\ f \in DOMAIN old /\ both[f] = old[f]
        BY <1>2, <2>1, <2>4, <3>3
      <4>2. CASE f \in DOMAIN r.bag
        BY <1>10, <1>11, <3>3, <4>1, <4>2, KnownFields
      <4>3. CASE f \notin DOMAIN r.bag
        <5>1. f \notin DOMAIN t.bag
          BY <1>10, <1>11, <3>3, <4>3
        <5>2. QED
          BY <2>2, <4>1, <4>3, <5>1, KnownFields
      <4>4. QED
        BY <4>2, <4>3
    <3>4. QED
      BY <3>1, <3>2, <3>3
  <2>6. IsOf(now) /\ DOMAIN now = DOMAIN both
    BY <2>4, KnownFields
  <2> HIDE DEF now, old
  <2>7. now = both
    BY <2>1, <2>5, <2>6, SameFunction
  <2>8. QED
    BY <2>7 DEF now, both, old
<1>14. ASSUME r.enabled, IsClear(r)
       PROVE  IsClear(t)
  <2>1. secret = DOMAIN data \intersect r.requested
    BY <1>14 DEF secret, SecretFields, LocalSecretFields, FallsBack, IsClear
  <2>2. QED
    BY <1>10, <1>11, <1>14, <2>1 DEF IsClear
<1>15. QED
  BY <1>11, <1>12, <1>13, <1>14 DEF Sound, t

\* Fields of one kind, some of which are looked for in secrets, are all in one of these.
LEMMA OneGroup ==
    ASSUME NEW fields, OneKind(fields), fields \intersect SECRET_FIELDS # {}
    PROVE  /\ fields \subseteq SECRET_FIELDS
           /\ \E g : Groups(fields) = {g} /\ \A f \in fields : GroupOf(f) = g
<1>1. Cardinality(Groups(fields)) = 1
  BY DEF OneKind
<1>2. PICK g : Groups(fields) = {g}
  BY <1>1, FewGroups, FS_Singleton
<1>3. \A f \in fields : GroupOf(f) = g
  BY <1>2 DEF Groups
<1>4. PICK f \in fields : f \in SECRET_FIELDS
  OBVIOUS
<1>5. g = GroupOf(f) /\ g \in {"user", "tls", "entity"}
  BY <1>3, <1>4 DEF GroupOf, SECRET_FIELDS, SECRET_LABEL_MAP
<1>6. \A x : GroupOf(x) \in {"user", "tls", "entity"} => x \in SECRET_FIELDS
  BY DEF GroupOf, SECRET_FIELDS, SECRET_LABEL_MAP
<1>7. QED
  BY <1>2, <1>3, <1>5, <1>6

\* A deletion leaves a sound relation, and of fields of one kind that are all there it leaves none.
LEMMA DeleteIsSound ==
    ASSUME NEW asks, NEW r, Sound(r, asks), NEW fields
    PROVE  LET t == Deleted(r, fields) IN
             /\ Sound(t, asks) /\ t.named = r.named /\ t.enabled = r.enabled
             /\ IsClear(r) => IsClear(t)
             /\ OneKind(fields) /\ fields \subseteq DOMAIN Known(r) =>
                   Known(t) = OtherThan(Known(r), fields)
<1> DEFINE secret == SecretFields(r, fields)
           S == Groups(secret)
           u == DeletedGroups(r, fields, S)
           c == [fold |-> "delete", fields |-> fields]
           bag == OtherThan(u.bag, fields)
           t == Deleted(r, fields)
<1>1. t = [u EXCEPT !.bag = bag]
  BY DEF Deleted, PlainDeleted, DeletedGroups
<1>2. /\ secret \subseteq fields /\ secret \subseteq SECRET_FIELDS
      /\ secret # {} => /\ r.enabled /\ r.requested = SECRET_FIELDS
                        /\ DOMAIN r.bag \intersect SECRET_FIELDS = {}
                        /\ secret = fields \intersect SECRET_FIELDS
      /\ DOMAIN r.uris # {} => secret = fields \intersect SECRET_FIELDS
  BY WhereSecretsAre
<1>3. IsRelation(r) /\ IsLinked(r) /\ IsSplit(r, asks)
  BY DEF Sound
<1> HIDE DEF secret
<1>4. IsFiniteSet(S)
  BY FewGroups
<1>5. Changed(c, S, r, u)
  <2> HIDE DEF S, u
  <2>1. PICK g : IsSetFold(c, r, S, g) /\ u = g[S]
    BY <1>4, DeleteFold DEF u
  <2>2. c.fold = "delete"
    OBVIOUS
  <2> HIDE DEF c
  <2>3. Changed(c, S, r, g[S])
    BY <1>3, <1>4, <2>1, <2>2, GroupsAreChanged
  <2>4. QED
    BY <2>1, <2>3
<1> HIDE DEF u
<1>6. /\ IsRelation(u) /\ IsLinked(u) /\ u.bag = r.bag /\ u.requested = r.requested
      /\ u.named = r.named /\ u.enabled = r.enabled
      /\ DOMAIN u.uris \subseteq DOMAIN r.uris
      /\ \A k : At(u, k) = IF k \in S THEN Left(At(r, k), fields) ELSE At(r, k)
  <2>1. c.fold = "delete" /\ c.fields = fields
    OBVIOUS
  <2> HIDE DEF c, S
  <2>2. QED
    BY <1>5, <2>1 DEF Changed, After
<1>7. IsOf(bag) /\ DOMAIN bag = DOMAIN r.bag \ fields /\ \A f \in DOMAIN bag : bag[f] = r.bag[f]
  BY <1>6 DEF OtherThan, Restrict, IsOf
<1> HIDE DEF bag, t
<1>8. /\ IsRelation(t) /\ IsLinked(t) /\ t.bag = bag /\ t.uris = u.uris /\ t.requested = r.requested
      /\ t.named = r.named /\ t.enabled = r.enabled /\ \A k : At(t, k) = At(u, k)
  BY <1>1, <1>6, <1>7, BagIsSet
<1>9. IsSplit(t, asks) /\ (IsClear(r) => IsClear(t))
  BY <1>3, <1>6, <1>7, <1>8 DEF IsSplit, IsClear
<1>10. ASSUME OneKind(fields), fields \subseteq DOMAIN Known(r)
       PROVE  Known(t) = OtherThan(Known(r), fields)
  <2> DEFINE old == Known(r)
             now == Known(t)
             rest == OtherThan(old, fields)
  <2>1. IsOf(rest) /\ DOMAIN rest = DOMAIN old \ fields /\ \A f \in DOMAIN rest : rest[f] = old[f]
    BY DEF OtherThan, Restrict, IsOf
  <2> HIDE DEF rest
  <2>2. ASSUME NEW f \in SECRET_FIELDS
        PROVE  /\ f \in DOMAIN At(t, GroupOf(f)) <=> f \in DOMAIN At(r, GroupOf(f)) \ fields
               /\ f \in DOMAIN At(r, GroupOf(f)) \ fields =>
                     At(t, GroupOf(f))[f] = At(r, GroupOf(f))[f]
    <3> DEFINE k == GroupOf(f)
    <3>1. CASE secret = {}
      <4>1. At(t, k) = At(r, k)
        BY <1>6, <1>8, <3>1 DEF Groups
      <4>2. f \in DOMAIN At(r, k) => DOMAIN r.uris # {}
        BY DEF At, NoFields
      <4>3. f \in DOMAIN At(r, k) => f \notin fields
        BY <1>2, <3>1, <4>2
      <4>4. QED
        BY <4>1, <4>3
    <3>2. CASE secret # {}
      <4>1. PICK g : Groups(fields) = {g} /\ \A x \in fields : GroupOf(x) = g
        BY <1>2, <1>10, <3>2, OneGroup
      <4>2. fields \subseteq SECRET_FIELDS /\ secret = fields
        BY <1>2, <1>10, <3>2, OneGroup
      <4>3. S = {g}
        BY <4>1, <4>2
      <4>4. fields \subseteq DOMAIN At(r, g)
        BY <1>2, <1>10, <3>2, <4>1, <4>2, KnownFields
      <4>5. At(t, g) = OtherThan(At(r, g), fields)
        BY <1>6, <1>8, <4>3, <4>4 DEF Left
      <4>6. CASE k = g
        BY <4>5, <4>6 DEF OtherThan, Restrict
      <4>7. CASE k # g
        <5>1. At(t, k) = At(r, k) /\ f \notin fields
          BY <1>6, <1>8, <4>1, <4>3, <4>7
        <5>2. QED
          BY <5>1
      <4>8. QED
        BY <4>6, <4>7
    <3>3. QED
      BY <3>1, <3>2
  <2>3. ASSUME NEW f
        PROVE  f \in DOMAIN now <=> f \in DOMAIN rest
    BY <1>7, <1>8, <2>1, <2>2, KnownFields
  <2>4. ASSUME NEW f \in DOMAIN now
        PROVE  now[f] = rest[f]
    <3>1. f \in DOMAIN old /\ f \notin fields /\ rest[f] = old[f]
      BY <2>1, <2>3
    <3>2. QED
      BY <1>7, <1>8, <2>2, <3>1, KnownFields
  <2>5. IsOf(now) /\ DOMAIN now = DOMAIN rest
    BY <2>3, KnownFields
  <2> HIDE DEF now, old
  <2>6. now = rest
    BY <2>1, <2>4, <2>5, SameFunction
  <2>7. QED
    BY <2>6 DEF now, rest, old
<1>11. QED
  BY <1>8, <1>9, <1>10 DEF Sound, t

\* A relation with some of its parts changed.
LEMMA PartsAreSet ==
    ASSUME NEW r, IsRelation(r), NEW x, NEW y
    PROVE  /\ [r EXCEPT !.enabled = x] =
                [bag |-> r.bag, uris |-> r.uris, secrets |-> r.secrets, cache |-> r.cache,
                 requested |-> r.requested, named |-> r.named, enabled |-> x]
           /\ [r EXCEPT !.named = x, !.requested = y] =
                [bag |-> r.bag, uris |-> r.uris, secrets |-> r.secrets, cache |-> r.cache,
                 requested |-> y, named |-> x, enabled |-> r.enabled]
<1>1. r = [bag |-> r.bag, uris |-> r.uris, secrets |-> r.secrets, cache |-> r.cache,
           requested |-> r.requested, named |-> r.named, enabled |-> r.enabled]
  BY DEF IsRelation
<1>2. [r EXCEPT !.enabled = x] =
        [bag |-> r.bag, uris |-> r.uris, secrets |-> r.secrets, cache |-> r.cache,
         requested |-> r.requested, named |-> r.named, enabled |-> x]
  BY <1>1
<1> DEFINE t == [r EXCEPT !.named = x, !.requested = y]
<1>3. t = [bag |-> r.bag, uris |-> r.uris, secrets |-> r.secrets, cache |-> r.cache,
           requested |-> y, named |-> x, enabled |-> r.enabled]
  <2> DEFINE parts == {"bag", "uris", "secrets", "cache", "requested", "named", "enabled"}
  <2>1. DOMAIN r = parts
    BY <1>1
  <2>2. t = [f \in parts |-> IF f = "requested" THEN y ELSE IF f = "named" THEN x ELSE r[f]]
    BY <2>1
  <2>3. QED
    BY <2>2
<1>4. QED
  BY <1>2, <1>3

\* Between two hooks the cache is forgotten.
LEMMA CacheIsForgotten ==
    ASSUME NEW asks, NEW r, Sound(r, asks)
    PROVE  LET t == [r EXCEPT !.cache = NoFields] IN
             /\ Sound(t, asks) /\ t.cache = NoFields /\ t.named = r.named /\ t.enabled = r.enabled
             /\ Known(t) = Known(r) /\ (IsClear(r) => IsClear(t))
<1> DEFINE t == [r EXCEPT !.cache = NoFields]
<1>1. t = [bag |-> r.bag, uris |-> r.uris, secrets |-> r.secrets, cache |-> NoFields,
           requested |-> r.requested, named |-> r.named, enabled |-> r.enabled]
  BY DEF Sound, IsRelation
<1>2. /\ t.bag = r.bag /\ t.uris = r.uris /\ t.secrets = r.secrets /\ t.cache = NoFields
      /\ t.requested = r.requested /\ t.named = r.named /\ t.enabled = r.enabled
  BY <1>1
<1> HIDE DEF t
<1>3. \A g : At(t, g) = At(r, g)
  BY <1>2 DEF At
<1>4. DOMAIN NoFields = {} /\ IsOf(NoFields)
  BY DEF NoFields, IsOf
<1>5. IsLinked(t)
  BY <1>2, <1>3, <1>4 DEF Sound, IsLinked
<1>6. IsRelation(t)
  BY <1>1, <1>2, <1>4 DEF Sound, IsRelation
<1>7. IsSplit(t, asks)
  BY <1>2 DEF Sound, IsSplit
<1>8. Known(t) = Known(r)
  BY <1>2, <1>3 DEF Known
<1>9. QED
  BY <1>2, <1>5, <1>6, <1>7, <1>8 DEF Sound, IsClear, t

\* The requirer names its database and what it wants in secrets.
LEMMA RelationIsRequested ==
    ASSUME NEW asks \in BOOLEAN, NEW r, Sound(r, asks)
    PROVE  LET t == Requested(r, asks) IN
             /\ Sound(t, asks) /\ t.cache = r.cache /\ t.named = TRUE /\ t.enabled = r.enabled
             /\ Known(t) = Known(r) /\ (IsClear(r) => IsClear(t))
<1> DEFINE wanted == IF asks THEN SECRET_FIELDS ELSE {}
           t == Requested(r, asks)
<1>1. t = [bag |-> r.bag, uris |-> r.uris, secrets |-> r.secrets, cache |-> r.cache,
           requested |-> wanted, named |-> TRUE, enabled |-> r.enabled]
  BY PartsAreSet DEF Sound, Requested
<1>2. /\ t.bag = r.bag /\ t.uris = r.uris /\ t.secrets = r.secrets /\ t.cache = r.cache
      /\ t.requested = wanted /\ t.named = TRUE /\ t.enabled = r.enabled
  BY <1>1
<1> HIDE DEF t
<1>3. \A g : At(t, g) = At(r, g)
  BY <1>2 DEF At
<1>4. IsLinked(t)
  BY <1>2, <1>3 DEF Sound, IsLinked
<1>5. IsRelation(t)
  BY <1>1, <1>2 DEF Sound, IsRelation
<1>6. EarlyFields \intersect SECRET_FIELDS = {} /\ SECRET_FIELDS # {}
  <2>1. "tls" \in SECRET_FIELDS
    BY DEF SECRET_FIELDS, SECRET_LABEL_MAP
  <2>2. EarlyFields \intersect SECRET_FIELDS = {}
    BY DEF EarlyFields, SECRET_FIELDS, SECRET_LABEL_MAP
  <2>3. QED
    BY <2>1, <2>2
<1>7. IsSplit(t, asks)
  BY <1>2, <1>6 DEF Sound, IsSplit
<1>8. IsClear(r) => IsClear(t)
  BY <1>2, <1>6 DEF Sound, IsSplit, IsClear
<1>9. Known(t) = Known(r)
  BY <1>2, <1>3 DEF Known
<1>10. QED
  BY <1>2, <1>4, <1>5, <1>7, <1>8, <1>9 DEF Sound, t

\* The provider's Juju comes to have secrets.
LEMMA RelationIsEnabled ==
    ASSUME NEW asks, NEW r, Sound(r, asks)
    PROVE  LET t == [r EXCEPT !.enabled = TRUE] IN
             /\ Sound(t, asks) /\ t.cache = r.cache /\ t.named = r.named /\ t.enabled = TRUE
             /\ Known(t) = Known(r) /\ (IsClear(r) => IsClear(t))
<1> DEFINE t == [r EXCEPT !.enabled = TRUE]
<1>1. t = [bag |-> r.bag, uris |-> r.uris, secrets |-> r.secrets, cache |-> r.cache,
           requested |-> r.requested, named |-> r.named, enabled |-> TRUE]
  BY PartsAreSet DEF Sound
<1>2. /\ t.bag = r.bag /\ t.uris = r.uris /\ t.secrets = r.secrets /\ t.cache = r.cache
      /\ t.requested = r.requested /\ t.named = r.named /\ t.enabled = TRUE
  BY <1>1
<1> HIDE DEF t
<1>3. \A g : At(t, g) = At(r, g)
  BY <1>2 DEF At
<1>4. IsLinked(t)
  BY <1>2, <1>3 DEF Sound, IsLinked
<1>5. IsRelation(t)
  BY <1>1, <1>2 DEF Sound, IsRelation
<1>6. IsSplit(t, asks)
  BY <1>2 DEF Sound, IsSplit
<1>7. Known(t) = Known(r)
  BY <1>2, <1>3 DEF Known
<1>8. QED
  BY <1>2, <1>4, <1>5, <1>6, <1>7 DEF Sound, IsClear, t

\* Each of a provider's operations comes to what it is meant to.
LEMMA OperationIsIntended ==
    ASSUME NEW asks \in BOOLEAN, NEW enabled, NEW h, NEW hook, Simulates(h, hook, asks, enabled),
           NEW op, op.kind = "update" => IsOf(op.data)
    PROVE  Simulates(Operate(h, op, asks), Intended(hook, op), asks, enabled)
<1> SUFFICES ASSUME NEW t, t = Operate(h, op, asks), NEW k, k = Intended(hook, op)
             PROVE  Simulates(t, k, asks, enabled)
  OBVIOUS
<1> DEFINE mayUpdate == h.now.named \/ DOMAIN op.data \subseteq EarlyFields
<1>1. /\ h = [now |-> h.now, kept |-> h.kept]
      /\ hook = [now |-> hook.now, kept |-> hook.kept, named |-> hook.named, loose |-> hook.loose]
      /\ Sound(h.now, asks) /\ Sound(h.kept, asks) /\ h.kept.cache = NoFields
      /\ h.now.named = hook.named /\ h.kept.named = hook.named
      /\ ~hook.loose => hook.now = Known(h.now) /\ hook.kept = Known(h.kept)
      /\ enabled => h.now.enabled /\ IsClear(h.now) /\ h.kept.enabled /\ IsClear(h.kept)
      /\ hook.loose \in BOOLEAN /\ hook.named \in BOOLEAN
  BY DEF Simulates, Sound, IsRelation
<1> DEFINE between == [h.now EXCEPT !.cache = NoFields]
<1>2. /\ Sound(between, asks) /\ between.cache = NoFields /\ between.named = h.now.named
      /\ between.enabled = h.now.enabled /\ Known(between) = Known(h.now)
      /\ IsClear(h.now) => IsClear(between)
  BY <1>1, CacheIsForgotten
<1>3. CASE op.kind \in {"update", "delete"} /\ ~op.leads
  <2>1. t = h /\ k = hook
    BY <1>3 DEF Operate, LeaderOnly, Intended
  <2>2. QED
    BY <2>1
<1>4. CASE op.kind = "update" /\ op.leads /\ mayUpdate
  <2> DEFINE new == Updated(h.now, op.data)
  <2>1. t = [now |-> new, kept |-> h.kept]
    BY <1>1, <1>4 DEF Operate, LeaderOnly, MayProvide
  <2>2. k = [now |-> With(hook.now, op.data), kept |-> hook.kept, named |-> hook.named,
             loose |-> hook.loose]
    BY <1>1, <1>4 DEF Intended, With
  <2>3. /\ Sound(new, asks) /\ new.named = h.now.named /\ new.enabled = h.now.enabled
        /\ Known(new) = With(Known(h.now), op.data)
        /\ h.now.enabled /\ IsClear(h.now) => IsClear(new)
    BY <1>1, <1>4, UpdateIsSound DEF MayProvide
  <2> HIDE DEF new
  <2>4. t = [now |-> t.now, kept |-> t.kept] /\ t.now = new /\ t.kept = h.kept
    BY <2>1
  <2>5. /\ k = [now |-> k.now, kept |-> k.kept, named |-> k.named, loose |-> k.loose]
        /\ k.now = With(hook.now, op.data) /\ k.kept = hook.kept /\ k.named = hook.named
        /\ k.loose = hook.loose
    BY <1>1, <2>2
  <2>6. QED
    BY <1>1, <2>1, <2>3, <2>4, <2>5 DEF Simulates
<1>5. CASE op.kind = "delete" /\ op.leads
  <2> DEFINE new == Deleted(h.now, op.fields)
             tight == OneKind(op.fields) /\ op.fields \subseteq DOMAIN hook.now
  <2>1. t = [now |-> new, kept |-> h.kept]
    BY <1>1, <1>5 DEF Operate, LeaderOnly
  <2>2. k = [now |-> OtherThan(hook.now, op.fields), kept |-> hook.kept, named |-> hook.named,
             loose |-> hook.loose \/ ~tight]
    BY <1>1, <1>5 DEF Intended
  <2>3. /\ Sound(new, asks) /\ new.named = h.now.named /\ new.enabled = h.now.enabled
        /\ IsClear(h.now) => IsClear(new)
        /\ OneKind(op.fields) /\ op.fields \subseteq DOMAIN Known(h.now) =>
              Known(new) = OtherThan(Known(h.now), op.fields)
    BY <1>1, DeleteIsSound
  <2> HIDE DEF new
  <2>4. t = [now |-> t.now, kept |-> t.kept] /\ t.now = new /\ t.kept = h.kept
    BY <2>1
  <2>5. /\ k = [now |-> k.now, kept |-> k.kept, named |-> k.named, loose |-> k.loose]
        /\ k.now = OtherThan(hook.now, op.fields) /\ k.kept = hook.kept /\ k.named = hook.named
        /\ k.loose = (hook.loose \/ ~tight)
    BY <1>1, <2>2
  <2>6. QED
    BY <1>1, <2>1, <2>3, <2>4, <2>5 DEF Simulates
<1>6. CASE op.kind = "end"
  <2>1. t = [now |-> between, kept |-> between]
    BY <1>6 DEF Operate, HookEnds
  <2>2. k = [now |-> hook.now, kept |-> hook.now, named |-> hook.named, loose |-> hook.loose]
    BY <1>1, <1>6 DEF Intended
  <2> HIDE DEF between
  <2>3. t = [now |-> t.now, kept |-> t.kept] /\ t.now = between /\ t.kept = between
    BY <2>1
  <2>4. /\ k = [now |-> k.now, kept |-> k.kept, named |-> k.named, loose |-> k.loose]
        /\ k.now = hook.now /\ k.kept = hook.now /\ k.named = hook.named /\ k.loose = hook.loose
    BY <1>1, <2>2
  <2>5. QED
    BY <1>1, <1>2, <2>1, <2>3, <2>4 DEF Simulates
<1>7. CASE op.kind = "request"
  <2> DEFINE new == Requested(between, asks)
  <2>1. t = [now |-> new, kept |-> new]
    BY <1>7 DEF Operate, HookEnds
  <2>2. k = [now |-> hook.now, kept |-> hook.now, named |-> TRUE, loose |-> hook.loose]
    BY <1>1, <1>7 DEF Intended
  <2> HIDE DEF between
  <2>3. /\ Sound(new, asks) /\ new.cache = between.cache /\ new.named = TRUE
        /\ new.enabled = between.enabled
        /\ Known(new) = Known(between) /\ (IsClear(between) => IsClear(new))
    BY <1>2, RelationIsRequested
  <2> HIDE DEF new
  <2>4. t = [now |-> t.now, kept |-> t.kept] /\ t.now = new /\ t.kept = new
    BY <2>1
  <2>5. /\ k = [now |-> k.now, kept |-> k.kept, named |-> k.named, loose |-> k.loose]
        /\ k.now = hook.now /\ k.kept = hook.now /\ k.named = TRUE /\ k.loose = hook.loose
    BY <1>1, <2>2
  <2>6. QED
    BY <1>1, <1>2, <2>1, <2>3, <2>4, <2>5 DEF Simulates
<1>8. CASE op.kind = "enable"
  <2> DEFINE new == [between EXCEPT !.enabled = TRUE]
  <2>1. t = [now |-> new, kept |-> new]
    BY <1>8 DEF Operate, HookEnds
  <2>2. k = [now |-> hook.now, kept |-> hook.now, named |-> hook.named, loose |-> hook.loose]
    BY <1>1, <1>8 DEF Intended
  <2> HIDE DEF between
  <2>3. /\ Sound(new, asks) /\ new.cache = between.cache /\ new.named = between.named
        /\ new.enabled = TRUE
        /\ Known(new) = Known(between) /\ (IsClear(between) => IsClear(new))
    BY <1>2, RelationIsEnabled
  <2> HIDE DEF new
  <2>4. t = [now |-> t.now, kept |-> t.kept] /\ t.now = new /\ t.kept = new
    BY <2>1
  <2>5. /\ k = [now |-> k.now, kept |-> k.kept, named |-> k.named, loose |-> k.loose]
        /\ k.now = hook.now /\ k.kept = hook.now /\ k.named = hook.named /\ k.loose = hook.loose
    BY <1>1, <2>2
  <2>6. QED
    BY <1>1, <1>2, <2>1, <2>3, <2>4, <2>5 DEF Simulates
<1>9. CASE \/ op.kind = "update" /\ op.leads /\ ~mayUpdate
           \/ op.kind \notin {"update", "delete", "end", "request", "enable"}
  <2>1. t = [now |-> h.kept, kept |-> h.kept]
    BY <1>1, <1>9 DEF Operate, LeaderOnly, HookFails, MayProvide
  <2>2. k = [now |-> hook.kept, kept |-> hook.kept, named |-> hook.named, loose |-> hook.loose]
    BY <1>1, <1>9 DEF Intended
  <2>3. t = [now |-> t.now, kept |-> t.kept] /\ t.now = h.kept /\ t.kept = h.kept
    BY <2>1
  <2>4. /\ k = [now |-> k.now, kept |-> k.kept, named |-> k.named, loose |-> k.loose]
        /\ k.now = hook.kept /\ k.kept = hook.kept /\ k.named = hook.named /\ k.loose = hook.loose
    BY <1>1, <2>2
  <2>5. QED
    BY <1>1, <2>1, <2>3, <2>4 DEF Simulates
<1>10. QED
  BY <1>3, <1>4, <1>5, <1>6, <1>7, <1>8, <1>9

\* What is read of the secrets of groups.
ReadGroups(contents, S) == FoldSet(LAMBDA g, found : With(found, contents[g]), NoFields, S)

\* Folding over groups with With.
LEMMA ReadFold ==
    ASSUME NEW contents, NEW S, IsFiniteSet(S)
    PROVE  \E g : /\ IsSetFold([fold |-> "read", contents |-> contents], NoFields, S, g)
                  /\ ReadGroups(contents, S) = g[S]
<1> DEFINE c == [fold |-> "read", contents |-> contents]
           base == NoFields
           Fold(f) == f = [s \in SUBSET S |->
                              IF s = {} THEN base
                              ELSE LET x == CHOOSE x \in s : TRUE IN With(f[s \ {x}], contents[x])]
           g == CHOOSE f : Fold(f)
<1>1. ReadGroups(contents, S) = g[S]
  BY DEF ReadGroups, FoldSet, MapThenFoldSet
<1>2. \E f : IsSetFold(c, base, S, f)
  BY SetFoldExists
<1>3. \A x, t : ApplyTo(c, x, t) = With(t, contents[x])
  BY DEF ApplyTo
<1>4. \A f : IsSetFold(c, base, S, f) <=> Fold(f)
  <2> HIDE DEF c, base
  <2>1. QED
    BY <1>3 DEF IsSetFold, SetStep, First
<1>5. IsSetFold(c, base, S, g)
  <2> HIDE DEF Fold
  <2>1. QED
    BY <1>2, <1>4
<1> HIDE DEF g
<1>6. QED
  BY <1>1, <1>5

\* What is found in secrets of groups.
IsFound(found, contents, s) ==
    /\ IsOf(found)
    /\ \A f : f \in DOMAIN found <=> GroupOf(f) \in s /\ f \in DOMAIN contents[GroupOf(f)]
    /\ \A f \in DOMAIN found : found[f] = contents[GroupOf(f)][f]

\* The fields of all groups are found, where each group has fields of its own.
LEMMA AllGroupsAreRead ==
    ASSUME NEW contents, NEW S, IsFiniteSet(S),
           \A g \in S : \A f \in DOMAIN contents[g] : GroupOf(f) = g
    PROVE  IsFound(ReadGroups(contents, S), contents, S)
<1> DEFINE c == [fold |-> "read", contents |-> contents]
<1>1. PICK h : IsSetFold(c, NoFields, S, h) /\ ReadGroups(contents, S) = h[S]
  BY ReadFold
<1> DEFINE P == {s \in SUBSET S : IsFound(h[s], contents, s)}
<1>2. c.fold = "read" /\ c.contents = contents
  OBVIOUS
<1> HIDE DEF c
<1>3. {} \in P
  <2>1. {} \in SUBSET S /\ h[{}] = NoFields
    BY <1>1 DEF IsSetFold, SetStep
  <2>2. IsFound(NoFields, contents, {})
    BY DEF IsFound, IsOf, NoFields
  <2>3. QED
    BY <2>1, <2>2
<1>4. ASSUME NEW s \in SUBSET S, s # {}, \A x \in s : s \ {x} \in P
      PROVE  s \in P
  <2> DEFINE x == First(s)
             rest == s \ {x}
             u == h[rest]
             t == h[s]
  <2>1. x \in s /\ x \in S
    BY <1>4 DEF First
  <2>2. t = With(u, contents[x])
    BY <1>1, <1>2, <1>4 DEF IsSetFold, SetStep, ApplyTo
  <2>3. IsFound(u, contents, rest)
    BY <1>4, <2>1
  <2> HIDE DEF x, u, t
  <2>4. /\ IsOf(t) /\ DOMAIN t = DOMAIN u \union DOMAIN contents[x]
        /\ \A f \in DOMAIN t : t[f] = IF f \in DOMAIN contents[x] THEN contents[x][f] ELSE u[f]
    BY <2>2 DEF With, IsOf
  <2>5. ASSUME NEW f
        PROVE  f \in DOMAIN t <=> GroupOf(f) \in s /\ f \in DOMAIN contents[GroupOf(f)]
    BY <2>1, <2>3, <2>4 DEF IsFound
  <2>6. ASSUME NEW f \in DOMAIN t
        PROVE  t[f] = contents[GroupOf(f)][f]
    <3>1. CASE f \in DOMAIN contents[x]
      BY <2>1, <2>4, <3>1
    <3>2. CASE f \notin DOMAIN contents[x]
      BY <2>3, <2>4, <3>2 DEF IsFound
    <3>3. QED
      BY <3>1, <3>2
  <2>7. IsFound(t, contents, s)
    BY <2>4, <2>5, <2>6 DEF IsFound
  <2>8. QED
    BY <2>7 DEF t
<1>5. S \in P
  <2> HIDE DEF P
  <2>1. QED
    BY <1>3, <1>4, Inward
<1>6. QED
  BY <1>1, <1>5

\* A requirer that reads secrets if it asks for some finds all that is known.
LEMMA AllIsFetched ==
    ASSUME NEW asks, NEW reads, asks => reads, NEW r, Sound(r, asks)
    PROVE  Fetched(r, reads) = Known(r)
<1> DEFINE secret == RemoteSecretFields(reads)
           S == Groups(secret)
           contents == [g \in S |-> GroupContents(r, g, secret)]
           missing == {f \in secret : contents[GroupOf(f)] = NoFields}
           found == ReadGroups(contents, S)
           plain == PlainFields(r, (DOMAIN r.bag \ secret) \union missing)
<1>1. Fetched(r, reads) = With(found, plain)
  BY DEF Fetched, ReadGroups
<1>2. IsRelation(r) /\ IsLinked(r) /\ IsSplit(r, asks)
  BY DEF Sound
<1>3. secret = {} \/ secret = SECRET_FIELDS
  BY DEF RemoteSecretFields
<1>4. DOMAIN r.uris # {} => secret = SECRET_FIELDS /\ DOMAIN r.bag \intersect SECRET_FIELDS = {}
  BY <1>2 DEF IsSplit, RemoteSecretFields
<1> HIDE DEF secret
<1>5. ASSUME NEW g \in S
      PROVE  contents[g] = At(r, g)
  <2>1. CASE g \in DOMAIN r.uris
    <3> DEFINE content == r.secrets[r.uris[g]].content
    <3>1. r.uris[g] \in DOMAIN r.secrets /\ 0 \notin DOMAIN r.secrets
      BY <1>2, <2>1 DEF IsLinked, IsRelation, IsSequence
    <3>2. SecretUri(r, g) = r.uris[g] /\ r.uris[g] # 0
      BY <2>1, <3>1 DEF SecretUri
    <3>3. contents[g] = Restrict(content, DOMAIN content \intersect secret)
      BY <3>2 DEF GroupContents
    <3>4. content = At(r, g) /\ IsOf(content)
      BY <1>2, <2>1, SecretIsFound DEF At
    <3> HIDE DEF content
    <3>5. DOMAIN content \intersect secret = DOMAIN content
      BY <1>2, <1>4, <2>1, <3>4 DEF IsLinked
    <3>6. Restrict(content, DOMAIN content) = content
      BY <3>4 DEF Restrict, IsOf
    <3>7. QED
      BY <3>3, <3>4, <3>5, <3>6
  <2>2. CASE g \notin DOMAIN r.uris
    BY <2>2 DEF SecretUri, GroupContents, At
  <2>3. QED
    BY <2>1, <2>2
<1> HIDE DEF contents, missing, found, plain
<1>6. IsFound(found, contents, S)
  <2>1. \A g \in S : \A f \in DOMAIN contents[g] : GroupOf(f) = g
    <3>1. ASSUME NEW g \in S, NEW f \in DOMAIN contents[g]
          PROVE  GroupOf(f) = g
      <4>1. f \in DOMAIN At(r, g)
        BY <1>5, <3>1
      <4>2. g \in DOMAIN r.uris
        BY <4>1 DEF At, NoFields
      <4>3. QED
        BY <1>2, <4>1, <4>2 DEF IsLinked
    <3>2. QED
      BY <3>1
  <2>2. IsFiniteSet(S)
    BY FewGroups
  <2> HIDE DEF S
  <2>3. QED
    BY <2>1, <2>2, AllGroupsAreRead DEF found
<1>7. plain = r.bag
  <2>1. DOMAIN r.bag \subseteq (DOMAIN r.bag \ secret) \union missing
    <3>1. CASE DOMAIN r.uris = {}
      <4>1. ASSUME NEW f \in secret
            PROVE  f \in missing
        <5>1. GroupOf(f) \in S
          BY DEF Groups
        <5>2. At(r, GroupOf(f)) = NoFields
          BY <3>1 DEF At
        <5>3. QED
          BY <1>5, <5>1, <5>2 DEF missing
      <4>2. QED
        BY <4>1
    <3>2. CASE DOMAIN r.uris # {}
      BY <1>4, <3>2
    <3>3. QED
      BY <3>1, <3>2
  <2>2. plain = Restrict(r.bag, DOMAIN r.bag)
    <3>1. DOMAIN r.bag \intersect ((DOMAIN r.bag \ secret) \union missing) = DOMAIN r.bag
      BY <2>1
    <3>2. QED
      BY <3>1 DEF plain, PlainFields
  <2>3. QED
    BY <1>2, <2>2 DEF Restrict, IsRelation, IsOf
<1>8. With(found, r.bag) = Known(r)
  <2> DEFINE both == With(found, r.bag)
  <2>1. /\ IsOf(both) /\ DOMAIN both = DOMAIN found \union DOMAIN r.bag
        /\ \A f \in DOMAIN both : both[f] = IF f \in DOMAIN r.bag THEN r.bag[f] ELSE found[f]
    BY DEF With, IsOf
  <2> HIDE DEF both
  <2>2. ASSUME NEW f
        PROVE  f \in DOMAIN found <=> f \in SECRET_FIELDS /\ f \in DOMAIN At(r, GroupOf(f))
    <3>1. CASE f \in DOMAIN found
      <4>1. GroupOf(f) \in S /\ f \in DOMAIN At(r, GroupOf(f))
        BY <1>5, <1>6, <3>1 DEF IsFound
      <4>2. GroupOf(f) \in DOMAIN r.uris
        BY <4>1 DEF At, NoFields
      <4>3. QED
        BY <1>2, <3>1, <4>1, <4>2 DEF IsLinked
    <3>2. CASE f \in SECRET_FIELDS /\ f \in DOMAIN At(r, GroupOf(f))
      <4>1. DOMAIN r.uris # {}
        BY <3>2 DEF At, NoFields
      <4>2. GroupOf(f) \in S
        BY <1>4, <3>2, <4>1 DEF Groups
      <4>3. QED
        BY <1>5, <1>6, <3>2, <4>2 DEF IsFound
    <3>3. QED
      BY <3>1, <3>2
  <2>3. ASSUME NEW f \in DOMAIN found
        PROVE  found[f] = At(r, GroupOf(f))[f]
    BY <1>5, <1>6 DEF IsFound
  <2>4. ASSUME NEW f
        PROVE  f \in DOMAIN both <=> f \in DOMAIN Known(r)
    BY <2>1, <2>2, KnownFields
  <2>5. ASSUME NEW f \in DOMAIN both
        PROVE  both[f] = Known(r)[f]
    BY <2>1, <2>2, <2>3, <2>4, KnownFields
  <2>6. DOMAIN both = DOMAIN Known(r) /\ IsOf(Known(r))
    BY <2>4, KnownFields
  <2>7. both = Known(r)
    BY <2>1, <2>5, <2>6, SameFunction
  <2>8. QED
    BY <2>7 DEF both
<1>9. QED
  BY <1>1, <1>7, <1>8

\* How a provider's operations, and what they are meant to be, are folded.
HookFold(asks) == [fold |-> "operate", asks |-> asks]
MeantFold == [fold |-> "intend"]
AllOperated(base, ops, asks) == FoldLeft(LAMBDA h, op : Operate(h, op, asks), base, ops)
AllIntended(base, ops) == FoldLeft(Intended, base, ops)

\* Folding over a provider's operations with Operate.
LEMMA OperateFold ==
    ASSUME NEW base, NEW asks, NEW seq, NEW n \in Nat, DOMAIN seq = 1 .. n
    PROVE  \E h : /\ Unfolds(HookFold(asks), base, seq, n, h)
                  /\ AllOperated(base, seq, asks) = h[n]
<1> DEFINE c == HookFold(asks)
           Fold(f) == f = [s \in SUBSET DOMAIN seq |->
                        IF s = {} THEN base ELSE Operate(f[s \ {Max(s)}], seq[Max(s)], asks)]
           g == CHOOSE f : Fold(f)
<1>1. AllOperated(base, seq, asks) = g[DOMAIN seq]
  BY DEF AllOperated, FoldLeft, MapThenFoldSet
<1>2. \E f : IsFold(c, base, seq, n, f)
  BY FoldExists
<1>3. \A a, b : Apply(c, a, b) = Operate(a, b, asks)
  BY DEF Apply, HookFold
<1>4. \A f : IsFold(c, base, seq, n, f) <=> Fold(f)
  BY <1>3 DEF IsFold, FoldStep
<1>5. IsFold(c, base, seq, n, g)
  <2> HIDE DEF Fold
  <2>1. QED
    BY <1>2, <1>4
<1>6. PICK h : Unfolds(c, base, seq, n, h) /\ h[n] = g[1 .. n]
  <2> HIDE DEF g, c
  <2>1. QED
    BY <1>5, FoldPrefixes
<1>7. QED
  BY <1>1, <1>6

\* Folding over a provider's operations with Intended.
LEMMA IntendFold ==
    ASSUME NEW base, NEW seq, NEW n \in Nat, DOMAIN seq = 1 .. n
    PROVE  \E h : Unfolds(MeantFold, base, seq, n, h) /\ AllIntended(base, seq) = h[n]
<1> DEFINE c == MeantFold
           Fold(f) == f = [s \in SUBSET DOMAIN seq |->
                        IF s = {} THEN base ELSE Intended(f[s \ {Max(s)}], seq[Max(s)])]
           g == CHOOSE f : Fold(f)
<1>1. AllIntended(base, seq) = g[DOMAIN seq]
  BY DEF AllIntended, FoldLeft, MapThenFoldSet
<1>2. \E f : IsFold(c, base, seq, n, f)
  BY FoldExists
<1>3. \A a, b : Apply(c, a, b) = Intended(a, b)
  BY DEF Apply, MeantFold
<1>4. \A f : IsFold(c, base, seq, n, f) <=> Fold(f)
  BY <1>3 DEF IsFold, FoldStep
<1>5. IsFold(c, base, seq, n, g)
  <2> HIDE DEF Fold
  <2>1. QED
    BY <1>2, <1>4
<1>6. PICK h : Unfolds(c, base, seq, n, h) /\ h[n] = g[1 .. n]
  <2> HIDE DEF g, c
  <2>1. QED
    BY <1>5, FoldPrefixes
<1>7. QED
  BY <1>1, <1>6

\* A relation, and what is meant of it, before its provider does anything.
FirstHook(enabled) == [now |-> NewRelation(enabled), kept |-> NewRelation(enabled)]
FirstMeant == [now |-> NoFields, kept |-> NoFields, named |-> FALSE, loose |-> FALSE]

\* A relation begins with nothing in it, as it is meant to.
LEMMA NothingIsThere ==
    ASSUME NEW asks, NEW enabled \in BOOLEAN
    PROVE  Simulates(FirstHook(enabled), FirstMeant, asks, enabled)
<1> DEFINE r == NewRelation(enabled)
           h == FirstHook(enabled)
<1>1. /\ r.bag = NoFields /\ r.uris = NoFields /\ r.secrets = << >> /\ r.cache = NoFields
      /\ r.requested = {} /\ r.named = FALSE /\ r.enabled = enabled
      /\ r = [bag |-> NoFields, uris |-> NoFields, secrets |-> << >>, cache |-> NoFields,
              requested |-> {}, named |-> FALSE, enabled |-> enabled]
  BY DEF NewRelation
<1> HIDE DEF r
<1>2. DOMAIN NoFields = {} /\ IsOf(NoFields)
  BY DEF NoFields, IsOf
<1>3. \A g : At(r, g) = NoFields
  BY <1>1, <1>2 DEF At
<1>4. IsSequence(<< >>) /\ DOMAIN << >> = {}
  BY DEF IsSequence, Range
<1>5. IsRelation(r)
  BY <1>1, <1>2, <1>4 DEF IsRelation
<1>6. IsLinked(r)
  BY <1>1, <1>2, <1>4 DEF IsLinked
<1>7. IsSplit(r, asks) /\ IsClear(r)
  BY <1>1, <1>2 DEF IsSplit, IsClear
<1>8. Known(r) = NoFields
  <2>1. DOMAIN Known(r) = {} /\ IsOf(Known(r))
    BY <1>1, <1>2, <1>3, KnownFields
  <2>2. QED
    BY <2>1, NothingIsEmpty
<1>9. /\ h = [now |-> h.now, kept |-> h.kept] /\ h.now = r /\ h.kept = r
  BY DEF FirstHook, r
<1>10. /\ FirstMeant = [now |-> FirstMeant.now, kept |-> FirstMeant.kept, named |-> FirstMeant.named,
                        loose |-> FirstMeant.loose]
       /\ FirstMeant.now = NoFields /\ FirstMeant.kept = NoFields
       /\ FirstMeant.named = FALSE /\ FirstMeant.loose = FALSE
  BY DEF FirstMeant
<1> HIDE DEF h
<1>11. Simulates(h, FirstMeant, asks, enabled)
  BY <1>1, <1>5, <1>6, <1>7, <1>8, <1>9, <1>10 DEF Simulates, Sound
<1>12. QED
  BY <1>11 DEF h

\* A relation with what its provider does, and whether the requirer reads secrets.
IsHistory(history) ==
    /\ history.enabled \in BOOLEAN /\ history.asks \in BOOLEAN
    /\ history.asks => history.reads
    /\ IsSequence(history.ops)
    /\ \A i \in DOMAIN history.ops :
          history.ops[i].kind = "update" => IsOf(history.ops[i].data)

\* All of a provider's operations come to what they are meant to.
LEMMA AllIsIntended ==
    ASSUME NEW history, IsHistory(history)
    PROVE  Simulates(AllOperated(FirstHook(history.enabled), history.ops, history.asks),
                     AllIntended(FirstMeant, history.ops), history.asks, history.enabled)
<1> DEFINE n == Len(history.ops)
           ops == history.ops
           enabled == history.enabled
           asks == history.asks
           base == FirstHook(enabled)
<1>1. n \in Nat /\ DOMAIN ops = 1 .. n /\ enabled \in BOOLEAN /\ asks \in BOOLEAN
  BY DEF IsHistory, IsSequence
<1>2. \A i \in 1 .. n : ops[i].kind = "update" => IsOf(ops[i].data)
  BY <1>1 DEF IsHistory
<1> HIDE DEF n, ops, enabled, asks, base
<1>3. PICK h : Unfolds(HookFold(asks), base, ops, n, h) /\ AllOperated(base, ops, asks) = h[n]
  BY <1>1, OperateFold
<1>4. PICK m : Unfolds(MeantFold, FirstMeant, ops, n, m) /\ AllIntended(FirstMeant, ops) = m[n]
  BY <1>1, IntendFold
<1> DEFINE P == {j \in 0 .. n : Simulates(h[j], m[j], asks, enabled)}
<1>5. 0 \in P
  BY <1>1, <1>3, <1>4, NothingIsThere DEF Unfolds, base
<1>6. ASSUME NEW j \in 0 .. n - 1, j \in P
      PROVE  j + 1 \in P
  <2>1. Simulates(h[j], m[j], asks, enabled)
    BY <1>6
  <2>2. h[j + 1] = Operate(h[j], ops[j + 1], asks)
    BY <1>3 DEF Unfolds, HookFold, Apply
  <2>3. m[j + 1] = Intended(m[j], ops[j + 1])
    BY <1>4 DEF Unfolds, MeantFold, Apply
  <2>4. ops[j + 1].kind = "update" => IsOf(ops[j + 1].data)
    BY <1>1, <1>2
  <2>5. Simulates(h[j + 1], m[j + 1], asks, enabled)
    BY <1>1, <2>1, <2>2, <2>3, <2>4, OperationIsIntended
  <2>6. QED
    BY <1>1, <2>5
<1>7. n \in P
  <2> HIDE DEF P
  <2>1. \A j \in 0 .. n : j \in P
    BY <1>1, <1>5, <1>6, Upward
  <2>2. QED
    BY <1>1, <2>1
<1>8. Simulates(h[n], m[n], asks, enabled)
  BY <1>7
<1>9. QED
  BY <1>3, <1>4, <1>8 DEF base, ops, enabled, asks

\* What was fetched of a relation.
Recounts(history, result) ==
    LET hook == AllOperated(FirstHook(history.enabled), history.ops, history.asks) IN
        result = [relation |-> hook.kept, fields |-> Fetched(hook.kept, history.reads)]
FieldsInv ==
    subject = "fields" => IsHistory(given) /\ (made # NONE => Recounts(given, made))

\* What was fetched is what was meant.
LEMMA FetchedAsWritten ==
    ASSUME IsHistory(given), Recounts(given, made)
    PROVE  FieldsAreFound
<1> DEFINE h == AllOperated(FirstHook(given.enabled), given.ops, given.asks)
           hook == AllIntended(FirstMeant, given.ops)
<1>1. Simulates(h, hook, given.asks, given.enabled)
  BY AllIsIntended
<1>2. made = [relation |-> h.kept, fields |-> Fetched(h.kept, given.reads)]
  BY DEF Recounts
<1>3. FieldsAreFound <=>
        (Done("fields") =>
            /\ ~hook.loose => made.fields = hook.kept
            /\ given.enabled => DOMAIN made.relation.bag \intersect made.relation.requested = {}
            /\ \A g \in DOMAIN made.relation.uris :
                 made.relation.secrets[made.relation.uris[g]].content # NoFields)
  BY DEF FieldsAreFound, AllIntended, FirstMeant
<1> HIDE DEF h, hook
<1>4. made.relation = h.kept /\ made.fields = Fetched(h.kept, given.reads)
  BY <1>2
<1>5. Sound(h.kept, given.asks)
  BY <1>1 DEF Simulates
<1>6. made.fields = Known(h.kept)
  BY <1>4, <1>5, AllIsFetched DEF IsHistory
<1>7. ~hook.loose => made.fields = hook.kept
  BY <1>1, <1>6 DEF Simulates
<1>8. given.enabled => DOMAIN made.relation.bag \intersect made.relation.requested = {}
  BY <1>1, <1>4 DEF Simulates, IsClear
<1>9. \A g \in DOMAIN made.relation.uris :
        made.relation.secrets[made.relation.uris[g]].content # NoFields
  BY <1>4, <1>5 DEF Sound, IsLinked, At
<1>10. QED
  BY <1>3, <1>7, <1>8, <1>9

\* A requirer finds every field as the provider last wrote it and none that it deleted, in hooks
\* that may fail and whichever fields have secrets since when, however long the provider goes on;
\* with secrets from the start no requested field is in the databag (data_interfaces.py:1554, 1650).
THEOREM FieldsAreFoundAsWritten == ContentSpec => []FieldsAreFound
<1>1. ContentInit => FieldsInv
  BY ProvidersAssumption DEF ContentInit, FieldsInv, IsHistory, IsOf
<1>2. FieldsInv /\ [ContentNext]_contentVars => FieldsInv'
  <2>1. SUFFICES ASSUME FieldsInv, [ContentNext]_contentVars, subject' = "fields"
                 PROVE  IsHistory(given') /\ (made' # NONE => Recounts(given', made'))
    BY DEF FieldsInv
  <2>2. subject = "fields" /\ given' = given
    BY <2>1 DEF ContentNext, contentVars
  <2>3. CASE UNCHANGED contentVars
    BY <2>1, <2>2, <2>3 DEF FieldsInv, contentVars
  <2>4. CASE FetchFields
    <3>1. Recounts(given, made')
      BY <2>4 DEF FetchFields, Recounts, AllOperated, FirstHook
    <3>2. QED
      BY <2>1, <2>2, <3>1 DEF FieldsInv
  <2>5. QED
    BY <2>1, <2>2, <2>3, <2>4
       DEF ContentNext, ShowBoard, ListDashboards, RunActions, Scrape, LoadRules, Log
<1>3. FieldsInv => FieldsAreFound
  <2>1. CASE Done("fields")
    BY <2>1, FetchedAsWritten DEF FieldsInv, Done
  <2>2. CASE ~Done("fields")
    BY <2>2 DEF FieldsAreFound
  <2>3. QED
    BY <2>1, <2>2
<1>4. QED
  BY <1>1, <1>2, <1>3, PTL DEF ContentSpec

(***************************************************************************)
(* Hooks that synchronise composer dependencies.                           *)
(***************************************************************************)

\* A hook that resolves dependencies itself, and one that follows the leader.
Resolving(u) == task[u].leads \/ task[u].bootstrap

Following(u) == pc[u] # "idle" /\ ~Resolving(u)

USE DEF NORMAL, FORCE_RECONCILIATION

(***************************************************************************)
(* Types.                                                                  *)
(***************************************************************************)

\* What a hook leaves when it is over is a task, and the image's lock a lock.
LEMMA ConstantTypes == NoTask \in Tasks /\ ImageLock \in Locks
<1>1. \E c \in Configs : TRUE
  <2>1. PICK d \in Dependencies : TRUE
    BY OptionsAssumption
  <2>2. PICK l \in LocalSettings : TRUE
    BY OptionsAssumption
  <2>3. [composer |-> d, settings |-> l] \in Configs
    BY DEF Configs
  <2>4. QED
    BY <2>3
<1>2. (CHOOSE c \in Configs : TRUE) \in Configs
  BY <1>1
<1>3. NoTask \in Tasks
  BY <1>2 DEF NoTask, Tasks
<1>4. ImageLock \in Locks
  BY ReleaseAssumption DEF ImageLock, Locks
<1>5. QED
  BY <1>3, <1>4

\* What a hook reads is a task.
LEMMA ReadTyped ==
    ASSUME TypeOK, NEW u \in Units, NEW mode
    PROVE  Read(u, mode) \in Tasks
<1>1. (u = leader) \in BOOLEAN
  OBVIOUS
<1>2. (u # leader /\ published.hash # config /\ mode = NORMAL /\ Pristine(u)) \in BOOLEAN
  OBVIOUS
<1>3. published.lock \in Locks \union {MISSING}
  BY DEF TypeOK
<1>4. QED
  BY <1>1, <1>2, <1>3 DEF TypeOK, Read, Tasks

\* What composer leads to is a lock whenever a hook may run it.
LEMMA OutcomeTyped ==
    ASSUME TypeOK, NEW u \in Units, Resolving(u) \/ task[u].lock # MISSING
    PROVE  Outcome(u) \in Locks
BY DEF TypeOK, Outcome, Resolving, Tasks, Configs, Locks

\* A hook has a lock to follow exactly when it follows the leader: TypeOK is inductive with this.
ReadsALock == \A u \in Units : pc[u] # "idle" => (Following(u) <=> task[u].lock # MISSING)

TypeInv == TypeOK /\ ReadsALock

\* The start of a hook preserves the types.
LEMMA ReconcileTyped ==
    ASSUME TypeInv, NEW u \in Units, Reconcile(u) \/ EndEarly(u)
    PROVE  TypeInv'
<1> USE DEF TypeInv, ReadsALock, Following, Resolving
<1>1. CASE EndEarly(u)
  BY <1>1 DEF TypeOK, EndEarly, Begin, fileVars
<1>2. ASSUME NEW mode \in Modes, WaitForLeader(u, mode) PROVE TypeInv'
  BY <1>2 DEF TypeOK, WaitForLeader, Begin, fileVars
<1>3. ASSUME NEW mode \in Modes, SkipComposer(u, mode) PROVE TypeInv'
  <2> DEFINE t == Read(u, mode)
  <2>1. t \in Tasks
    BY ReadTyped
  <2>2. /\ MayProceed(t)
        /\ task' = [task EXCEPT ![u] = t]
        /\ pc' = [pc EXCEPT ![u] = "composed"]
        /\ dirty' = [dirty EXCEPT ![u] = FALSE]
        /\ UNCHANGED <<config, release, published, leader, fileVars>>
    BY <1>3 DEF SkipComposer, Goto, Begin
  <2>3. t.leads \/ t.bootstrap <=> t.lock = MISSING
    BY <2>2 DEF MayProceed, Read
  <2> HIDE DEF t
  <2>4. QED
    BY <2>1, <2>2, <2>3 DEF TypeOK, fileVars
<1>4. ASSUME NEW mode \in Modes, RunComposer(u, mode) PROVE TypeInv'
  <2> DEFINE t == Read(u, mode)
  <2>1. t \in Tasks
    BY ReadTyped
  <2>2. /\ MayProceed(t)
        /\ WriteComposerFiles(u, t)
        /\ task' = [task EXCEPT ![u] = t]
        /\ pc' = [pc EXCEPT ![u] = "composing"]
        /\ dirty' = [dirty EXCEPT ![u] = FALSE]
        /\ UNCHANGED <<config, release, published, leader, packages, settings>>
    BY <1>4 DEF RunComposer, Goto, Begin
  <2>3. t.leads \/ t.bootstrap <=> t.lock = MISSING
    BY <2>2 DEF MayProceed, Read
  <2> HIDE DEF t
  <2>4. userJson' \in [Units -> Dependencies \union {MISSING, FAILED}]
    BY <2>1, <2>2 DEF TypeOK, WriteComposerFiles, Tasks, Configs
  <2>5. lockFile' \in [Units -> Locks \union {CLEARED}]
    BY <2>1, <2>2, <2>3 DEF TypeOK, WriteComposerFiles, Tasks
  <2>6. ReadsALock'
    BY <2>1, <2>2, <2>3 DEF TypeOK
  <2>7. TypeOK'
    <3>1. /\ task' \in [Units -> Tasks]
          /\ pc' \in [Units -> {"idle", "composing", "composed", "rendered"}]
          /\ dirty' \in [Units -> BOOLEAN]
      BY <2>1, <2>2 DEF TypeOK
    <3>2. QED
      BY <2>2, <2>4, <2>5, <3>1 DEF TypeOK
  <2>8. QED
    BY <2>6, <2>7
<1>5. QED
  BY <1>1, <1>2, <1>3, <1>4 DEF Reconcile

\* So does each further step of a hook.
LEMMA HookTyped ==
    ASSUME TypeInv, NEW u \in Units,
           Progress(u) \/ ComposerFails(u) \/ RenderFails(u)
    PROVE  TypeInv'
<1> USE ConstantTypes DEF TypeInv, ReadsALock, Following, Resolving
<1>1. pc[u] = "composing" => Outcome(u) \in Locks
  BY OutcomeTyped
<1>2. task[u].config \in Configs
  BY DEF TypeOK, Tasks
<1>3. CASE ComposerSucceeds(u)
  BY <1>1, <1>3 DEF TypeOK, ComposerSucceeds, Goto
<1>4. CASE ComposerFails(u)
  <2>1. End(u)
    BY <1>4 DEF ComposerFails, Abort
  <2>2. /\ lockFile' \in [Units -> Locks \union {CLEARED}]
        /\ userJson' \in [Units -> Dependencies \union {MISSING, FAILED}]
    BY <1>1, <1>4 DEF TypeOK, ComposerFails, MarkFailure
  <2>3. /\ packages' \in [Units -> Locks \union {PARTIAL}]
        /\ dirty' \in [Units -> BOOLEAN]
    BY <1>4 DEF TypeOK, ComposerFails, Abort
  <2>4. QED
    BY <1>4, <2>1, <2>2, <2>3 DEF TypeOK, ComposerFails, Goto, End
<1>6. CASE RenderSettings(u)
  BY <1>2, <1>6 DEF TypeOK, RenderSettings, Goto
<1>7. CASE RenderFails(u)
  <2>1. End(u)
    BY <1>7 DEF RenderFails, Abort
  <2>2. settings' \in [Units -> Configs \union {MISSING}]
    BY <1>2, <1>7 DEF TypeOK, RenderFails
  <2>3. dirty' \in [Units -> BOOLEAN]
    BY <1>7 DEF TypeOK, RenderFails, Abort
  <2>4. QED
    BY <1>7, <2>1, <2>2, <2>3 DEF TypeOK, RenderFails, End, Goto
<1>8. CASE Finish(u)
  <2>1. published' \in [lock : Locks \union {MISSING}, hash : Configs \union {MISSING}]
    BY <1>2, <1>8 DEF TypeOK, Finish
  <2>2. dirty' \in [Units -> BOOLEAN]
    <3>1. dirty' = [v \in Units |-> dirty[v] \/ published' # published]
      BY <1>8 DEF Finish
    <3>2. \A v \in Units : (dirty[v] \/ published' # published) \in BOOLEAN
      OBVIOUS
    <3>3. QED
      BY <3>1, <3>2, Zenon
  <2>3. QED
    BY <1>8, <2>1, <2>2 DEF TypeOK, Finish, Goto, End, fileVars
<1>9. CASE HookError(u)
  BY <1>9 DEF TypeOK, HookError, Goto, End, Abort, fileVars
<1>10. QED
  BY <1>3, <1>4, <1>6, <1>7, <1>8, <1>9 DEF Progress

\* And what happens around the hooks.
LEMMA SurroundingsTyped ==
    ASSUME TypeInv,
           \/ Configure \/ PackagesReleased
           \/ \E u \in Units : OtherEvent(u) \/ LeaderElected(u) \/ PodRestart(u)
    PROVE  TypeInv'
<1> USE ConstantTypes, ReleaseAssumption DEF TypeInv, ReadsALock, Following, Resolving
<1>1. CASE Configure
  BY <1>1 DEF TypeOK, Configure, fileVars
<1>2. CASE PackagesReleased
  BY <1>2 DEF TypeOK, PackagesReleased, fileVars
<1>3. ASSUME NEW u \in Units, OtherEvent(u) PROVE TypeInv'
  BY <1>3 DEF TypeOK, OtherEvent, fileVars
<1>4. ASSUME NEW u \in Units, LeaderElected(u) PROVE TypeInv'
  BY <1>4 DEF TypeOK, LeaderElected, fileVars
<1>5. ASSUME NEW u \in Units, PodRestart(u) PROVE TypeInv'
  BY <1>5 DEF TypeOK, PodRestart, Abort, End, Goto
<1>6. QED
  BY <1>1, <1>2, <1>3, <1>4, <1>5

\* Before the first hook everything has its type.
LEMMA InitTyped == Init => TypeInv
BY ConstantTypes, ReleaseAssumption DEF Init, TypeInv, TypeOK, ReadsALock, Following, Resolving

\* Every step preserves the types.
LEMMA NextTyped == TypeInv /\ [Next]_vars => TypeInv'
<1> SUFFICES ASSUME TypeInv, [Next]_vars PROVE TypeInv'
  OBVIOUS
<1>1. CASE UNCHANGED vars
  BY <1>1 DEF vars, fileVars, TypeInv, TypeOK, ReadsALock, Following, Resolving
<1>2. CASE Next
  BY <1>2, ReconcileTyped, HookTyped, SurroundingsTyped DEF Next, Fault
<1>3. QED
  BY <1>1, <1>2

\* Every variable keeps its type: no file, databag entry or hook ever holds anything but
\* a configured option, a resolved lock or one of the marks.
THEOREM TypeCorrect == Spec => []TypeOK
<1>1. Spec => []TypeInv
  BY InitTyped, NextTyped, PTL DEF Spec
<1>2. TypeInv => TypeOK
  BY DEF TypeInv
<1>3. QED
  BY <1>1, <1>2, PTL

(***************************************************************************)
(* The inductive invariant.  What a hook publishes is right because its    *)
(* files are, and the files are right because every failed composer run    *)
(* leaves a mark where the kind of run that comes next looks for it.  The  *)
(* two cases in which it does not are left out: a run that is cut off, and *)
(* a failed install on a unit that then leads.                             *)
(***************************************************************************)
FailuresAreMarked == ~Has("composer-cut-off") /\ ~Has("failed-successor")

\* Files that carry no mark of a failure agree with each other and with the packages.
FilesAgree ==
    \A u \in Units :
        /\ lockFile[u] = CLEARED => userJson[u] # MISSING
        /\ pc[u] # "composing" /\ userJson[u] # FAILED /\ lockFile[u] # CLEARED =>
              /\ packages[u] = lockFile[u]
              /\ lockFile[u].resolves =
                    IF userJson[u] = MISSING THEN NoDependencies ELSE userJson[u]

\* Whoever resolves, the leader first of all, has a lock file that no failed install cleared.
ResolversKeepTheirLock ==
    /\ lockFile[leader] # CLEARED
    /\ pc[leader] # "idle" => task[leader].leads
    /\ \A u \in Units : pc[u] # "idle" /\ Resolving(u) => lockFile[u] # CLEARED

\* A hook that follows the leader read a lock for the configuration it read.
ReadLockFits ==
    \A u \in Units : Following(u) =>
        task[u].lock # MISSING /\ task[u].lock.resolves = task[u].config.composer

\* What holds once composer is done, or was rightly skipped.
ComposerDone ==
    \A u \in Units :
        /\ pc[u] = "composing" => userJson[u] = task[u].config.composer
        /\ pc[u] \in {"composed", "rendered"} =>
              /\ userJson[u] # FAILED
              /\ lockFile[u] # CLEARED
              /\ lockFile[u].resolves = task[u].config.composer
              /\ Following(u) /\ task[u].config.composer # NoDependencies =>
                    lockFile[u] = task[u].lock
        /\ pc[u] = "rendered" => settings[u] = task[u].config

SyncInv ==
    /\ PublishedLockFitsConfiguration
    /\ FilesAgree
    /\ ResolversKeepTheirLock
    /\ ReadLockFits
    /\ ComposerDone

IndInv == TypeInv /\ SyncInv

\* The first state satisfies the invariant.
LEMMA InitSync == Init => IndInv
<1> SUFFICES ASSUME Init PROVE IndInv
  OBVIOUS
<1>1. TypeInv
  BY InitTyped
<1>2. SyncInv
  BY MarksAssumption, ConstantTypes
     DEF Init, SyncInv, PublishedLockFitsConfiguration, FilesAgree, ResolversKeepTheirLock,
         ReadLockFits, ComposerDone, Following, Resolving, ImageLock, Marks
<1>3. QED
  BY <1>1, <1>2 DEF IndInv

\* What holds of the files of a unit that is not running composer is all that a hook that
\* skips composer needs.
LEMMA SkipSync ==
    ASSUME IndInv, NEW u \in Units, NEW mode, SkipComposer(u, mode)
    PROVE  SyncInv'
<1> DEFINE t == Read(u, mode)
<1>1. t \in Tasks
  BY ReadTyped DEF IndInv, TypeInv
<1>2. /\ pc[u] = "idle"
      /\ MayProceed(t)
      /\ Unchanged(u, t)
      /\ task' = [task EXCEPT ![u] = t]
      /\ pc' = [pc EXCEPT ![u] = "composed"]
      /\ UNCHANGED <<published, leader, userJson, lockFile, packages, settings>>
  BY DEF SkipComposer, Begin, Goto, fileVars
<1>3. /\ t.leads <=> u = leader
      /\ t.bootstrap => userJson[u] = MISSING
      /\ t.lock = IF t.leads \/ t.bootstrap THEN MISSING ELSE published.lock
  BY DEF Read, Pristine
<1> HIDE DEF t
<1> USE <1>1, <1>2, <1>3, MarksAssumption
        DEF IndInv, TypeInv, TypeOK, SyncInv, PublishedLockFitsConfiguration, FilesAgree,
            ResolversKeepTheirLock, ReadLockFits, ComposerDone, Following, Resolving, MayProceed,
            Unchanged, Tasks, Configs, Marks
<1>4. PublishedLockFitsConfiguration' /\ FilesAgree'
  OBVIOUS
<1>5. ResolversKeepTheirLock'
  OBVIOUS
<1>6. ReadLockFits'
  OBVIOUS
<1>7. ComposerDone'
  OBVIOUS
<1>8. QED
  BY <1>4, <1>5, <1>6, <1>7

\* The files that a hook writes before it runs composer are those it read for.
LEMMA RunSync ==
    ASSUME IndInv, NEW u \in Units, NEW mode, RunComposer(u, mode)
    PROVE  SyncInv'
<1> DEFINE t == Read(u, mode)
<1>1. t \in Tasks
  BY ReadTyped DEF IndInv, TypeInv
<1>2. /\ pc[u] = "idle"
      /\ MayProceed(t)
      /\ WriteComposerFiles(u, t)
      /\ task' = [task EXCEPT ![u] = t]
      /\ pc' = [pc EXCEPT ![u] = "composing"]
      /\ UNCHANGED <<published, leader, packages, settings>>
  BY DEF RunComposer, Begin, Goto
<1>3. /\ t.leads <=> u = leader
      /\ t.bootstrap => userJson[u] = MISSING
      /\ t.lock = IF t.leads \/ t.bootstrap THEN MISSING ELSE published.lock
  BY DEF Read, Pristine
<1> HIDE DEF t
<1> USE <1>1, <1>2, <1>3, MarksAssumption
        DEF IndInv, TypeInv, TypeOK, SyncInv, PublishedLockFitsConfiguration, FilesAgree,
            ResolversKeepTheirLock, ReadLockFits, ComposerDone, Following, Resolving, MayProceed,
            WriteComposerFiles, Tasks, Configs, Marks
<1>4. PublishedLockFitsConfiguration' /\ FilesAgree'
  OBVIOUS
<1>5. ResolversKeepTheirLock'
  OBVIOUS
<1>6. ReadLockFits'
  OBVIOUS
<1>7. ComposerDone'
  OBVIOUS
<1>8. QED
  BY <1>4, <1>5, <1>6, <1>7

\* Composer leads to the dependencies that the hook read, or its failure is marked.
LEMMA ComposerRunSync ==
    ASSUME FailuresAreMarked, IndInv, NEW u \in Units,
           ComposerSucceeds(u) \/ ComposerFails(u)
    PROVE  SyncInv'
<1> USE MarksAssumption
    DEF IndInv, TypeInv, TypeOK, SyncInv, FilesAgree, ResolversKeepTheirLock, ReadLockFits,
        ComposerDone, PublishedLockFitsConfiguration, Following, Resolving, Goto, End, Marks
<1>1. CASE ComposerSucceeds(u)
  <2>1. pc[u] = "composing"
    BY <1>1 DEF ComposerSucceeds
  <2>2. /\ Outcome(u) \in Locks
        /\ Outcome(u).resolves = task[u].config.composer
        /\ ~Resolving(u) => Outcome(u) = task[u].lock
    BY <2>1, OutcomeTyped DEF Outcome, ReadsALock
  <2>3. QED
    BY <1>1, <2>1, <2>2 DEF ComposerSucceeds, Tasks, Configs
<1>2. CASE ComposerFails(u)
  <2>1. /\ pc[u] = "composing"
        /\ MarkFailure(u) /\ End(u)
        /\ \A v \in Units \ {u} : packages'[v] = packages[v]
        /\ UNCHANGED <<published, leader, settings>>
    BY <1>2 DEF ComposerFails, FailuresAreMarked
  <2>2. Outcome(u) \in Locks
    BY <2>1, OutcomeTyped DEF ReadsALock
  <2>3. CASE Resolving(u)
    BY <2>1, <2>2, <2>3 DEF MarkFailure, Tasks, Configs
  <2>4. CASE ~Resolving(u)
    BY <2>1, <2>2, <2>4 DEF MarkFailure, Tasks, Configs
  <2>5. QED
    BY <2>3, <2>4
<1>3. QED
  BY <1>1, <1>2

\* The rest of the hook keeps the files and publishes a lock that fits.
LEMMA LateHookSync ==
    ASSUME IndInv, NEW u \in Units,
           RenderSettings(u) \/ RenderFails(u) \/ Finish(u) \/ HookError(u)
    PROVE  SyncInv'
<1> USE MarksAssumption
    DEF IndInv, TypeInv, TypeOK, SyncInv, FilesAgree, ResolversKeepTheirLock, ReadLockFits,
        ComposerDone, PublishedLockFitsConfiguration, Following, Resolving, Goto, End, Abort,
        Marks, fileVars
<1>1. CASE RenderSettings(u)
  BY <1>1 DEF RenderSettings
<1>2. CASE RenderFails(u)
  BY <1>2 DEF RenderFails
<1>3. CASE Finish(u)
  BY <1>3 DEF Finish
<1>4. CASE HookError(u)
  BY <1>4 DEF HookError
<1>5. QED
  BY <1>1, <1>2, <1>3, <1>4

\* Nothing around the hooks disturbs the files, save a new pod, which starts from the image.
LEMMA SurroundingsSync ==
    ASSUME FailuresAreMarked, IndInv,
           \/ Configure \/ PackagesReleased
           \/ \E u \in Units : \/ EndEarly(u) \/ OtherEvent(u)
                               \/ LeaderElected(u) \/ PodRestart(u)
                               \/ \E mode \in Modes : WaitForLeader(u, mode)
    PROVE  SyncInv'
<1> USE MarksAssumption
    DEF IndInv, TypeInv, TypeOK, SyncInv, FilesAgree, ResolversKeepTheirLock, ReadLockFits,
        ComposerDone, PublishedLockFitsConfiguration, Following, Resolving, Goto, End, Abort,
        Marks, fileVars
<1>1. CASE Configure
  BY <1>1 DEF Configure
<1>2. CASE PackagesReleased
  BY <1>2 DEF PackagesReleased
<1>3. ASSUME NEW u \in Units, EndEarly(u) PROVE SyncInv'
  BY <1>3 DEF EndEarly, Begin
<1>4. ASSUME NEW u \in Units, OtherEvent(u) PROVE SyncInv'
  BY <1>4 DEF OtherEvent
<1>5. ASSUME NEW u \in Units, LeaderElected(u) PROVE SyncInv'
  BY <1>5 DEF LeaderElected, FailuresAreMarked
<1>6. ASSUME NEW u \in Units, PodRestart(u) PROVE SyncInv'
  BY <1>6, ConstantTypes DEF PodRestart, ImageLock
<1>7. ASSUME NEW u \in Units, NEW mode \in Modes, WaitForLeader(u, mode) PROVE SyncInv'
  BY <1>7 DEF WaitForLeader, Begin
<1>8. QED
  BY <1>1, <1>2, <1>3, <1>4, <1>5, <1>6, <1>7

\* Every step preserves the invariant when failures are marked.
LEMMA NextSync == FailuresAreMarked => (IndInv /\ [Next]_vars => IndInv')
<1> SUFFICES ASSUME FailuresAreMarked, IndInv, [Next]_vars PROVE IndInv'
  OBVIOUS
<1>1. TypeInv'
  BY NextTyped DEF IndInv
<1>2. CASE UNCHANGED vars
  <2>1. SyncInv'
    BY <1>2 DEF vars, fileVars, IndInv, SyncInv, PublishedLockFitsConfiguration, FilesAgree,
                ResolversKeepTheirLock, ReadLockFits, ComposerDone, Following, Resolving
  <2>2. QED
    BY <1>1, <2>1 DEF IndInv
<1>3. CASE Next
  <2>1. SyncInv'
    BY <1>3, SkipSync, RunSync, ComposerRunSync, LateHookSync, SurroundingsSync
       DEF Next, Reconcile, Progress, Fault
  <2>2. QED
    BY <1>1, <2>1 DEF IndInv
<1>4. QED
  BY <1>2, <1>3

\* The invariant holds of every application whose failed composer runs are marked.
THEOREM SyncInvariant ==
    ASSUME FailuresAreMarked
    PROVE  Spec => []IndInv
<1>1. IndInv /\ [Next]_vars => IndInv'
  BY NextSync
<1>2. QED
  BY InitSync, <1>1, PTL DEF Spec

\* What a leader publishes as the lock of a configuration resolves its dependencies.
THEOREM PublishedLockFits ==
    ASSUME FailuresAreMarked
    PROVE  Spec => []PublishedLockFitsConfiguration
<1>1. IndInv => PublishedLockFitsConfiguration
  BY DEF IndInv, SyncInv
<1>2. QED
  BY <1>1, SyncInvariant, PTL

\* A unit about to start its services holds the packages its settings were written for.
THEOREM SettingsHavePackages ==
    ASSUME FailuresAreMarked
    PROVE  Spec => []SettingsFindTheirPackages
<1>1. IndInv => SettingsFindTheirPackages
  BY DEF IndInv, SyncInv, SettingsFindTheirPackages, ComposerDone, FilesAgree
<1>2. QED
  BY <1>1, SyncInvariant, PTL

\* A unit that follows the leader holds exactly the packages that the leader resolved.
THEOREM FollowersHoldPackages ==
    ASSUME FailuresAreMarked
    PROVE  Spec => []FollowersHoldLeaderPackages
<1>1. IndInv => FollowersHoldLeaderPackages
  BY DEF IndInv, SyncInv, FollowersHoldLeaderPackages, ComposerDone, FilesAgree, Following, Resolving
<1>2. QED
  BY <1>1, SyncInvariant, PTL

(***************************************************************************)
(* The refinement: what each step of a unit is in ComposerAgreement.       *)
(***************************************************************************)

Step == [Agreement!Next]_(Agreement!vars)

\* What ComposerAgreement sees of a unit is a function of the unit's own state.
SameUnit(v) == pc'[v] = pc[v] /\ task'[v] = task[v] /\ Ready(v)' = Ready(v)

\* A step that leaves every unit as it is, and what is published, is at most an election.
LEMMA StutterStep ==
    ASSUME \A v \in Units : SameUnit(v), UNCHANGED published,
           UNCHANGED leader \/ \E u \in Units : u # leader /\ leader' = u
    PROVE  Step
<1>1. UNCHANGED <<Published, [u \in Units |-> Plan(u)], [u \in Units |-> Ready(u)]>>
  BY DEF SameUnit, Published, Plan
<1>2. CASE UNCHANGED leader
  BY <1>1, <1>2 DEF Step, Agreement!vars
<1>3. ASSUME NEW u \in Units, u # leader, leader' = u PROVE Step
  BY <1>1, <1>3 DEF Step, Agreement!Next, Agreement!Elect
<1>4. QED
  BY <1>2, <1>3

\* One unit moves: its plan and what it is ready for change at its place only.
LEMMA OneUnit ==
    ASSUME NEW u \in Units, \A v \in Units \ {u} : SameUnit(v)
    PROVE  /\ [v \in Units |-> Plan(v)]' = [[v \in Units |-> Plan(v)] EXCEPT ![u] = Plan(u)']
           /\ [v \in Units |-> Ready(v)]' = [[v \in Units |-> Ready(v)] EXCEPT ![u] = Ready(u)']
<1>1. \A v \in Units \ {u} : Plan(v)' = Plan(v) /\ Ready(v)' = Ready(v)
  BY DEF SameUnit, Plan
<1>2. QED
  BY <1>1

\* What a busy unit has set out for is not nothing, nor is what it is ready for.
LEMMA Something ==
    ASSUME TypeInv, NEW u \in Units
    PROVE  /\ pc[u] # "idle" => Plan(u) # MISSING
           /\ pc[u] = "rendered" /\ settings[u] \in Configs /\ packages[u] \in Locks =>
                Ready(u) # MISSING
<1>1. task[u] \in Tasks
  BY DEF TypeInv, TypeOK
<1>2. pc[u] # "idle" =>
        Plan(u) \in [config : Configs, follows : Locks \union {MISSING}, leads : BOOLEAN]
  BY <1>1 DEF Plan, Tasks
<1>3. pc[u] = "rendered" /\ settings[u] \in Configs /\ packages[u] \in Locks =>
        Ready(u) \in [config : Configs, lock : Locks]
  BY DEF Ready
<1>4. QED
  BY <1>2, <1>3, NothingAssumption

\* A hook that begins sets out to resolve dependencies itself, or to follow what is published.
LEMMA BeginStep ==
    ASSUME TypeInv, NEW u \in Units, NEW mode,
           pc[u] = "idle", pc'[u] \in {"composing", "composed"},
           MayProceed(Read(u, mode)), task'[u] = Read(u, mode),
           \A v \in Units \ {u} : SameUnit(v),
           UNCHANGED <<leader, published>>
    PROVE  Step
<1> DEFINE t == Read(u, mode)
<1>1. t \in Tasks
  BY ReadTyped DEF TypeInv
<1>2. /\ t.config = config
      /\ t.leads <=> u = leader
      /\ t.lock = IF t.leads \/ t.bootstrap THEN MISSING ELSE published.lock
      /\ t.leads \/ t.bootstrap \/ (published.hash = t.config /\ t.lock # MISSING)
  BY DEF Read, MayProceed
<1> HIDE DEF t
<1>3. /\ Plan(u) = MISSING /\ Ready(u) = MISSING /\ Ready(u)' = MISSING
      /\ Plan(u)' = [config |-> t.config, follows |-> t.lock, leads |-> t.leads]
  BY DEF Plan, Ready, t
<1>4. /\ UNCHANGED Published
      /\ UNCHANGED [v \in Units |-> Ready(v)]
      /\ [v \in Units |-> Plan(v)]' = [[v \in Units |-> Plan(v)] EXCEPT ![u] = Plan(u)']
  BY <1>3, OneUnit DEF Published
<1>5. t.config \in Configs /\ t.leads \in BOOLEAN
  BY <1>1 DEF Tasks
<1>6. CASE t.lock = MISSING
  <2>1. t.leads \in {FALSE, u = leader}
    BY <1>2, <1>5
  <2>2. Agreement!Begin(u, t.config, MISSING, t.leads)
    BY <1>3, <1>4, <1>6 DEF Agreement!Begin
  <2>3. Agreement!Resolve(u)
    BY <1>5, <2>1, <2>2 DEF Agreement!Resolve
  <2>4. QED
    BY <2>3 DEF Step, Agreement!Next
<1>7. CASE t.lock # MISSING
  <2>1. /\ t.leads = FALSE
        /\ published.lock = t.lock /\ published.hash = t.config
    BY <1>2, <1>5, <1>7
  <2>2. published.lock \in Locks /\ published.hash \in Configs
    BY <1>5, <1>7, <2>1 DEF TypeInv, TypeOK
  <2>3. Published = [config |-> t.config, lock |-> t.lock] /\ Published # MISSING
    BY <1>5, <1>7, <2>1, <2>2, NothingAssumption, MarksAssumption DEF Published, Marks
  <2>4. Agreement!Begin(u, Published.config, Published.lock, FALSE)
    BY <1>3, <1>4, <2>1, <2>3 DEF Agreement!Begin
  <2>5. Agreement!Follow(u)
    BY <2>3, <2>4 DEF Agreement!Follow
  <2>6. QED
    BY <2>5 DEF Step, Agreement!Next
<1>8. QED
  BY <1>6, <1>7

\* A hook that is over leaves, whatever it came to.
LEMMA LeaveStep ==
    ASSUME TypeInv, NEW u \in Units, pc'[u] = "idle",
           \A v \in Units \ {u} : SameUnit(v),
           UNCHANGED <<leader, published>>
    PROVE  Step
<1>1. Plan(u)' = MISSING /\ Ready(u)' = MISSING
  BY DEF Plan, Ready
<1>2. /\ UNCHANGED Published
      /\ [v \in Units |-> Plan(v)]' = [[v \in Units |-> Plan(v)] EXCEPT ![u] = MISSING]
      /\ [v \in Units |-> Ready(v)]' = [[v \in Units |-> Ready(v)] EXCEPT ![u] = MISSING]
  BY <1>1, OneUnit DEF Published
<1>3. CASE pc[u] = "idle"
  <2>1. Plan(u) = MISSING /\ Ready(u) = MISSING
    BY <1>3 DEF Plan, Ready
  <2>2. UNCHANGED <<[v \in Units |-> Plan(v)], [v \in Units |-> Ready(v)]>>
    BY <1>2, <2>1
  <2>3. QED
    BY <1>2, <2>2 DEF Step, Agreement!vars
<1>4. CASE pc[u] # "idle"
  <2>1. Plan(u) # MISSING
    BY <1>4, Something
  <2>2. Agreement!Leave(u)
    BY <1>2, <2>1 DEF Agreement!Leave
  <2>3. QED
    BY <1>2, <2>2 DEF Step, Agreement!Next
<1>5. QED
  BY <1>3, <1>4

\* A unit that renders its settings is ready with packages that fit them, those of the leader
\* if it follows the leader.
LEMMA ReadyStep ==
    ASSUME IndInv, IndInv', NEW u \in Units, RenderSettings(u)
    PROVE  Step
<1> USE DEF IndInv, TypeInv, TypeOK, RenderSettings, Goto
<1>1. /\ pc[u] = "composed" /\ pc' = [pc EXCEPT ![u] = "rendered"]
      /\ settings' = [settings EXCEPT ![u] = task[u].config]
      /\ UNCHANGED <<leader, published, lockFile, packages, task>>
  OBVIOUS
<1>2. task[u] \in Tasks
  OBVIOUS
<1>3. /\ lockFile[u] \in Locks
      /\ packages[u] = lockFile[u]
      /\ packages[u].resolves = task[u].config.composer
      /\ Following(u) /\ task[u].config.composer # NoDependencies => packages[u] = task[u].lock
  <2>1. ComposerDone /\ FilesAgree
    BY DEF SyncInv
  <2>2. QED
    BY <1>1, <2>1 DEF ComposerDone, FilesAgree
<1>4. task[u].lock # MISSING => Following(u)
  BY <1>1 DEF ReadsALock
<1>5. /\ Plan(u) = [config |-> task[u].config, follows |-> task[u].lock, leads |-> task[u].leads]
      /\ Plan(u)' = Plan(u)
      /\ Ready(u) = MISSING
      /\ Ready(u)' = [config |-> task[u].config, lock |-> packages[u]]
  BY <1>1 DEF Plan, Ready
<1>6. \A v \in Units \ {u} : SameUnit(v)
  BY <1>1 DEF SameUnit, Ready
<1>7. /\ UNCHANGED <<Published, leader, [v \in Units |-> Plan(v)]>>
      /\ [v \in Units |-> Ready(v)]' =
            [[v \in Units |-> Ready(v)] EXCEPT
                ![u] = [config |-> task[u].config, lock |-> packages[u]]]
  <2>1. UNCHANGED <<Published, leader>>
    BY <1>1 DEF Published
  <2>2. UNCHANGED [v \in Units |-> Plan(v)]
    <3>1. \A v \in Units : Plan(v)' = Plan(v)
      BY <1>5, <1>6 DEF SameUnit, Plan
    <3>2. QED
      BY <3>1
  <2>3. QED
    BY <1>5, <1>6, <2>1, <2>2, OneUnit
<1>8. /\ packages[u] \in LocksFor[task[u].config]
      /\ task[u].lock \in {MISSING, packages[u]} \/ task[u].config \in BareConfigs
  BY <1>2, <1>3, <1>4 DEF LocksFor, BareConfigs, Tasks
<1>9. Plan(u) # MISSING
  BY <1>1, Something
<1>10. Agreement!Prepare(u)
  <2> DEFINE plan == [v \in Units |-> Plan(v)]
             ready == [v \in Units |-> Ready(v)]
  <2>1. /\ plan[u] # MISSING /\ ready[u] = MISSING
        /\ plan[u].config = task[u].config /\ plan[u].follows = task[u].lock
    BY <1>5, <1>9
  <2>2. ready' = [ready EXCEPT ![u] = [config |-> task[u].config, lock |-> packages[u]]]
    BY <1>7
  <2>3. UNCHANGED <<leader, Published, plan>>
    BY <1>7
  <2> HIDE DEF plan, ready
  <2>4. \E lock \in LocksFor[plan[u].config] :
          /\ plan[u].follows \in {MISSING, lock} \/ plan[u].config \in BareConfigs
          /\ ready' = [ready EXCEPT ![u] = [config |-> plan[u].config, lock |-> lock]]
    BY <1>8, <2>1, <2>2
  <2>5. QED
    BY <2>1, <2>3, <2>4 DEF Agreement!Prepare, plan, ready
<1>11. QED
  BY <1>10 DEF Step, Agreement!Next

\* The leader publishes what it is ready to run with itself.
LEMMA PublishStep ==
    ASSUME IndInv, NEW u \in Units, Finish(u), task[u].leads
    PROVE  Step
<1> USE DEF IndInv, TypeInv, TypeOK, Finish, Goto, End, fileVars
<1>1. /\ pc[u] = "rendered" /\ u = leader
      /\ published' = [lock |-> IF lockFile[u] = CLEARED THEN MISSING ELSE lockFile[u],
                       hash |-> task[u].config]
      /\ pc' = [pc EXCEPT ![u] = "idle"]
      /\ task' = [task EXCEPT ![u] = NoTask]
      /\ UNCHANGED <<leader, settings, packages>>
  OBVIOUS
<1>2. task[u].config \in Configs
  BY DEF Tasks
<1>3. /\ settings[u] = task[u].config
      /\ lockFile[u] \in Locks
      /\ packages[u] = lockFile[u]
  BY <1>1 DEF SyncInv, ComposerDone, FilesAgree
<1>4. published'.hash = task[u].config /\ published'.lock = packages[u]
  BY <1>1, <1>3, MarksAssumption DEF Marks
<1>5. Published' = [config |-> task[u].config, lock |-> packages[u]]
  BY <1>2, <1>3, <1>4, MarksAssumption DEF Published, Marks
<1>6. /\ Ready(u) = Published'
      /\ Plan(u).leads
      /\ Plan(u)' = MISSING /\ Ready(u)' = MISSING
  BY <1>1, <1>3, <1>5 DEF Plan, Ready
<1>7. Ready(u) # MISSING /\ Plan(u) # MISSING
  BY <1>1, <1>2, <1>3, Something
<1>8. \A v \in Units \ {u} : SameUnit(v)
  BY <1>1 DEF SameUnit, Ready
<1>9. /\ [v \in Units |-> Plan(v)]' = [[v \in Units |-> Plan(v)] EXCEPT ![u] = MISSING]
      /\ [v \in Units |-> Ready(v)]' = [[v \in Units |-> Ready(v)] EXCEPT ![u] = MISSING]
  BY <1>6, <1>8, OneUnit
<1>10. Agreement!Leave(u)
  BY <1>1, <1>7, <1>9 DEF Agreement!Leave
<1>11. Agreement!Publish(u)
  BY <1>1, <1>6, <1>7, <1>10 DEF Agreement!Publish
<1>12. QED
  BY <1>11 DEF Step, Agreement!Next

\* Every step of a hook is a step of ComposerAgreement, or none.
LEMMA UnitStep ==
    ASSUME IndInv, IndInv', NEW u \in Units, Reconcile(u) \/ Progress(u) \/ Fault(u) \/ OtherEvent(u)
    PROVE  Step
<1> USE DEF IndInv, TypeInv, TypeOK, SameUnit, Ready, Goto, End, Abort, Begin, fileVars
<1>1. ASSUME NEW mode \in Modes, RunComposer(u, mode) PROVE Step
  <2>1. /\ pc[u] = "idle" /\ pc'[u] = "composing" /\ task'[u] = Read(u, mode)
        /\ MayProceed(Read(u, mode)) /\ UNCHANGED <<leader, published>>
        /\ \A v \in Units \ {u} : SameUnit(v)
    BY <1>1 DEF RunComposer
  <2>2. QED
    BY <2>1, BeginStep
<1>2. ASSUME NEW mode \in Modes, SkipComposer(u, mode) PROVE Step
  <2>1. /\ pc[u] = "idle" /\ pc'[u] = "composed" /\ task'[u] = Read(u, mode)
        /\ MayProceed(Read(u, mode)) /\ UNCHANGED <<leader, published>>
        /\ \A v \in Units \ {u} : SameUnit(v)
    BY <1>2 DEF SkipComposer
  <2>2. QED
    BY <2>1, BeginStep
<1>3. ASSUME NEW mode \in Modes, WaitForLeader(u, mode) PROVE Step
  BY <1>3, StutterStep DEF WaitForLeader
<1>4. CASE EndEarly(u)
  BY <1>4, StutterStep DEF EndEarly
<1>5. CASE OtherEvent(u)
  BY <1>5, StutterStep DEF OtherEvent
<1>6. CASE LeaderElected(u)
  BY <1>6, StutterStep DEF LeaderElected
<1>7. CASE ComposerSucceeds(u)
  <2>1. /\ \A v \in Units \ {u} : SameUnit(v)
        /\ pc[u] = "composing" /\ pc' = [pc EXCEPT ![u] = "composed"]
        /\ UNCHANGED <<task, leader, published>>
    BY <1>7 DEF ComposerSucceeds
  <2>2. [v \in Units |-> Plan(v)]' = [v \in Units |-> Plan(v)]
    BY <2>1 DEF Plan
  <2>3. [v \in Units |-> Ready(v)]' = [v \in Units |-> Ready(v)]
    BY <2>1
  <2>4. QED
    BY <2>1, <2>2, <2>3 DEF Step, Agreement!vars, Published
<1>8. CASE RenderSettings(u)
  BY <1>8, ReadyStep
<1>9. CASE Finish(u) /\ task[u].leads
  BY <1>9, PublishStep
<1>10. ASSUME \/ ComposerFails(u) \/ RenderFails(u) \/ HookError(u) \/ PodRestart(u)
              \/ (Finish(u) /\ ~task[u].leads)
       PROVE  Step
  <2>1. pc'[u] = "idle" /\ UNCHANGED <<leader, published>>
    BY <1>10 DEF ComposerFails, RenderFails, HookError, PodRestart, Finish
  <2>2. \A v \in Units \ {u} : SameUnit(v)
    BY <1>10 DEF ComposerFails, RenderFails, HookError, PodRestart, Finish
  <2>3. QED
    BY <2>1, <2>2, LeaveStep
<1> HIDE DEF IndInv, TypeInv, TypeOK, SameUnit, Ready, Goto, End, Abort, Begin, fileVars
<1>11. CASE Reconcile(u)
  BY <1>1, <1>2, <1>3, <1>11 DEF Reconcile
<1>12. CASE Progress(u)
  BY <1>7, <1>8, <1>9, <1>10, <1>12 DEF Progress
<1>13. CASE Fault(u)
  BY <1>4, <1>6, <1>10, <1>13 DEF Fault
<1>14. QED
  BY <1>5, <1>11, <1>12, <1>13

\* The units' hooks implement ComposerAgreement: settings are served only with whole packages
\* that fit them, a follower's are those that it saw published, and a leader publishes what it
\* runs with itself.
THEOREM HooksImplementAgreement ==
    ASSUME FailuresAreMarked
    PROVE  Spec => ImplementsAgreement
<1>1. Init => Agreement!Init
  BY DEF Init, Agreement!Init, Published, Plan, Ready
<1>2. IndInv /\ IndInv' /\ [Next]_vars => Step
  <2>1. ASSUME IndInv, IndInv', Next PROVE Step
    <3>1. CASE Configure \/ PackagesReleased
      BY <3>1, StutterStep DEF Configure, PackagesReleased, SameUnit, Ready, fileVars
    <3>2. QED
      BY <2>1, <3>1, UnitStep DEF Next
  <2>2. ASSUME UNCHANGED vars PROVE Step
    BY <2>2, StutterStep DEF vars, SameUnit, Ready, fileVars
  <2>3. QED
    BY <2>1, <2>2
<1>3. Spec => []IndInv
  BY SyncInvariant
<1>4. QED
  BY <1>1, <1>2, <1>3, PTL DEF Spec, ImplementsAgreement, Agreement!Spec, Step
=============================================================================
