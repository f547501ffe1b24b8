--------------------------- MODULE TodoDayProofs ---------------------------
(***************************************************************************)
(* Proofs about TodoDay for any settings a client may send, any number of  *)
(* invocations, days, saves, ticks and failures.                           *)
(***************************************************************************)
EXTENDS TodoDay, FiniteSetTheorems, SequenceTheorems, TLAPS

-----------------------------------------------------------------------------
(* The least element of a set of natural numbers                           *)

LEMMA LessThanWellFounded ==
  \E R : IsWellFoundedOn(R, Nat) /\ \A i, j \in Nat : i < j => <<i, j>> \in R
<1>1. IsWellFoundedOn(OpToRel(<, Nat), Nat)
  BY NatLessThanWellFounded
<1>2. \A i, j \in Nat : i < j => <<i, j>> \in OpToRel(<, Nat)
  BY DEF OpToRel
<1> QED
  BY <1>1, <1>2, Zenon

LEMMA MinimalNatural ==
  ASSUME NEW R, IsWellFoundedOn(R, Nat), NEW T, T \subseteq Nat, T # {}
  PROVE  \E x \in T : \A y \in T : ~ (<<y, x>> \in R)
BY WFMin

LEMMA LeastNatural ==
  ASSUME NEW T, T \subseteq Nat, T # {}
  PROVE  \E m \in T : \A n \in T : m <= n
<1>1. PICK R : IsWellFoundedOn(R, Nat) /\ \A i, j \in Nat : i < j => <<i, j>> \in R
  BY LessThanWellFounded
<1>2. \E m \in T : \A n \in T : ~(<<n, m>> \in R)
  BY <1>1, MinimalNatural
<1>3. PICK m \in T : \A n \in T : ~(<<n, m>> \in R)
  BY <1>2
<1>4. ASSUME NEW n \in T PROVE m <= n
  <2>1. m \in Nat /\ n \in Nat
    OBVIOUS
  <2>2. ~(n < m)
    BY <1>1, <1>3, <2>1
  <2> QED
    BY <2>1, <2>2
<1> QED
  BY <1>4

-----------------------------------------------------------------------------
(* What Below computes: it is the function its recursion describes         *)

\* One round of the recursion, from what the round before it has found.
Round(rows, root, k, before) ==
  [i \in DOMAIN rows |->
     \/ i = root
     \/ k > 0 /\ rows[i].parent \in DOMAIN rows /\ before[rows[i].parent]]

\* g is the recursion up to round n.
Upto(rows, root, n, g) ==
  g = [k \in 0 .. n |-> Round(rows, root, k, g[k - 1])]

LEMMA FirstRound ==
  ASSUME NEW rows, NEW root, NEW f, NEW g
  PROVE  Round(rows, root, 0, f) = Round(rows, root, 0, g)
<1>1. ~(0 > 0)
  OBVIOUS
<1> QED
  BY <1>1, Zenon DEF Round

LEMMA UptoEveryRound ==
  ASSUME NEW rows, NEW root
  PROVE  \A n \in Nat : \E g : Upto(rows, root, n, g)
<1> DEFINE T == {n \in Nat : ~ \E g : Upto(rows, root, n, g)}
<1> SUFFICES ASSUME T # {} PROVE FALSE
  OBVIOUS
<1>1. PICK m \in T : \A n \in T : m <= n
  BY LeastNatural
<1>2. m \in Nat /\ ~ \E g : Upto(rows, root, m, g)
  BY <1>1
<1>3. CASE m = 0
  <2> DEFINE g == [k \in 0 .. 0 |-> Round(rows, root, 0, root)]
  <2>1. \A k \in 0 .. 0 : Round(rows, root, k, g[k - 1]) = Round(rows, root, 0, root)
    <3>1. SUFFICES ASSUME NEW k \in 0 .. 0
                   PROVE  Round(rows, root, k, g[k - 1]) = Round(rows, root, 0, root)
      OBVIOUS
    <3>2. k = 0
      OBVIOUS
    <3> QED
      BY <3>2, FirstRound
  <2>2. Upto(rows, root, 0, g)
    BY <2>1 DEF Upto
  <2> QED
    BY <1>2, <1>3, <2>2
<1>4. CASE m > 0
  <2>1. m - 1 \in Nat /\ m - 1 \notin T
    BY <1>1, <1>2, <1>4
  <2>2. PICK g : Upto(rows, root, m - 1, g)
    BY <2>1
  <2> DEFINE h == [k \in 0 .. m |-> IF k = m THEN Round(rows, root, m, g[m - 1])
                                             ELSE g[k]]
  <2>3. \A k \in 0 .. m : h[k] = Round(rows, root, k, h[k - 1])
    <3>1. SUFFICES ASSUME NEW k \in 0 .. m
                   PROVE  h[k] = Round(rows, root, k, h[k - 1])
      OBVIOUS
    <3>2. CASE k = 0
      <4>1. h[k] = g[0] /\ g[0] = Round(rows, root, 0, g[0 - 1])
        BY <1>2, <1>4, <2>2, <3>2 DEF Upto
      <4> QED
        BY <3>2, <4>1, FirstRound
    <3>3. CASE k > 0
      <4>1. h[k - 1] = g[k - 1]
        BY <1>2, <3>3
      <4>2. k # m => h[k] = g[k] /\ g[k] = Round(rows, root, k, g[k - 1])
        BY <1>2, <2>2, <3>3 DEF Upto
      <4>3. k = m => h[k] = Round(rows, root, k, g[k - 1])
        BY <1>2
      <4> QED
        BY <4>1, <4>2, <4>3
    <3> QED
      BY <1>2, <3>2, <3>3
  <2>4. Upto(rows, root, m, h)
    BY <2>3 DEF Upto
  <2> QED
    BY <1>2, <2>4
<1> QED
  BY <1>2, <1>3, <1>4

LEMMA UptoUnique ==
  ASSUME NEW rows, NEW root, NEW n \in Nat, NEW m \in Nat, n <= m,
         NEW g, Upto(rows, root, n, g), NEW h, Upto(rows, root, m, h)
  PROVE  \A k \in 0 .. n : g[k] = h[k]
<1> DEFINE T == {k \in 0 .. n : g[k] # h[k]}
<1> SUFFICES ASSUME T # {} PROVE FALSE
  OBVIOUS
<1>1. T \subseteq Nat
  OBVIOUS
<1>2. PICK k \in T : \A j \in T : k <= j
  BY <1>1, LeastNatural
<1>3. k \in 0 .. n /\ g[k] # h[k]
  BY <1>2
<1>4. /\ g[k] = Round(rows, root, k, g[k - 1])
      /\ h[k] = Round(rows, root, k, h[k - 1])
  BY <1>3 DEF Upto
<1>5. CASE k = 0
  BY <1>3, <1>4, <1>5, FirstRound
<1>6. CASE k > 0
  <2>1. k - 1 \in 0 .. n /\ k - 1 \notin T
    BY <1>2, <1>3, <1>6
  <2> QED
    BY <1>3, <1>4, <2>1
<1> QED
  BY <1>3, <1>5, <1>6

LEMMA BelowRounds ==
  ASSUME NEW rows, NEW root
  PROVE  Below(rows, root) =
           [k \in Nat |-> Round(rows, root, k, Below(rows, root)[k - 1])]
<1> DEFINE G(k) == CHOOSE g : Upto(rows, root, k, g)
           F == [k \in Nat |-> G(k)[k]]
<1>1. \A k \in Nat : Upto(rows, root, k, G(k))
  BY UptoEveryRound
<1> HIDE DEF G
<1>2. \A k \in Nat : F[k] = Round(rows, root, k, F[k - 1])
  <2>1. SUFFICES ASSUME NEW k \in Nat
                 PROVE  F[k] = Round(rows, root, k, F[k - 1])
    OBVIOUS
  <2>2. F[k] = Round(rows, root, k, G(k)[k - 1])
    BY <1>1 DEF Upto
  <2>3. CASE k = 0
    BY <2>2, <2>3, FirstRound
  <2>4. CASE k > 0
    <3>1. k - 1 \in Nat /\ k - 1 <= k /\ k - 1 \in 0 .. k - 1
      BY <2>4
    <3>2. Upto(rows, root, k, G(k)) /\ Upto(rows, root, k - 1, G(k - 1))
      BY <1>1, <3>1
    <3>3. G(k - 1)[k - 1] = G(k)[k - 1]
      BY <3>1, <3>2, UptoUnique
    <3>4. F[k - 1] = G(k - 1)[k - 1]
      BY <3>1
    <3> QED
      BY <2>2, <3>3, <3>4
  <2> QED
    BY <2>3, <2>4
<1>3. F = [k \in Nat |-> Round(rows, root, k, F[k - 1])]
  BY <1>2
<1>4. Below(rows, root) =
        CHOOSE f : f = [k \in Nat |-> Round(rows, root, k, f[k - 1])]
  BY DEF Below, Round
<1> HIDE DEF F
<1>5. \E f : f = [k \in Nat |-> Round(rows, root, k, f[k - 1])]
  BY <1>3
<1> QED
  BY <1>4, <1>5, Zenon


-----------------------------------------------------------------------------
(* What collectDescendantIds returns: the least set with the root and, of   *)
(* every row whose parent is in the set, the row                            *)

Level(rows, root, k) == {i \in DOMAIN rows : Below(rows, root)[k][i]}

LEMMA LevelZero ==
  ASSUME NEW rows, NEW root \in DOMAIN rows
  PROVE  Level(rows, root, 0) = {root}
<1>1. Below(rows, root)[0] = Round(rows, root, 0, Below(rows, root)[0 - 1])
  BY BelowRounds
<1>2. ~(0 > 0)
  OBVIOUS
<1>3. \A i \in DOMAIN rows : Below(rows, root)[0][i] <=> i = root
  BY <1>1, <1>2, Zenon DEF Round
<1> QED
  BY <1>3, Zenon DEF Level

LEMMA LevelAfter ==
  ASSUME NEW rows, NEW root, NEW k \in Nat
  PROVE  Level(rows, root, k + 1) =
           {i \in DOMAIN rows : i = root \/ rows[i].parent \in Level(rows, root, k)}
<1>1. k + 1 \in Nat /\ k + 1 > 0 /\ (k + 1) - 1 = k
  OBVIOUS
<1>2. Below(rows, root)[k + 1] = Round(rows, root, k + 1, Below(rows, root)[k])
  <2>1. \A n \in Nat : Below(rows, root)[n] = Round(rows, root, n, Below(rows, root)[n - 1])
    BY BelowRounds
  <2>2. Below(rows, root)[k + 1] =
          Round(rows, root, k + 1, Below(rows, root)[(k + 1) - 1])
    BY <1>1, <2>1, Zenon
  <2> QED
    BY <1>1, <2>2
<1>3. \A i \in DOMAIN rows :
        Below(rows, root)[k + 1][i] <=>
          \/ i = root
          \/ rows[i].parent \in DOMAIN rows /\ Below(rows, root)[k][rows[i].parent]
  BY <1>1, <1>2, Zenon DEF Round
<1> QED
  BY <1>3, Zenon DEF Level

LEMMA LevelGrows ==
  ASSUME NEW rows, NEW root \in DOMAIN rows
  PROVE  \A k \in Nat : Level(rows, root, k) \subseteq Level(rows, root, k + 1)
<1> DEFINE L(k) == Level(rows, root, k)
           T == {k \in Nat : ~(L(k) \subseteq L(k + 1))}
<1>1. L(0) = {root}
  BY LevelZero
<1>2. \A k \in Nat : L(k + 1) = {i \in DOMAIN rows : i = root \/ rows[i].parent \in L(k)}
  BY LevelAfter
<1> HIDE DEF L
<1> SUFFICES ASSUME T # {} PROVE FALSE
  BY DEF L
<1>3. PICK k \in T : \A n \in T : k <= n
  BY LeastNatural
<1>4. CASE k = 0
  <2>1. root \in L(0 + 1)
    BY <1>2
  <2> QED
    BY <1>1, <1>3, <1>4, <2>1
<1>5. CASE k > 0
  <2>1. k - 1 \in Nat /\ k - 1 \notin T /\ (k - 1) + 1 = k
    BY <1>3, <1>5
  <2>2. L(k - 1) \subseteq L(k)
    BY <2>1
  <2>3. L(k) = {i \in DOMAIN rows : i = root \/ rows[i].parent \in L(k - 1)}
    BY <1>2, <2>1
  <2>4. L(k + 1) = {i \in DOMAIN rows : i = root \/ rows[i].parent \in L(k)}
    BY <1>2, <1>3
  <2> QED
    BY <1>3, <2>2, <2>3, <2>4
<1> QED
  BY <1>3, <1>4, <1>5

\* A round that finds something new has found at least one row in every round.
LEMMA LevelFills ==
  ASSUME NEW rows, IsFiniteSet(DOMAIN rows), NEW root \in DOMAIN rows
  PROVE  \A k \in Nat : Level(rows, root, k + 1) # Level(rows, root, k)
                          => Cardinality(Level(rows, root, k)) >= k + 1
<1> DEFINE L(k) == Level(rows, root, k)
           T == {k \in Nat : L(k + 1) # L(k) /\ ~(Cardinality(L(k)) >= k + 1)}
<1>1. L(0) = {root}
  BY LevelZero
<1>2. \A k \in Nat : L(k + 1) = {i \in DOMAIN rows : i = root \/ rows[i].parent \in L(k)}
  BY LevelAfter
<1>3. \A k \in Nat : L(k) \subseteq L(k + 1)
  BY LevelGrows
<1>4. \A k \in Nat : IsFiniteSet(L(k)) /\ Cardinality(L(k)) \in Nat
  BY FS_Subset, FS_CardinalityType DEF Level
<1> HIDE DEF L
<1> SUFFICES ASSUME T # {} PROVE FALSE
  BY DEF L
<1>5. PICK k \in T : \A n \in T : k <= n
  BY LeastNatural
<1>6. CASE k = 0
  <2>1. Cardinality(L(0)) = 1
    BY <1>1, FS_Singleton
  <2> QED
    BY <1>5, <1>6, <2>1
<1>7. CASE k > 0
  <2>1. k - 1 \in Nat /\ k - 1 \notin T /\ (k - 1) + 1 = k
    BY <1>5, <1>7
  <2>2. L(k) = {i \in DOMAIN rows : i = root \/ rows[i].parent \in L(k - 1)}
    BY <1>2, <2>1
  <2>3. L(k + 1) = {i \in DOMAIN rows : i = root \/ rows[i].parent \in L(k)}
    BY <1>2, <1>5
  <2>4. L(k - 1) # L(k)
    BY <1>5, <2>2, <2>3
  <2>5. L(k - 1) \subseteq L(k)
    BY <1>3, <2>1
  <2>6. Cardinality(L(k - 1)) < Cardinality(L(k))
    <3>1. IsFiniteSet(L(k)) /\ L(k - 1) \in SUBSET L(k)
      BY <1>4, <1>5, <2>5
    <3>2. /\ Cardinality(L(k - 1)) <= Cardinality(L(k))
          /\ Cardinality(L(k)) = Cardinality(L(k - 1)) => L(k) = L(k - 1)
      BY <3>1, FS_Subset, Zenon
    <3>3. Cardinality(L(k - 1)) \in Nat /\ Cardinality(L(k)) \in Nat
      BY <1>4, <1>5, <2>1
    <3> QED
      BY <2>4, <3>2, <3>3
  <2>7. Cardinality(L(k - 1)) >= k
    BY <2>1, <2>4
  <2> QED
    BY <1>4, <1>5, <2>1, <2>6, <2>7
<1> QED
  BY <1>5, <1>6, <1>7

LEMMA DescendantsAreLastLevel ==
  ASSUME NEW rows, IsFiniteSet(DOMAIN rows), NEW root \in DOMAIN rows
  PROVE  /\ Cardinality(DOMAIN rows) \in Nat
         /\ Descendants(rows, root) = Level(rows, root, Cardinality(DOMAIN rows))
         /\ Descendants(rows, root) = Level(rows, root, Cardinality(DOMAIN rows) + 1)
<1> DEFINE N == Cardinality(DOMAIN rows)
           L(k) == Level(rows, root, k)
<1>1. N \in Nat
  BY FS_CardinalityType
<1>2. L(N) \subseteq DOMAIN rows
  BY DEF Level
<1>3. IsFiniteSet(L(N)) /\ Cardinality(L(N)) <= N /\ Cardinality(L(N)) \in Nat
  BY <1>2, FS_Subset, FS_CardinalityType
<1>4. L(N + 1) # L(N) => Cardinality(L(N)) >= N + 1
  BY <1>1, LevelFills
<1>5. L(N + 1) = L(N)
  <2> HIDE DEF L, N
  <2> QED
    BY <1>1, <1>3, <1>4
<1>6. root \in L(N + 1)
  BY <1>1, LevelAfter
<1>7. Descendants(rows, root) = {root} \cup L(N)
  BY Zenon DEF Descendants, Level
<1> QED
  BY <1>1, <1>5, <1>6, <1>7

\* collectDescendantIds goes on until it finds no further row: what it
\* returns is closed under children, and holds nothing that is not below the
\* root (tree.ts).
LEMMA DescendantsLeast ==
  ASSUME NEW rows, IsFiniteSet(DOMAIN rows), NEW root \in DOMAIN rows
  PROVE  /\ root \in Descendants(rows, root)
         /\ Descendants(rows, root) \subseteq DOMAIN rows
         /\ \A i \in DOMAIN rows :
              rows[i].parent \in Descendants(rows, root) => i \in Descendants(rows, root)
         /\ \A S : /\ root \in S
                   /\ \A i \in DOMAIN rows : rows[i].parent \in S => i \in S
                   => Descendants(rows, root) \subseteq S
<1> DEFINE N == Cardinality(DOMAIN rows)
           L(k) == Level(rows, root, k)
           D == Descendants(rows, root)
<1>1. N \in Nat /\ D = L(N) /\ D = L(N + 1)
  BY DescendantsAreLastLevel
<1>2. L(N + 1) = {i \in DOMAIN rows : i = root \/ rows[i].parent \in L(N)}
  BY <1>1, LevelAfter
<1>3. ASSUME NEW S, root \in S, \A i \in DOMAIN rows : rows[i].parent \in S => i \in S
      PROVE  D \subseteq S
  <2> DEFINE T == {k \in Nat : ~(L(k) \subseteq S)}
  <2>1. L(0) = {root}
    BY LevelZero
  <2>2. \A k \in Nat : L(k + 1) = {i \in DOMAIN rows : i = root \/ rows[i].parent \in L(k)}
    BY LevelAfter
  <2> HIDE DEF L
  <2>3. T = {}
    <3> SUFFICES ASSUME T # {} PROVE FALSE
      OBVIOUS
    <3>1. PICK k \in T : \A n \in T : k <= n
      BY LeastNatural
    <3>2. CASE k = 0
      BY <1>3, <2>1, <3>1, <3>2
    <3>3. CASE k > 0
      <4>1. k - 1 \in Nat /\ k - 1 \notin T /\ (k - 1) + 1 = k
        BY <3>1, <3>3
      <4>2. L(k) = {i \in DOMAIN rows : i = root \/ rows[i].parent \in L(k - 1)}
        BY <2>2, <4>1
      <4>3. L(k - 1) \subseteq S
        BY <4>1
      <4> QED
        BY <1>3, <3>1, <4>2, <4>3
    <3> QED
      BY <3>1, <3>2, <3>3
  <2> QED
    BY <1>1, <2>3
<1> HIDE DEF D, L, N
<1>4. D \subseteq DOMAIN rows /\ root \in D
      /\ \A i \in DOMAIN rows : rows[i].parent \in D => i \in D
  BY <1>1, <1>2
<1> QED
  BY <1>3, <1>4 DEF D

\* The ticks play no part, and neither do rows that are not below the root.
LEMMA DescendantsAgree ==
  ASSUME NEW rows, IsFiniteSet(DOMAIN rows), NEW root \in DOMAIN rows,
         NEW other, DOMAIN rows \subseteq DOMAIN other, IsFiniteSet(DOMAIN other),
         \A i \in DOMAIN rows : other[i].parent = rows[i].parent,
         \A i \in DOMAIN other \ DOMAIN rows : other[i].parent \notin DOMAIN rows
  PROVE  Descendants(other, root) = Descendants(rows, root)
<1> DEFINE D == Descendants(rows, root)
           E == Descendants(other, root)
<1>1. /\ root \in D /\ D \subseteq DOMAIN rows
      /\ \A i \in DOMAIN rows : rows[i].parent \in D => i \in D
      /\ \A S : /\ root \in S
                /\ \A i \in DOMAIN rows : rows[i].parent \in S => i \in S
                => D \subseteq S
  BY DescendantsLeast
<1>2. /\ root \in E
      /\ \A i \in DOMAIN other : other[i].parent \in E => i \in E
      /\ \A S : /\ root \in S
                /\ \A i \in DOMAIN other : other[i].parent \in S => i \in S
                => E \subseteq S
  BY DescendantsLeast
<1> HIDE DEF D, E
<1>3. \A i \in DOMAIN rows : rows[i].parent \in E => i \in E
  BY <1>2
<1>4. \A i \in DOMAIN other : other[i].parent \in D => i \in D
  BY <1>1
<1>5. D \subseteq E
  BY <1>1, <1>2, <1>3
<1>6. E \subseteq D
  BY <1>1, <1>2, <1>4
<1> QED
  BY <1>5, <1>6 DEF D, E


-----------------------------------------------------------------------------
(* The invariant.  plan[k] is the body of the k-th save, which no variable  *)
(* keeps.  The template is made of whole trees of saves, of one as long as  *)
(* no two saves have crossed; so is whatever is copied from it, and a day   *)
(* holds all the items of a save or none.                                   *)

Tree(plan, k) == TemplateRows(plan[k].items, k)
Family(plan, date, k) == DailyRows(Tree(plan, k), date)

TreesOf(rows, plan, K) ==
  /\ IsFiniteSet(DOMAIN rows)
  /\ DOMAIN rows = UNION {DOMAIN Tree(plan, k) : k \in K}
  /\ \A k \in K : \A t \in DOMAIN Tree(plan, k) : rows[t] = Tree(plan, k)[t]

Forest(rows, plan, date, K) ==
  /\ IsFiniteSet(DOMAIN rows)
  /\ DOMAIN rows = UNION {DOMAIN Family(plan, date, k) : k \in K}
  /\ \A k \in K : \A i \in DOMAIN Family(plan, date, k) :
       rows[i] = Family(plan, date, k)[i]

IsForest(rows, plan) ==
  \E date \in Int, K \in SUBSET (1 .. saves) : Forest(rows, plan, date, K)

TemplateKept(plan) ==
  \E K \in SUBSET (1 .. saves) :
    /\ TreesOf(template, plan, K)
    /\ \/ settings = Null
       \/ \E k \in K : settings = SettingsOf(plan[k])

\* As long as no saves have crossed, at most one transaction is open, and what
\* its DELETE has found is all there is.
Parted(plan) ==
  ~crossed =>
    /\ \/ settings = Null /\ template = <<>>
       \/ \E k \in 1 .. saves : template = Tree(plan, k) /\ settings = SettingsOf(plan[k])
    /\ \A w \in Workers : Open(w) => work[w].deleted = DOMAIN template
    /\ \A v, w \in Workers : Open(v) /\ Open(w) => v = w

\* The item is one of a save's, and so is the rest of that save's tree.
ItemKept(plan, i) ==
  \E date \in Int, k \in 1 .. saves :
    LET tree == Family(plan, date, k) IN
    /\ i \in DOMAIN tree /\ DOMAIN tree \subseteq DOMAIN daily
    /\ daily[i] = [parent |-> tree[i].parent, period |-> tree[i].period,
                   done |-> daily[i].done]
    /\ daily[i].done \in BOOLEAN

JobKept(plan, job) ==
  /\ job.at \in {"templates", "existing"} => job.date \in Int
  /\ job.at = "existing" =>
       \E K \in SUBSET (1 .. saves) : Forest(job.rows, plan, job.date, K)
  /\ job.at = "insert" => IsForest(job.rows, plan)
  /\ job.at \in {"delete", "replace"} => job.id \in 1 .. saves /\ job.body = plan[job.id]
  /\ job.at = "replace" =>
       \E K \in SUBSET (1 .. saves) : job.deleted = UNION {DOMAIN Tree(plan, k) : k \in K}
  /\ job.at \in {"day", "update"} =>
       job.item \in DOMAIN daily /\ job.completed \in BOOLEAN
  /\ job.at = "update" => job.ids = Descendants(daily, job.item)

Kept(plan) ==
  /\ \A k \in 1 .. saves : ValidTemplate(plan[k].items)
  /\ TemplateKept(plan)
  /\ Parted(plan)
  /\ \A i \in DOMAIN daily : ItemKept(plan, i)
  /\ \A w \in Workers : JobKept(plan, work[w])

Shape ==
  /\ clock \in Nat /\ saves \in Nat
  /\ IsFiniteSet(DOMAIN daily)
  /\ work = [w \in Workers |-> work[w]]

TodoInv == Shape /\ \E plan \in [1 .. saves -> Bodies] : Kept(plan)


-----------------------------------------------------------------------------
(* The tree of a save                                                       *)

Id(date, k, n) == <<date, <<k, n>>>>

LEMMA TreeOfItems ==
  ASSUME NEW items \in Seq([parent : Nat, period : Periods]), NEW k \in Nat,
         NEW date \in Int
  PROVE  LET tree == DailyRows(TemplateRows(items, k), date) IN
         /\ DOMAIN items \subseteq Nat \ {0}
         /\ DOMAIN tree = {Id(date, k, n) : n \in DOMAIN items}
         /\ IsFiniteSet(DOMAIN tree)
         /\ \A n \in DOMAIN items :
              tree[Id(date, k, n)] =
                [parent |-> IF items[n].parent = 0 THEN Null
                            ELSE Id(date, k, items[n].parent),
                 period |-> items[n].period, done |-> FALSE]
<1> DEFINE rows == TemplateRows(items, k)
           tree == DailyRows(rows, date)
<1>1. DOMAIN items \subseteq Nat \ {0} /\ IsFiniteSet(DOMAIN items)
  <2>1. PICK n \in Nat : DOMAIN items = 1 .. n
    BY Len(items) \in Nat
  <2>2. IsFiniteSet(1 .. n)
    BY FS_Interval
  <2> QED
    BY <2>1, <2>2
<1>2. /\ DOMAIN rows = {<<k, n>> : n \in DOMAIN items}
      /\ \A n \in DOMAIN items :
           rows[<<k, n>>] =
             [parent |-> IF items[n].parent = 0 THEN Null ELSE <<k, items[n].parent>>,
              period |-> items[n].period]
  BY DEF TemplateRows
<1>3. DOMAIN tree = {Id(date, k, n) : n \in DOMAIN items}
  BY <1>2 DEF DailyRows, DailyItemId, Id
<1>4. \A n \in DOMAIN items :
        /\ items[n].parent # 0 => <<k, items[n].parent>> # Null
        /\ items[n].parent \in Nat
  <2>1. SUFFICES ASSUME NEW n \in DOMAIN items
                 PROVE  /\ items[n].parent # 0 => <<k, items[n].parent>> # Null
                        /\ items[n].parent \in Nat
    OBVIOUS
  <2>2. items[n] \in [parent : Nat, period : Periods]
    <3>1. n \in 1 .. Len(items)
      OBVIOUS
    <3> QED
      BY <3>1, ElementOfSeq
  <2>3. items[n].parent \in Nat
    BY <2>2
  <2>4. <<k, items[n].parent>> \in Nat \X Nat
    BY <2>3
  <2> QED
    BY <2>3, <2>4, TodoAssumption, Zenon
<1>5. ASSUME NEW n \in DOMAIN items
      PROVE  tree[Id(date, k, n)] =
               [parent |-> IF items[n].parent = 0 THEN Null
                           ELSE Id(date, k, items[n].parent),
                period |-> items[n].period, done |-> FALSE]
  <2> DEFINE i == Id(date, k, n)
  <2>1. i \in {DailyItemId(date, t) : t \in DOMAIN rows} /\ i[2] = <<k, n>>
    BY <1>2 DEF DailyItemId, Id
  <2>2. tree[i] = [parent |-> DailyParent(date, rows[i[2]].parent),
                   period |-> rows[i[2]].period, done |-> FALSE]
    BY <2>1 DEF DailyRows
  <2>3. /\ rows[i[2]].parent =
             IF items[n].parent = 0 THEN Null ELSE <<k, items[n].parent>>
        /\ rows[i[2]].period = items[n].period
    <3> HIDE DEF rows, i
    <3>1. PICK p : p = IF items[n].parent = 0 THEN Null ELSE <<k, items[n].parent>>
      OBVIOUS
    <3>2. rows[i[2]] = [parent |-> p, period |-> items[n].period]
      BY <1>2, <2>1, <3>1, Zenon
    <3> QED
      BY <3>1, <3>2
  <2>4. DailyParent(date, rows[i[2]].parent) =
          IF items[n].parent = 0 THEN Null ELSE Id(date, k, items[n].parent)
    BY <1>4, <2>3 DEF DailyParent, DailyItemId, Id
  <2> HIDE DEF tree, rows
  <2> QED
    BY <2>2, <2>3, <2>4
<1>6. IsFiniteSet(DOMAIN tree)
  <2> DEFINE f == [n \in DOMAIN items |-> Id(date, k, n)]
  <2>1. f \in Surjection(DOMAIN items, DOMAIN tree)
    <3> HIDE DEF tree
    <3> QED
      BY <1>3 DEF Surjection, Id
  <2> HIDE DEF f, tree
  <2> QED
    BY <1>1, <2>1, FS_Surjection
<1> QED
  BY <1>1, <1>3, <1>5, <1>6

\* What a tree of items is: one row for each, under fresh ids.
TreeOf(tree, items, date, k) ==
  /\ IsFiniteSet(DOMAIN tree)
  /\ DOMAIN tree = {Id(date, k, n) : n \in DOMAIN items}
  /\ \A n \in DOMAIN items :
       /\ n \in Nat
       /\ tree[Id(date, k, n)].period = items[n].period
       /\ tree[Id(date, k, n)].done = FALSE
       /\ items[n].parent = 0 => tree[Id(date, k, n)].parent = Null
       /\ items[n].parent # 0 =>
            /\ items[n].parent \in DOMAIN items
            /\ items[items[n].parent].period = items[n].period
            /\ tree[Id(date, k, n)].parent = Id(date, k, items[n].parent)
  /\ \A i \in DOMAIN tree :
       /\ i[1] = date /\ i \in Int \X (Nat \X Nat)
       /\ tree[i] = [parent |-> tree[i].parent, period |-> tree[i].period,
                     done |-> FALSE]
       /\ tree[i].parent # Null => tree[i].parent \in DOMAIN tree

LEMMA FamilyFacts ==
  ASSUME NEW m \in Nat, NEW plan \in [1 .. m -> Bodies], NEW k \in 1 .. m,
         NEW date \in Int, ValidTemplate(plan[k].items)
  PROVE  TreeOf(Family(plan, date, k), plan[k].items, date, k)
<1>1. PICK items : items = plan[k].items
  OBVIOUS
<1>2. PICK tree : tree = Family(plan, date, k)
  OBVIOUS
<1>3. items \in Seq([parent : Nat, period : Periods]) /\ k \in Nat
  <2>1. plan[k] \in Bodies /\ k \in Nat
    OBVIOUS
  <2> QED
    BY <1>1, <2>1, BodiesAssumption, Zenon
<1>4. /\ DOMAIN items \subseteq Nat \ {0}
      /\ DOMAIN tree = {Id(date, k, n) : n \in DOMAIN items}
      /\ IsFiniteSet(DOMAIN tree)
      /\ \A n \in DOMAIN items :
           tree[Id(date, k, n)] =
             [parent |-> IF items[n].parent = 0 THEN Null
                         ELSE Id(date, k, items[n].parent),
              period |-> items[n].period, done |-> FALSE]
  <2>1. tree = DailyRows(TemplateRows(items, k), date)
    BY <1>1, <1>2, Zenon DEF Family, Tree
  <2>2. LET t == DailyRows(TemplateRows(items, k), date) IN
        /\ DOMAIN items \subseteq Nat \ {0}
        /\ DOMAIN t = {Id(date, k, n) : n \in DOMAIN items}
        /\ IsFiniteSet(DOMAIN t)
        /\ \A n \in DOMAIN items :
             t[Id(date, k, n)] =
               [parent |-> IF items[n].parent = 0 THEN Null
                           ELSE Id(date, k, items[n].parent),
                period |-> items[n].period, done |-> FALSE]
    BY <1>3, TreeOfItems
  <2> QED
    BY <2>1, <2>2, Zenon
<1>5. \A n \in DOMAIN items :
        items[n].parent # 0 =>
          /\ items[n].parent \in DOMAIN items
          /\ items[items[n].parent].period = items[n].period
  BY <1>1 DEF ValidTemplate
<1>6. \A n \in DOMAIN items :
        /\ n \in Nat
        /\ tree[Id(date, k, n)].period = items[n].period
        /\ tree[Id(date, k, n)].done = FALSE
        /\ items[n].parent = 0 => tree[Id(date, k, n)].parent = Null
        /\ items[n].parent # 0 =>
             tree[Id(date, k, n)].parent = Id(date, k, items[n].parent)
  <2>1. SUFFICES ASSUME NEW n \in DOMAIN items
                 PROVE  /\ n \in Nat
                        /\ tree[Id(date, k, n)].period = items[n].period
                        /\ tree[Id(date, k, n)].done = FALSE
                        /\ items[n].parent = 0 => tree[Id(date, k, n)].parent = Null
                        /\ items[n].parent # 0 =>
                             tree[Id(date, k, n)].parent =
                               Id(date, k, items[n].parent)
    BY Zenon
  <2>2. n \in Nat
    BY <1>4
  <2>3. PICK row : row = tree[Id(date, k, n)]
    OBVIOUS
  <2>4. row = [parent |-> IF items[n].parent = 0 THEN Null
                          ELSE Id(date, k, items[n].parent),
               period |-> items[n].period, done |-> FALSE]
    BY <1>4, <2>3, Zenon
  <2> QED
    BY <2>2, <2>3, <2>4
<1>7. ASSUME NEW i \in DOMAIN tree
      PROVE  /\ i[1] = date /\ i \in Int \X (Nat \X Nat)
             /\ tree[i] = [parent |-> tree[i].parent, period |-> tree[i].period,
                           done |-> FALSE]
             /\ tree[i].parent # Null => tree[i].parent \in DOMAIN tree
  <2>1. PICK n \in DOMAIN items : i = Id(date, k, n)
    BY <1>4
  <2>2. i[1] = date /\ i \in Int \X (Nat \X Nat)
    BY <1>3, <1>6, <2>1 DEF Id
  <2>3. tree[i] = [parent |-> tree[i].parent, period |-> tree[i].period,
                   done |-> FALSE]
    <3>1. PICK p : p = IF items[n].parent = 0 THEN Null
                       ELSE Id(date, k, items[n].parent)
      OBVIOUS
    <3>2. tree[i] = [parent |-> p, period |-> items[n].period, done |-> FALSE]
      BY <1>4, <2>1, <3>1, Zenon
    <3> QED
      BY <3>2
  <2>4. tree[i].parent # Null => tree[i].parent \in DOMAIN tree
    BY <1>4, <1>5, <1>6, <2>1
  <2> QED
    BY <2>2, <2>3, <2>4
<1> QED
  BY <1>1, <1>2, <1>4, <1>5, <1>6, <1>7, Zenon DEF TreeOf


-----------------------------------------------------------------------------
(* The items of the days                                                    *)

LEMMA TreeIsFunction ==
  ASSUME NEW plan, NEW date, NEW k
  PROVE  Family(plan, date, k) =
           [i \in DOMAIN Family(plan, date, k) |-> Family(plan, date, k)[i]]
<1>1. PICK rows : rows = TemplateRows(plan[k].items, k)
  OBVIOUS
<1>2. DailyRows(rows, date) = [i \in DOMAIN DailyRows(rows, date) |-> DailyRows(rows, date)[i]]
  BY DEF DailyRows
<1> QED
  BY <1>1, <1>2, Zenon DEF Family, Tree

LEMMA FamilyIds ==
  ASSUME NEW m \in Nat, NEW plan \in [1 .. m -> Bodies], NEW k \in 1 .. m,
         NEW date \in Int
  PROVE  /\ DOMAIN Family(plan, date, k) = {Id(date, k, n) : n \in DOMAIN plan[k].items}
         /\ IsFiniteSet(DOMAIN Family(plan, date, k))
<1>1. plan[k] \in Bodies /\ k \in Nat
  OBVIOUS
<1>2. PICK items : items = plan[k].items
  OBVIOUS
<1>3. items \in Seq([parent : Nat, period : Periods])
  BY <1>1, <1>2, BodiesAssumption, Zenon
<1>4. PICK tree : tree = DailyRows(TemplateRows(items, k), date)
  OBVIOUS
<1>5. DOMAIN tree = {Id(date, k, n) : n \in DOMAIN items} /\ IsFiniteSet(DOMAIN tree)
  BY <1>1, <1>3, <1>4, TreeOfItems
<1> QED
  BY <1>2, <1>4, <1>5, Zenon DEF Family, Tree

LEMMA TreeIsFinite ==
  ASSUME NEW m \in Nat, NEW plan \in [1 .. m -> Bodies], NEW k \in 1 .. m
  PROVE  IsFiniteSet(DOMAIN Tree(plan, k))
<1>1. plan[k] \in Bodies
  OBVIOUS
<1>2. PICK items : items = plan[k].items
  OBVIOUS
<1>3. items \in Seq([parent : Nat, period : Periods])
  BY <1>1, <1>2, BodiesAssumption, Zenon
<1>4. IsFiniteSet(DOMAIN items)
  <2>1. PICK n \in Nat : DOMAIN items = 1 .. n
    BY <1>3, Len(items) \in Nat
  <2>2. IsFiniteSet(1 .. n)
    BY FS_Interval
  <2> QED
    BY <2>1, <2>2
<1>5. PICK rows : rows = TemplateRows(items, k)
  OBVIOUS
<1>6. DOMAIN rows = {<<k, n>> : n \in DOMAIN items}
  BY <1>5 DEF TemplateRows
<1>7. PICK f : f = [n \in DOMAIN items |-> <<k, n>>]
  OBVIOUS
<1>8. f \in Surjection(DOMAIN items, DOMAIN rows)
  BY <1>6, <1>7 DEF Surjection
<1>9. IsFiniteSet(DOMAIN rows)
  BY <1>4, <1>8, FS_Surjection
<1> QED
  BY <1>2, <1>5, <1>9, Zenon DEF Tree

LEMMA FamilyRows ==
  ASSUME NEW m \in Nat, NEW plan \in [1 .. m -> Bodies], NEW k \in 1 .. m,
         NEW date \in Int, ValidTemplate(plan[k].items),
         NEW i \in DOMAIN Family(plan, date, k)
  PROVE  /\ i[1] = date /\ i \in Int \X (Nat \X Nat)
         /\ Family(plan, date, k)[i] = [parent |-> Family(plan, date, k)[i].parent,
                                       period |-> Family(plan, date, k)[i].period,
                                       done |-> FALSE]
         /\ Family(plan, date, k)[i].parent # Null =>
              Family(plan, date, k)[i].parent \in DOMAIN Family(plan, date, k)
<1>1. TreeOf(Family(plan, date, k), plan[k].items, date, k)
  BY FamilyFacts
<1> QED
  BY <1>1, Zenon DEF TreeOf

\* The rows that a day gets of a template.
LEMMA DailyRowsOf ==
  ASSUME NEW rows, NEW date
  PROVE  /\ DOMAIN DailyRows(rows, date) = {DailyItemId(date, t) : t \in DOMAIN rows}
         /\ \A t \in DOMAIN rows :
              DailyRows(rows, date)[DailyItemId(date, t)] =
                [parent |-> DailyParent(date, rows[t].parent),
                 period |-> rows[t].period, done |-> FALSE]
<1>1. DOMAIN DailyRows(rows, date) = {DailyItemId(date, t) : t \in DOMAIN rows}
  BY DEF DailyRows
<1>2. ASSUME NEW t \in DOMAIN rows
      PROVE  DailyRows(rows, date)[DailyItemId(date, t)] =
               [parent |-> DailyParent(date, rows[t].parent),
                period |-> rows[t].period, done |-> FALSE]
  <2>1. PICK i : i = DailyItemId(date, t)
    OBVIOUS
  <2>2. i \in {DailyItemId(date, u) : u \in DOMAIN rows} /\ i[2] = t
    BY <2>1 DEF DailyItemId
  <2>3. DailyRows(rows, date)[i] = [parent |-> DailyParent(date, rows[i[2]].parent),
                                   period |-> rows[i[2]].period, done |-> FALSE]
    BY <2>2 DEF DailyRows
  <2> QED
    BY <2>1, <2>2, <2>3
<1> QED
  BY <1>1, <1>2

LEMMA TreesGrow ==
  ASSUME NEW rows, NEW plan, NEW K, TreesOf(rows, plan, K), NEW date
  PROVE  Forest(DailyRows(rows, date), plan, date, K)
<1>1. PICK new : new = DailyRows(rows, date)
  OBVIOUS
<1>2. /\ DOMAIN new = {DailyItemId(date, t) : t \in DOMAIN rows}
      /\ \A t \in DOMAIN rows :
           new[DailyItemId(date, t)] = [parent |-> DailyParent(date, rows[t].parent),
                                        period |-> rows[t].period, done |-> FALSE]
  BY <1>1, DailyRowsOf
<1>3. ASSUME NEW k
      PROVE  /\ DOMAIN Family(plan, date, k) =
                  {DailyItemId(date, t) : t \in DOMAIN Tree(plan, k)}
             /\ \A t \in DOMAIN Tree(plan, k) :
                  Family(plan, date, k)[DailyItemId(date, t)] =
                    [parent |-> DailyParent(date, Tree(plan, k)[t].parent),
                     period |-> Tree(plan, k)[t].period, done |-> FALSE]
  <2>1. PICK tree : tree = Tree(plan, k)
    OBVIOUS
  <2> QED
    BY <2>1, DailyRowsOf, Zenon DEF Family
<1>4. IsFiniteSet(DOMAIN new)
  <2>1. PICK f : f = [t \in DOMAIN rows |-> DailyItemId(date, t)]
    OBVIOUS
  <2>2. f \in Surjection(DOMAIN rows, DOMAIN new)
    BY <1>2, <2>1 DEF Surjection
  <2>3. IsFiniteSet(DOMAIN rows)
    BY DEF TreesOf
  <2> QED
    BY <2>2, <2>3, FS_Surjection
<1>5. /\ DOMAIN rows = UNION {DOMAIN Tree(plan, k) : k \in K}
      /\ \A k \in K : \A t \in DOMAIN Tree(plan, k) : rows[t] = Tree(plan, k)[t]
  BY DEF TreesOf
<1>6. DOMAIN new = UNION {DOMAIN Family(plan, date, k) : k \in K}
  <2>1. ASSUME NEW i \in DOMAIN new
        PROVE  \E k \in K : i \in DOMAIN Family(plan, date, k)
    <3>1. PICK t \in DOMAIN rows : i = DailyItemId(date, t)
      BY <1>2
    <3>2. PICK k \in K : t \in DOMAIN Tree(plan, k)
      BY <1>5
    <3>3. i \in {DailyItemId(date, u) : u \in DOMAIN Tree(plan, k)}
      BY <3>1, <3>2
    <3>4. DOMAIN Family(plan, date, k) = {DailyItemId(date, u) : u \in DOMAIN Tree(plan, k)}
      BY <1>3
    <3> QED
      BY <3>3, <3>4, Zenon
  <2>2. ASSUME NEW k \in K, NEW i \in DOMAIN Family(plan, date, k)
        PROVE  i \in DOMAIN new
    <3>1. PICK t \in DOMAIN Tree(plan, k) : i = DailyItemId(date, t)
      BY <1>3
    <3>2. t \in DOMAIN rows
      BY <1>5
    <3> QED
      BY <1>2, <3>1, <3>2
  <2> QED
    BY <2>1, <2>2
<1>7. ASSUME NEW k \in K, NEW i \in DOMAIN Family(plan, date, k)
      PROVE  new[i] = Family(plan, date, k)[i]
  <2>1. PICK t \in DOMAIN Tree(plan, k) : i = DailyItemId(date, t)
    BY <1>3
  <2>2. t \in DOMAIN rows /\ rows[t] = Tree(plan, k)[t]
    BY <1>5
  <2> QED
    BY <1>2, <1>3, <2>1, <2>2, Zenon
<1> QED
  BY <1>1, <1>4, <1>6, <1>7 DEF Forest

LEMMA DayHasWholeTree ==
  ASSUME saves \in Nat, NEW plan \in [1 .. saves -> Bodies], Kept(plan),
         NEW date \in Int, NEW k \in 1 .. saves,
         NEW i \in DOMAIN Family(plan, date, k), i \in DOMAIN daily
  PROVE  DOMAIN Family(plan, date, k) \subseteq DOMAIN daily
<1>1. ItemKept(plan, i)
  BY DEF Kept
<1>2. PICK d \in Int, m \in 1 .. saves :
        /\ i \in DOMAIN Family(plan, d, m)
        /\ DOMAIN Family(plan, d, m) \subseteq DOMAIN daily
  BY <1>1, Zenon DEF ItemKept
<1>3. ValidTemplate(plan[k].items) /\ ValidTemplate(plan[m].items)
  BY DEF Kept
<1>4. DOMAIN Family(plan, date, k) = {Id(date, k, n) : n \in DOMAIN plan[k].items}
  BY <1>3, FamilyIds
<1>5. DOMAIN Family(plan, d, m) = {Id(d, m, n) : n \in DOMAIN plan[m].items}
  BY <1>3, FamilyIds
<1>6. d = date /\ m = k
  BY <1>2, <1>4, <1>5 DEF Id
<1> QED
  BY <1>2, <1>6

\* What a day lacks of whole trees is whole trees.
LEMMA ForestMissing ==
  ASSUME saves \in Nat, NEW plan \in [1 .. saves -> Bodies], Kept(plan),
         NEW date \in Int, NEW K \in SUBSET (1 .. saves),
         NEW rows, Forest(rows, plan, date, K),
         NEW missing, missing = DOMAIN rows \ {i \in DOMAIN daily : i[1] = date}
  PROVE  \E L \in SUBSET (1 .. saves) : Forest(Restrict(rows, missing), plan, date, L)
<1>1. PICK new : new = Restrict(rows, missing)
  OBVIOUS
<1>2. PICK L : L = {k \in K : \E i \in DOMAIN Family(plan, date, k) : i \in missing}
  OBVIOUS
<1>3. /\ IsFiniteSet(DOMAIN rows)
      /\ DOMAIN rows = UNION {DOMAIN Family(plan, date, k) : k \in K}
      /\ \A k \in K : \A i \in DOMAIN Family(plan, date, k) :
           rows[i] = Family(plan, date, k)[i]
  BY DEF Forest
<1>4. DOMAIN new = missing /\ \A i \in missing : new[i] = rows[i]
  BY <1>1 DEF Restrict
<1>5. IsFiniteSet(DOMAIN new)
  <2>1. missing \in SUBSET DOMAIN rows
    OBVIOUS
  <2> QED
    BY <1>3, <1>4, <2>1, FS_Subset
<1>6. ASSUME NEW k \in L, NEW j \in DOMAIN Family(plan, date, k)
      PROVE  j \in missing
  <2>1. k \in K /\ k \in 1 .. saves
    BY <1>2
  <2>2. PICK i \in DOMAIN Family(plan, date, k) : i \in missing
    BY <1>2
  <2>3. j \in DOMAIN rows
    BY <1>3, <2>1
  <2>4. ValidTemplate(plan[k].items)
    BY <2>1 DEF Kept
  <2>5. i[1] = date
    BY <2>1, <2>2, <2>4, FamilyRows
  <2>6. i \notin DOMAIN daily
    BY <2>2, <2>5
  <2>7. j \notin DOMAIN daily
    BY <2>1, <2>2, <2>6, DayHasWholeTree
  <2> QED
    BY <2>3, <2>7
<1>7. DOMAIN new = UNION {DOMAIN Family(plan, date, k) : k \in L}
  <2>1. ASSUME NEW i \in missing
        PROVE  \E k \in L : i \in DOMAIN Family(plan, date, k)
    <3>1. PICK k \in K : i \in DOMAIN Family(plan, date, k)
      BY <1>3
    <3> QED
      BY <1>2, <3>1
  <2>2. \A k \in L : \A j \in DOMAIN Family(plan, date, k) : j \in missing
    BY <1>6
  <2>3. missing = UNION {DOMAIN Family(plan, date, k) : k \in L}
    BY <2>1, <2>2, Zenon
  <2> QED
    BY <1>4, <2>3
<1>8. ASSUME NEW k \in L, NEW i \in DOMAIN Family(plan, date, k)
      PROVE  new[i] = Family(plan, date, k)[i]
  <2>1. k \in K /\ i \in missing
    BY <1>2, <1>6
  <2> QED
    BY <1>3, <1>4, <2>1
<1>9. L \in SUBSET (1 .. saves)
  BY <1>2
<1> QED
  BY <1>5, <1>7, <1>8, <1>9, <1>1 DEF Forest

LEMMA DailyFacts ==
  ASSUME saves \in Nat, NEW plan \in [1 .. saves -> Bodies], Kept(plan)
  PROVE  /\ Null \notin DOMAIN daily
         /\ \A i \in DOMAIN daily :
              /\ i[1] \in Int
              /\ daily[i].done \in BOOLEAN
              /\ daily[i] = [parent |-> daily[i].parent, period |-> daily[i].period,
                             done |-> daily[i].done]
              /\ daily[i].parent # Null =>
                   daily[i].parent \in DOMAIN daily /\ daily[i].parent[1] = i[1]
<1>1. ASSUME NEW i \in DOMAIN daily
      PROVE  /\ i \in Int \X (Nat \X Nat)
             /\ daily[i].done \in BOOLEAN
             /\ daily[i] = [parent |-> daily[i].parent, period |-> daily[i].period,
                            done |-> daily[i].done]
             /\ daily[i].parent # Null =>
                  daily[i].parent \in DOMAIN daily /\ daily[i].parent[1] = i[1]
  <2>1. ItemKept(plan, i)
    BY DEF Kept
  <2>2. PICK d \in Int, m \in 1 .. saves :
          /\ i \in DOMAIN Family(plan, d, m)
          /\ DOMAIN Family(plan, d, m) \subseteq DOMAIN daily
          /\ daily[i] = [parent |-> Family(plan, d, m)[i].parent,
                         period |-> Family(plan, d, m)[i].period,
                         done |-> daily[i].done]
          /\ daily[i].done \in BOOLEAN
    BY <2>1, Zenon DEF ItemKept
  <2>3. ValidTemplate(plan[m].items)
    BY DEF Kept
  <2>4. \A j \in DOMAIN Family(plan, d, m) :
          /\ j[1] = d /\ j \in Int \X (Nat \X Nat)
          /\ Family(plan, d, m)[j].parent # Null =>
               Family(plan, d, m)[j].parent \in DOMAIN Family(plan, d, m)
    BY <2>3, FamilyRows
  <2>5. daily[i].parent = Family(plan, d, m)[i].parent
    BY <2>2
  <2>6. daily[i].parent # Null =>
          daily[i].parent \in DOMAIN daily /\ daily[i].parent[1] = i[1]
    BY <2>2, <2>4, <2>5, Zenon
  <2>7. daily[i] = [parent |-> daily[i].parent, period |-> daily[i].period,
                    done |-> daily[i].done]
    BY <2>2
  <2> QED
    BY <2>2, <2>4, <2>6, <2>7, Zenon
<1>2. Null \notin DOMAIN daily
  BY <1>1, TodoAssumption, Zenon
<1>3. \A i \in Int \X (Nat \X Nat) : i[1] \in Int
  OBVIOUS
<1> QED
  BY <1>1, <1>2, <1>3, Zenon

\* collectDescendantIds is given the rows of the item's day; the rows of
\* other days would add nothing.
LEMMA DayIsEnough ==
  ASSUME Shape, NEW plan \in [1 .. saves -> Bodies], Kept(plan),
         NEW root \in DOMAIN daily
  PROVE  Descendants(Restrict(daily, ItemsOf(root[1])), root) =
           Descendants(daily, root)
<1> DEFINE rows == Restrict(daily, ItemsOf(root[1]))
<1>1. DOMAIN rows = {i \in DOMAIN daily : i[1] = root[1]}
      /\ \A i \in DOMAIN rows : rows[i] = daily[i]
  BY DEF Restrict, ItemsOf
<1>2. Null \notin DOMAIN daily
      /\ \A i \in DOMAIN daily :
           daily[i].parent # Null =>
             daily[i].parent \in DOMAIN daily /\ daily[i].parent[1] = i[1]
  BY DailyFacts DEF Shape
<1> HIDE DEF rows
<1>3. DOMAIN rows \subseteq DOMAIN daily /\ IsFiniteSet(DOMAIN daily)
  BY <1>1 DEF Shape
<1>4. IsFiniteSet(DOMAIN rows)
  BY <1>3, FS_Subset
<1>5. root \in DOMAIN rows
  BY <1>1
<1>6. \A i \in DOMAIN rows : daily[i].parent = rows[i].parent
  BY <1>1
<1>7. \A i \in DOMAIN daily \ DOMAIN rows : daily[i].parent \notin DOMAIN rows
  BY <1>1, <1>2
<1>8. Descendants(daily, root) = Descendants(rows, root)
  BY <1>3, <1>4, <1>5, <1>6, <1>7, DescendantsAgree
<1> QED
  BY <1>8 DEF rows


-----------------------------------------------------------------------------
(* Every step keeps the plan                                                *)

\* What is stored stays, and no transaction begins.
LEMMA PartedKept ==
  ASSUME NEW plan, Parted(plan), saves \in Nat, saves' \in Nat, saves <= saves',
         UNCHANGED <<settings, template, crossed>>,
         \A v \in Workers : work'[v].at = "replace" => work'[v] = work[v]
  PROVE  Parted(plan)'
<1> SUFFICES ASSUME ~crossed' PROVE Parted(plan)'
  BY DEF Parted
<1>1. ~crossed
  OBVIOUS
<1>2. \A v \in Workers : Open(v)' => Open(v) /\ work'[v] = work[v]
  BY DEF Open
<1>3. \A k \in 1 .. saves : k \in 1 .. saves'
  OBVIOUS
<1>4. \/ settings' = Null /\ template' = <<>>
      \/ \E k \in 1 .. saves' :
           template' = Tree(plan, k) /\ settings' = SettingsOf(plan[k])
  BY <1>1, <1>3, Zenon DEF Parted
<1>5. \A v \in Workers : Open(v)' => work'[v].deleted = DOMAIN template'
  BY <1>1, <1>2, Zenon DEF Parted
<1>6. \A v, w \in Workers : Open(v)' /\ Open(w)' => v = w
  BY <1>1, <1>2, Zenon DEF Parted
<1> QED
  BY <1>4, <1>5, <1>6, Zenon DEF Parted

\* An invocation goes on, and nothing that is stored changes.
LEMMA Going ==
  ASSUME Shape, NEW plan \in [1 .. saves -> Bodies], Kept(plan),
         NEW w \in Workers, NEW next, JobKept(plan, next), next.at # "replace",
         Goto(w, next), UNCHANGED <<clock, settings, template, crossed, saves, daily>>
  PROVE  TodoInv'
<1>1. work' = [work EXCEPT ![w] = next] /\ work = [v \in Workers |-> work[v]]
  BY DEF Goto, Shape
<1>2. /\ work' = [v \in Workers |-> work'[v]]
      /\ \A v \in Workers : work'[v] = IF v = w THEN next ELSE work[v]
  BY <1>1
<1>3. Shape'
  BY <1>2 DEF Shape
<1>4. TemplateKept(plan)'
  BY DEF Kept, TemplateKept
<1>5. \A i \in DOMAIN daily' : ItemKept(plan, i)'
  BY DEF Kept, ItemKept
<1>6. \A v \in Workers : JobKept(plan, work[v])'
  <2>1. \A v \in Workers : JobKept(plan, work'[v])
    BY <1>2, Zenon DEF Kept
  <2> QED
    BY <2>1, Zenon DEF JobKept, IsForest
<1>7. Parted(plan)'
  <2>1. \A v \in Workers : work'[v].at = "replace" => work'[v] = work[v]
    BY <1>2
  <2>2. saves \in Nat /\ saves' \in Nat /\ saves <= saves'
    BY DEF Shape
  <2> QED
    BY <2>1, <2>2, PartedKept DEF Kept
<1>8. Kept(plan)'
  BY <1>4, <1>5, <1>6, <1>7 DEF Kept
<1> QED
  BY <1>3, <1>8 DEF TodoInv

LEMMA DateIsInt ==
  ASSUME NEW instant \in Int, NEW zone \in Int
  PROVE  LocalDate(instant, zone) \in Int
BY TodoAssumption DEF LocalDate

LEMMA ZoneIsInt ==
  ASSUME Shape, NEW plan \in [1 .. saves -> Bodies], Kept(plan), settings # Null
  PROVE  settings.zone \in Int
<1>1. PICK k \in 1 .. saves : settings = SettingsOf(plan[k])
  BY DEF Kept, TemplateKept
<1>2. plan[k].zone \in Int
  BY BodiesAssumption
<1> QED
  BY <1>1, <1>2 DEF SettingsOf

LEMMA GeneratingKept ==
  ASSUME NEW plan, NEW date \in Int
  PROVE  JobKept(plan, Generating(date))
BY DEF JobKept, Generating

LEMMA IdleKept ==
  ASSUME NEW plan
  PROVE  JobKept(plan, Idle)
BY DEF JobKept, Idle

LEMMA BatchStep ==
  ASSUME TodoInv, NEW w \in Workers, Batch(w) \/ GenerateByHand(w)
  PROVE  TodoInv'
<1>1. Shape /\ \E plan \in [1 .. saves -> Bodies] : Kept(plan)
  BY DEF TodoInv
<1>2. PICK plan \in [1 .. saves -> Bodies] : Kept(plan)
  BY <1>1
<1>3. /\ settings # Null
      /\ Goto(w, Generating(LocalDate(clock, settings.zone)))
      /\ UNCHANGED <<clock, settings, template, crossed, saves, daily>>
  BY DEF Batch, GenerateByHand
<1>4. PICK next : next = Generating(LocalDate(clock, settings.zone))
  OBVIOUS
<1>5. LocalDate(clock, settings.zone) \in Int
  BY <1>1, <1>2, <1>3, ZoneIsInt, DateIsInt DEF Shape
<1>6. JobKept(plan, next) /\ next.at # "replace"
  BY <1>4, <1>5, GeneratingKept DEF Generating
<1>7. Goto(w, next)
  BY <1>3, <1>4, Zenon
<1> QED
  BY <1>1, <1>2, <1>3, <1>6, <1>7, Going

LEMMA ReadTemplatesStep ==
  ASSUME TodoInv, NEW w \in Workers, ReadTemplates(w)
  PROVE  TodoInv'
<1>1. Shape /\ \E plan \in [1 .. saves -> Bodies] : Kept(plan)
  BY DEF TodoInv
<1>2. PICK plan \in [1 .. saves -> Bodies] : Kept(plan)
  BY <1>1
<1>3. /\ work[w].at = "templates"
      /\ Goto(w, IF template = <<>> THEN Idle
                 ELSE [at |-> "existing", date |-> work[w].date,
                       rows |-> DailyRows(template, work[w].date)])
      /\ UNCHANGED <<clock, settings, template, crossed, saves, daily>>
  BY DEF ReadTemplates
<1>4. work[w].date \in Int
  BY <1>2, <1>3 DEF Kept, JobKept
<1>5. PICK next : next = IF template = <<>> THEN Idle
                         ELSE [at |-> "existing", date |-> work[w].date,
                               rows |-> DailyRows(template, work[w].date)]
  OBVIOUS
<1>6. JobKept(plan, next) /\ next.at # "replace"
  <2>1. CASE template = <<>>
    BY <1>5, <2>1, IdleKept DEF Idle
  <2>2. CASE template # <<>>
    <3>1. PICK K \in SUBSET (1 .. saves) : TreesOf(template, plan, K)
      BY <1>2 DEF Kept, TemplateKept
    <3>2. PICK rows : rows = DailyRows(template, work[w].date)
      OBVIOUS
    <3>3. next = [at |-> "existing", date |-> work[w].date, rows |-> rows]
      BY <1>5, <2>2, <3>2, Zenon
    <3>4. next.at = "existing" /\ next.date = work[w].date /\ next.rows = rows
      BY <3>3
    <3>5. Forest(rows, plan, work[w].date, K)
      BY <3>1, <3>2, TreesGrow
    <3>6. \E L \in SUBSET (1 .. saves) : Forest(next.rows, plan, next.date, L)
      BY <3>4, <3>5, Zenon
    <3> QED
      BY <1>4, <3>4, <3>6 DEF JobKept
  <2> QED
    BY <2>1, <2>2
<1>7. Goto(w, next)
  BY <1>3, <1>5, Zenon
<1> QED
  BY <1>1, <1>2, <1>3, <1>6, <1>7, Going

LEMMA ReadExistingStep ==
  ASSUME TodoInv, NEW w \in Workers, ReadExisting(w)
  PROVE  TodoInv'
<1>1. Shape /\ \E plan \in [1 .. saves -> Bodies] : Kept(plan)
  BY DEF TodoInv
<1>2. PICK plan \in [1 .. saves -> Bodies] : Kept(plan)
  BY <1>1
<1> DEFINE missing == Missing(work[w].rows, ItemsOf(work[w].date))
<1>3. /\ work[w].at = "existing"
      /\ Goto(w, IF missing = {} THEN Idle
                 ELSE [at |-> "insert", rows |-> Restrict(work[w].rows, missing)])
      /\ UNCHANGED <<clock, settings, template, crossed, saves, daily>>
  BY DEF ReadExisting
<1>4. work[w].date \in Int
  BY <1>2, <1>3 DEF Kept, JobKept
<1>5. PICK rows : rows = work[w].rows
  OBVIOUS
<1>6. PICK date \in Int : date = work[w].date
  BY <1>4
<1>7. PICK K \in SUBSET (1 .. saves) : Forest(rows, plan, date, K)
  BY <1>2, <1>3, <1>5, <1>6 DEF Kept, JobKept
<1>8. missing = DOMAIN rows \ {i \in DOMAIN daily : i[1] = date}
  BY <1>5, <1>6 DEF Missing, ItemsOf
<1>9. PICK next : next = IF missing = {} THEN Idle
                         ELSE [at |-> "insert", rows |-> Restrict(work[w].rows, missing)]
  OBVIOUS
<1>10. JobKept(plan, next) /\ next.at # "replace"
  <2>1. CASE missing = {}
    BY <1>9, <2>1, IdleKept DEF Idle
  <2>2. CASE missing # {}
    <3>1. PICK new : new = Restrict(rows, missing)
      OBVIOUS
    <3>2. next = [at |-> "insert", rows |-> new]
      BY <1>5, <1>9, <2>2, <3>1, Zenon
    <3>3. next.at = "insert" /\ next.rows = new
      BY <3>2
    <3>4. \E L \in SUBSET (1 .. saves) : Forest(new, plan, date, L)
      <4>1. saves \in Nat
        BY <1>1 DEF Shape
      <4>2. PICK m : m = missing
        OBVIOUS
      <4>3. m = DOMAIN rows \ {i \in DOMAIN daily : i[1] = date}
            /\ new = Restrict(rows, m)
        BY <1>8, <3>1, <4>2
      <4>4. /\ Kept(plan) /\ plan \in [1 .. saves -> Bodies] /\ date \in Int
            /\ K \in SUBSET (1 .. saves) /\ Forest(rows, plan, date, K)
        BY <1>2, <1>6, <1>7
      <4> HIDE DEF missing
      <4>5. \E L \in SUBSET (1 .. saves) : Forest(Restrict(rows, m), plan, date, L)
        BY <4>1, <4>3, <4>4, ForestMissing
      <4> QED
        BY <4>3, <4>5, Zenon
    <3>5. IsForest(next.rows, plan)
      BY <3>3, <3>4, Zenon DEF IsForest
    <3> QED
      BY <3>3, <3>5 DEF JobKept
  <2> QED
    BY <2>1, <2>2
<1>11. Goto(w, next)
  BY <1>3, <1>9, Zenon
<1> QED
  BY <1>1, <1>2, <1>3, <1>10, <1>11, Going


LEMMA FindItemStep ==
  ASSUME TodoInv, NEW w \in Workers, FindItem(w)
  PROVE  TodoInv'
<1>1. Shape /\ \E plan \in [1 .. saves -> Bodies] : Kept(plan)
  BY DEF TodoInv
<1>2. PICK plan \in [1 .. saves -> Bodies] : Kept(plan)
  BY <1>1
<1>3. PICK i \in DOMAIN daily, completed \in BOOLEAN :
        Goto(w, [at |-> "day", item |-> i, completed |-> completed])
  BY Zenon DEF FindItem
<1>4. UNCHANGED <<clock, settings, template, crossed, saves, daily>>
  BY DEF FindItem
<1>5. PICK next : next = [at |-> "day", item |-> i, completed |-> completed]
  OBVIOUS
<1>6. JobKept(plan, next) /\ next.at # "replace"
  BY <1>3, <1>5 DEF JobKept
<1>7. Goto(w, next)
  BY <1>3, <1>5, Zenon
<1> QED
  BY <1>1, <1>2, <1>4, <1>6, <1>7, Going

LEMMA ReadDayStep ==
  ASSUME TodoInv, NEW w \in Workers, ReadDay(w)
  PROVE  TodoInv'
<1>1. Shape /\ \E plan \in [1 .. saves -> Bodies] : Kept(plan)
  BY DEF TodoInv
<1>2. PICK plan \in [1 .. saves -> Bodies] : Kept(plan)
  BY <1>1
<1> DEFINE rows == Restrict(daily, ItemsOf(work[w].item[1]))
<1>3. /\ work[w].at = "day"
      /\ Goto(w, [at |-> "update", completed |-> work[w].completed,
                  item |-> work[w].item, ids |-> Descendants(rows, work[w].item)])
      /\ UNCHANGED <<clock, settings, template, crossed, saves, daily>>
  BY DEF ReadDay
<1>4. work[w].item \in DOMAIN daily /\ work[w].completed \in BOOLEAN
  BY <1>2, <1>3 DEF Kept, JobKept
<1>5. PICK item \in DOMAIN daily : item = work[w].item
  BY <1>4
<1>6. Descendants(rows, item) = Descendants(daily, item)
  BY <1>1, <1>2, <1>5, DayIsEnough
<1>7. PICK next : next = [at |-> "update", completed |-> work[w].completed,
                          item |-> item, ids |-> Descendants(daily, item)]
  OBVIOUS
<1>8. /\ next.at = "update" /\ next.completed = work[w].completed
      /\ next.item = item /\ next.ids = Descendants(daily, item)
  BY <1>7
<1>9. JobKept(plan, next)
  <2>1. next.ids = Descendants(daily, next.item)
    BY <1>8, Zenon
  <2> QED
    BY <1>4, <1>5, <1>8, <2>1 DEF JobKept
<1>10. Goto(w, next)
  BY <1>3, <1>5, <1>6, <1>7, Zenon
<1> QED
  BY <1>1, <1>2, <1>3, <1>8, <1>9, <1>10, Going

LEMMA CrashStep ==
  ASSUME TodoInv, NEW w \in Workers, Crash(w)
  PROVE  TodoInv'
<1>1. Shape /\ \E plan \in [1 .. saves -> Bodies] : Kept(plan)
  BY DEF TodoInv
<1>2. PICK plan \in [1 .. saves -> Bodies] : Kept(plan)
  BY <1>1
<1>3. Goto(w, Idle) /\ UNCHANGED <<clock, settings, template, crossed, saves, daily>>
  BY DEF Crash
<1>4. JobKept(plan, Idle) /\ Idle.at # "replace"
  BY IdleKept DEF Idle
<1> QED
  BY <1>1, <1>2, <1>3, <1>4, Going

LEMMA TickStep ==
  ASSUME TodoInv, Tick
  PROVE  TodoInv'
<1>1. Shape /\ \E plan \in [1 .. saves -> Bodies] : Kept(plan)
  BY DEF TodoInv
<1>2. PICK plan \in [1 .. saves -> Bodies] : Kept(plan)
  BY <1>1
<1>3. clock' = clock + 1 /\ UNCHANGED <<settings, template, crossed, saves, daily, work>>
  BY DEF Tick
<1>4. Shape'
  BY <1>1, <1>3 DEF Shape
<1>5. Parted(plan)'
  BY <1>2, <1>3 DEF Kept, Parted, Open
<1>6. Kept(plan)'
  BY <1>2, <1>3, <1>5 DEF Kept, TemplateKept, ItemKept, JobKept, IsForest
<1> QED
  BY <1>3, <1>4, <1>6 DEF TodoInv

LEMMA SameTrees ==
  ASSUME NEW rows, NEW plan, NEW longer, NEW K, TreesOf(rows, plan, K),
         \A k \in K : Tree(longer, k) = Tree(plan, k)
  PROVE  TreesOf(rows, longer, K)
<1>1. UNION {DOMAIN Tree(longer, k) : k \in K} = UNION {DOMAIN Tree(plan, k) : k \in K}
  OBVIOUS
<1> QED
  BY <1>1 DEF TreesOf

LEMMA SameForest ==
  ASSUME NEW rows, NEW plan, NEW longer, NEW K,
         \A k \in K : Tree(longer, k) = Tree(plan, k),
         \A date : \A k \in K : Family(longer, date, k) = Family(plan, date, k)
  PROVE  /\ \A date : Forest(rows, plan, date, K) => Forest(rows, longer, date, K)
         /\ UNION {DOMAIN Tree(plan, k) : k \in K} = UNION {DOMAIN Tree(longer, k) : k \in K}
<1>1. UNION {DOMAIN Tree(plan, k) : k \in K} = UNION {DOMAIN Tree(longer, k) : k \in K}
  OBVIOUS
<1>2. ASSUME NEW date, Forest(rows, plan, date, K)
      PROVE  Forest(rows, longer, date, K)
  <2>1. \A k \in K : Family(longer, date, k) = Family(plan, date, k)
    OBVIOUS
  <2>2. UNION {DOMAIN Family(longer, date, k) : k \in K} =
          UNION {DOMAIN Family(plan, date, k) : k \in K}
    BY <2>1
  <2> QED
    BY <1>2, <2>1, <2>2 DEF Forest
<1> QED
  BY <1>1, <1>2

\* A save draws new ids: the trees of the saves before it are as they were.
LEMMA SaveSettingsStep ==
  ASSUME TodoInv, NEW w \in Workers, SaveSettings(w)
  PROVE  TodoInv'
<1>1. Shape /\ \E plan \in [1 .. saves -> Bodies] : Kept(plan)
  BY DEF TodoInv
<1>2. PICK plan \in [1 .. saves -> Bodies] : Kept(plan)
  BY <1>1
<1>3. PICK body \in Bodies :
        /\ ValidTemplate(body.items)
        /\ Goto(w, [at |-> "delete", body |-> body, id |-> saves + 1,
                    first |-> template = <<>>])
  BY Zenon DEF SaveSettings
<1>4. saves' = saves + 1 /\ UNCHANGED <<clock, settings, template, crossed, daily>>
  BY DEF SaveSettings
<1>5. PICK m \in Nat : m = saves
  BY <1>1 DEF Shape
<1>6. PICK longer : longer = [k \in 1 .. m + 1 |-> IF k = m + 1 THEN body ELSE plan[k]]
  OBVIOUS
<1>7. /\ longer \in [1 .. m + 1 -> Bodies]
      /\ longer[m + 1] = body
      /\ \A k \in 1 .. m : k \in 1 .. m + 1 /\ longer[k] = plan[k]
  BY <1>2, <1>5, <1>6
<1>8. /\ \A k \in 1 .. m : Tree(longer, k) = Tree(plan, k)
      /\ \A k \in 1 .. m : \A date : Family(longer, date, k) = Family(plan, date, k)
  <2>1. \A k \in 1 .. m : Tree(longer, k) = Tree(plan, k)
    BY <1>7, Zenon DEF Tree
  <2> QED
    BY <2>1, Zenon DEF Family
<1>9. PICK next : next = [at |-> "delete", body |-> body, id |-> m + 1,
                          first |-> template = <<>>]
  OBVIOUS
<1>10. Goto(w, next)
  BY <1>3, <1>5, <1>9, Zenon
<1>11. /\ work' = [v \in Workers |-> work'[v]]
       /\ \A v \in Workers : work'[v] = IF v = w THEN next ELSE work[v]
  BY <1>1, <1>10 DEF Goto, Shape
<1>12. Shape'
  BY <1>1, <1>4, <1>11 DEF Shape
<1>13. \A k \in 1 .. m + 1 : ValidTemplate(longer[k].items)
  <2>1. \A k \in 1 .. m + 1 : k = m + 1 \/ k \in 1 .. m
    OBVIOUS
  <2>2. \A k \in 1 .. m : ValidTemplate(plan[k].items)
    BY <1>2, <1>5 DEF Kept
  <2> QED
    BY <1>3, <1>7, <2>1, <2>2, Zenon
<1>14. TemplateKept(longer)'
  <2>1. PICK K \in SUBSET (1 .. m) :
          /\ TreesOf(template, plan, K)
          /\ settings = Null \/ \E k \in K : settings = SettingsOf(plan[k])
    BY <1>2, <1>5 DEF Kept, TemplateKept
  <2>2. K \in SUBSET (1 .. m + 1) /\ \A k \in K : k \in 1 .. m
    OBVIOUS
  <2>3. TreesOf(template, longer, K)
    BY <1>8, <2>1, <2>2, SameTrees
  <2>4. settings = Null \/ \E k \in K : settings = SettingsOf(longer[k])
    BY <1>7, <2>1, <2>2, Zenon
  <2>5. /\ K \in SUBSET (1 .. saves') /\ template' = template /\ settings' = settings
    BY <1>4, <1>5, <2>2
  <2>6. TreesOf(template', longer, K)
    BY <2>3, <2>5, Zenon
  <2> QED
    BY <2>4, <2>5, <2>6, Zenon DEF TemplateKept
<1>15. Parted(longer)'
  <2>1. Parted(longer)
    <3>1. Parted(plan)
      BY <1>2 DEF Kept
    <3>2. ASSUME NEW k \in 1 .. saves
          PROVE  Tree(longer, k) = Tree(plan, k) /\ longer[k] = plan[k]
      BY <1>5, <1>7, <1>8
    <3> QED
      BY <3>1, <3>2, Zenon DEF Parted
  <2>2. \A v \in Workers : work'[v].at = "replace" => work'[v] = work[v]
    BY <1>9, <1>11
  <2>3. saves \in Nat /\ saves' \in Nat /\ saves <= saves'
    BY <1>4, <1>5
  <2> QED
    BY <1>4, <2>1, <2>2, <2>3, PartedKept
<1>16. ASSUME NEW i \in DOMAIN daily
       PROVE  ItemKept(longer, i)'
  <2>1. ItemKept(plan, i)
    BY <1>2 DEF Kept
  <2>2. PICK d \in Int, k \in 1 .. m :
          /\ i \in DOMAIN Family(plan, d, k)
          /\ DOMAIN Family(plan, d, k) \subseteq DOMAIN daily
          /\ daily[i] = [parent |-> Family(plan, d, k)[i].parent,
                         period |-> Family(plan, d, k)[i].period,
                         done |-> daily[i].done]
          /\ daily[i].done \in BOOLEAN
    BY <1>5, <2>1, Zenon DEF ItemKept
  <2>3. k \in 1 .. saves' /\ Family(longer, d, k) = Family(plan, d, k)
    BY <1>4, <1>5, <1>7, <1>8
  <2> QED
    BY <1>4, <2>2, <2>3, Zenon DEF ItemKept
<1>17. ASSUME NEW v \in Workers
       PROVE  JobKept(longer, work[v])'
  <2>1. CASE v = w
    <3>1. work'[v] = next /\ next.at = "delete" /\ next.id = m + 1 /\ next.body = body
      BY <1>9, <1>11, <2>1
    <3>2. next.id \in 1 .. saves' /\ next.body = longer[next.id]
      BY <1>4, <1>5, <1>7, <3>1
    <3> QED
      BY <3>1, <3>2 DEF JobKept
  <2>2. CASE v # w
    <3>1. PICK job : job = work[v]
      OBVIOUS
    <3>2. work'[v] = job /\ JobKept(plan, job)
      BY <1>2, <1>11, <2>2, <3>1 DEF Kept
    <3>3. ASSUME NEW K \in SUBSET (1 .. m)
          PROVE  /\ K \in SUBSET (1 .. m + 1)
                 /\ \A date : Forest(job.rows, plan, date, K) =>
                      Forest(job.rows, longer, date, K)
                 /\ UNION {DOMAIN Tree(plan, k) : k \in K} =
                      UNION {DOMAIN Tree(longer, k) : k \in K}
      <4>1. K \in SUBSET (1 .. m + 1) /\ \A k \in K : k \in 1 .. m
        OBVIOUS
      <4>2. \A k \in K : Tree(longer, k) = Tree(plan, k)
        BY <1>8, <4>1
      <4>3. \A date : \A k \in K : Family(longer, date, k) = Family(plan, date, k)
        BY <1>8, <4>1
      <4> QED
        BY <4>1, <4>2, <4>3, SameForest
    <3>4. job.at = "existing" =>
            \E K \in SUBSET (1 .. m + 1) : Forest(job.rows, longer, job.date, K)
      BY <1>5, <3>2, <3>3, Zenon DEF JobKept
    <3>5. job.at = "insert" =>
            \E date \in Int, K \in SUBSET (1 .. m + 1) : Forest(job.rows, longer, date, K)
      BY <1>5, <3>2, <3>3, Zenon DEF JobKept, IsForest
    <3>6. /\ job.at \in {"delete", "replace"} =>
               job.id \in 1 .. m + 1 /\ job.body = longer[job.id]
          /\ job.at = "replace" =>
               \E K \in SUBSET (1 .. m + 1) :
                 job.deleted = UNION {DOMAIN Tree(longer, k) : k \in K}
      BY <1>5, <1>7, <3>2, <3>3, Zenon DEF JobKept
    <3>7. /\ job.at \in {"templates", "existing"} => job.date \in Int
          /\ job.at \in {"day", "update"} =>
               job.item \in DOMAIN daily /\ job.completed \in BOOLEAN
          /\ job.at = "update" => job.ids = Descendants(daily, job.item)
      BY <3>2, Zenon DEF JobKept
    <3>8. saves' = m + 1 /\ daily' = daily
      BY <1>4, <1>5
    <3> QED
      BY <3>2, <3>4, <3>5, <3>6, <3>7, <3>8, Zenon DEF JobKept, IsForest
  <2> QED
    BY <2>1, <2>2
<1>18. Kept(longer)'
  BY <1>4, <1>5, <1>13, <1>14, <1>16, <1>17, <1>15 DEF Kept
<1> QED
  BY <1>4, <1>5, <1>7, <1>12, <1>18 DEF TodoInv


LEMMA NothingOrTree ==
  ASSUME NEW plan, NEW k, DOMAIN Tree(plan, k) = {}
  PROVE  Tree(plan, k) = <<>>
<1>1. PICK tree : tree = Tree(plan, k)
  OBVIOUS
<1>2. tree = [t \in DOMAIN tree |-> tree[t]]
  BY <1>1 DEF Tree, TemplateRows
<1>3. tree = [t \in {} |-> tree[t]]
  BY <1>1, <1>2
<1> QED
  BY <1>1, <1>3

\* A DELETE that another transaction has not crossed finds all there is.
LEMMA DeleteTemplateStep ==
  ASSUME TodoInv, NEW w \in Workers, DeleteTemplate(w)
  PROVE  TodoInv'
<1>1. Shape /\ \E plan \in [1 .. saves -> Bodies] : Kept(plan)
  BY DEF TodoInv
<1>2. PICK plan \in [1 .. saves -> Bodies] : Kept(plan)
  BY <1>1
<1>3. /\ work[w].at = "delete"
      /\ \A v \in Workers : Open(v) => work[v].deleted \cap DOMAIN template = {}
      /\ crossed' = \/ crossed
                    \/ /\ template = <<>>
                       /\ \E v \in Workers : Open(v) /\ work[v].deleted = {}
      /\ Goto(w, [at |-> "replace", body |-> work[w].body, id |-> work[w].id,
                  first |-> work[w].first, deleted |-> DOMAIN template])
      /\ UNCHANGED <<clock, settings, template, saves, daily>>
  BY DEF DeleteTemplate, RowsFree
<1>4. PICK next : next = [at |-> "replace", body |-> work[w].body, id |-> work[w].id,
                          first |-> work[w].first, deleted |-> DOMAIN template]
  OBVIOUS
<1>5. /\ next.at = "replace" /\ next.body = work[w].body /\ next.id = work[w].id
      /\ next.deleted = DOMAIN template
  BY <1>4
<1>6. /\ work' = [v \in Workers |-> work'[v]]
      /\ \A v \in Workers : work'[v] = IF v = w THEN next ELSE work[v]
  <2>1. Goto(w, next)
    BY <1>3, <1>4, Zenon
  <2> QED
    BY <1>1, <2>1 DEF Goto, Shape
<1>7. Shape'
  BY <1>1, <1>3, <1>6 DEF Shape
<1>8. JobKept(plan, next)
  <2>1. work[w].id \in 1 .. saves /\ work[w].body = plan[work[w].id]
    BY <1>2, <1>3 DEF Kept, JobKept
  <2>2. PICK K \in SUBSET (1 .. saves) : TreesOf(template, plan, K)
    BY <1>2 DEF Kept, TemplateKept
  <2>3. next.deleted = UNION {DOMAIN Tree(plan, k) : k \in K}
    BY <1>5, <2>2 DEF TreesOf
  <2>4. \E L \in SUBSET (1 .. saves) : next.deleted = UNION {DOMAIN Tree(plan, k) : k \in L}
    BY <2>3
  <2> QED
    BY <1>5, <2>1, <2>4 DEF JobKept
<1>9. \A v \in Workers : JobKept(plan, work[v])'
  <2>1. \A v \in Workers : JobKept(plan, work'[v])
    BY <1>2, <1>6, <1>8, Zenon DEF Kept
  <2> QED
    BY <1>3, <2>1, Zenon DEF JobKept, IsForest
<1>10. Parted(plan)'
  <2> SUFFICES ASSUME ~crossed' PROVE Parted(plan)'
    BY DEF Parted
  <2>1. ~crossed /\ ~(template = <<>> /\ \E v \in Workers : Open(v) /\ work[v].deleted = {})
    BY <1>3
  <2>2. /\ \/ settings = Null /\ template = <<>>
           \/ \E k \in 1 .. saves :
                template = Tree(plan, k) /\ settings = SettingsOf(plan[k])
        /\ \A v \in Workers : Open(v) => work[v].deleted = DOMAIN template
    BY <1>2, <2>1 DEF Kept, Parted
  <2>3. ASSUME NEW v \in Workers, Open(v)
        PROVE  FALSE
    <3>1. DOMAIN template = {} /\ work[v].deleted = {}
      <4>1. work[v].deleted = DOMAIN template
        BY <2>2, <2>3
      <4>2. work[v].deleted \cap DOMAIN template = {}
        BY <1>3, <2>3
      <4> QED
        BY <4>1, <4>2
    <3>2. template = <<>>
      BY <2>2, <3>1, NothingOrTree
    <3> QED
      BY <2>1, <2>3, <3>1, <3>2
  <2>4. \A v \in Workers : Open(v)' => v = w
    BY <1>6, <2>3 DEF Open
  <2>5. work'[w].deleted = DOMAIN template'
    BY <1>3, <1>5, <1>6
  <2>6. \/ settings' = Null /\ template' = <<>>
        \/ \E k \in 1 .. saves' :
             template' = Tree(plan, k) /\ settings' = SettingsOf(plan[k])
    BY <1>3, <2>2, Zenon
  <2> QED
    BY <2>4, <2>5, <2>6, Zenon DEF Parted
<1>11. TemplateKept(plan)' /\ \A i \in DOMAIN daily' : ItemKept(plan, i)'
  BY <1>2, <1>3 DEF Kept, TemplateKept, ItemKept
<1>12. Kept(plan)'
  BY <1>2, <1>3, <1>9, <1>10, <1>11 DEF Kept
<1> QED
  BY <1>3, <1>7, <1>12 DEF TodoInv

\* A DELETE takes whole trees, so whole trees are left.
LEMMA ReplacedTrees ==
  ASSUME NEW rows, NEW plan, NEW K, NEW L, TreesOf(rows, plan, K),
         NEW deleted, deleted = UNION {DOMAIN Tree(plan, k) : k \in L},
         NEW id, IsFiniteSet(DOMAIN Tree(plan, id))
  PROVE  TreesOf(Replaced(rows, deleted, Tree(plan, id)), plan, (K \ L) \cup {id})
<1>1. PICK tree : tree = Tree(plan, id)
  OBVIOUS
<1>2. PICK new : new = Replaced(rows, deleted, tree)
  OBVIOUS
<1>3. /\ IsFiniteSet(DOMAIN rows)
      /\ DOMAIN rows = UNION {DOMAIN Tree(plan, k) : k \in K}
      /\ \A k \in K : \A t \in DOMAIN Tree(plan, k) : rows[t] = Tree(plan, k)[t]
  BY DEF TreesOf
<1>4. /\ DOMAIN new = (DOMAIN rows \ deleted) \cup DOMAIN tree
      /\ \A t \in DOMAIN new : new[t] = IF t \in DOMAIN tree THEN tree[t] ELSE rows[t]
  BY <1>2 DEF Replaced
<1>5. \A k : \A t \in DOMAIN Tree(plan, k) : t[1] = k
  BY DEF Tree, TemplateRows
<1>6. IsFiniteSet(DOMAIN new)
  <2>1. DOMAIN rows \ deleted \in SUBSET DOMAIN rows
    OBVIOUS
  <2>2. IsFiniteSet(DOMAIN rows \ deleted)
    BY <1>3, <2>1, FS_Subset
  <2>3. IsFiniteSet(DOMAIN tree)
    BY <1>1
  <2>4. IsFiniteSet((DOMAIN rows \ deleted) \cup DOMAIN tree)
    BY <2>2, <2>3, FS_Union
  <2> QED
    BY <1>4, <2>4
<1>7. DOMAIN new = UNION {DOMAIN Tree(plan, k) : k \in (K \ L) \cup {id}}
  <2>1. ASSUME NEW t \in DOMAIN new
        PROVE  \E k \in (K \ L) \cup {id} : t \in DOMAIN Tree(plan, k)
    <3>1. CASE t \in DOMAIN tree
      BY <1>1, <3>1
    <3>2. CASE t \in DOMAIN rows /\ t \notin deleted
      <4>1. PICK k \in K : t \in DOMAIN Tree(plan, k)
        BY <1>3, <3>2
      <4> QED
        BY <3>2, <4>1
    <3> QED
      BY <1>4, <3>1, <3>2
  <2>2. ASSUME NEW k \in K \ L, NEW t \in DOMAIN Tree(plan, k)
        PROVE  t \in DOMAIN new
    <3>1. t \in DOMAIN rows
      BY <1>3
    <3>2. t \notin deleted
      BY <1>5
    <3> QED
      BY <1>4, <3>1, <3>2
  <2>3. \A t \in DOMAIN Tree(plan, id) : t \in DOMAIN new
    BY <1>1, <1>4
  <2> QED
    BY <2>1, <2>2, <2>3
<1>8. ASSUME NEW k \in (K \ L) \cup {id}, NEW t \in DOMAIN Tree(plan, k)
      PROVE  new[t] = Tree(plan, k)[t]
  <2>1. t \in DOMAIN new
    BY <1>7
  <2>2. CASE k = id
    BY <1>1, <1>4, <2>1, <2>2
  <2>3. CASE k # id
    <3>1. t \notin DOMAIN tree
      BY <1>1, <1>5, <2>3
    <3>2. k \in K
      BY <2>3
    <3> QED
      BY <1>3, <1>4, <2>1, <3>1, <3>2
  <2> QED
    BY <2>2, <2>3
<1> QED
  BY <1>1, <1>2, <1>6, <1>7, <1>8 DEF TreesOf

LEMMA ReplaceTemplateStep ==
  ASSUME TodoInv, NEW w \in Workers, ReplaceTemplate(w)
  PROVE  TodoInv'
<1>1. Shape /\ \E plan \in [1 .. saves -> Bodies] : Kept(plan)
  BY DEF TodoInv
<1>2. PICK plan \in [1 .. saves -> Bodies] : Kept(plan)
  BY <1>1
<1>3. /\ work[w].at = "replace"
      /\ template' = Replaced(template, work[w].deleted,
                              TemplateRows(work[w].body.items, work[w].id))
      /\ settings' = SettingsOf(work[w].body)
      /\ Goto(w, IF work[w].first /\ work[w].body.items # <<>>
                 THEN Generating(LocalDate(clock, work[w].body.zone)) ELSE Idle)
      /\ UNCHANGED <<clock, crossed, saves, daily>>
  BY DEF ReplaceTemplate, Open
<1>4. work[w].id \in 1 .. saves /\ work[w].body = plan[work[w].id]
  BY <1>2, <1>3 DEF Kept, JobKept
<1>5. PICK next : next = IF work[w].first /\ work[w].body.items # <<>>
                         THEN Generating(LocalDate(clock, work[w].body.zone)) ELSE Idle
  OBVIOUS
<1>6. Goto(w, next)
  BY <1>3, <1>5, Zenon
<1>7. next = Idle \/ \E date \in Int : next = Generating(date)
  <2>1. work[w].body \in Bodies
    BY <1>4
  <2>2. work[w].body.zone \in Int
    BY <2>1, BodiesAssumption, Zenon
  <2>3. clock \in Int
    BY <1>1 DEF Shape
  <2>4. LocalDate(clock, work[w].body.zone) \in Int
    BY <2>2, <2>3, DateIsInt
  <2> QED
    BY <1>5, <2>4, Zenon
<1>8. /\ work' = [v \in Workers |-> work'[v]]
      /\ \A v \in Workers : work'[v] = IF v = w THEN next ELSE work[v]
  BY <1>1, <1>6 DEF Goto, Shape
<1>9. Shape'
  BY <1>1, <1>3, <1>8 DEF Shape
<1>10. PICK id \in 1 .. saves : id = work[w].id
  BY <1>4
<1>11. PICK tree : tree = Tree(plan, id)
  OBVIOUS
<1>12. /\ template' = Replaced(template, work[w].deleted, tree)
       /\ settings' = SettingsOf(plan[id])
  BY <1>3, <1>4, <1>10, <1>11, Zenon DEF Tree
<1>13. TemplateKept(plan)'
  <2>1. PICK K \in SUBSET (1 .. saves) : TreesOf(template, plan, K)
    BY <1>2 DEF Kept, TemplateKept
  <2>2. PICK L \in SUBSET (1 .. saves) :
          work[w].deleted = UNION {DOMAIN Tree(plan, k) : k \in L}
    BY <1>2, <1>3 DEF Kept, JobKept
  <2>3. PICK rows : rows = Replaced(template, work[w].deleted, tree)
    OBVIOUS
  <2>4. TreesOf(rows, plan, (K \ L) \cup {id})
    <3>1. saves \in Nat
      BY <1>1 DEF Shape
    <3>2. IsFiniteSet(DOMAIN Tree(plan, id))
      BY <3>1, TreeIsFinite
    <3>3. PICK rows0 : rows0 = template
      OBVIOUS
    <3>4. PICK deleted : deleted = work[w].deleted
      OBVIOUS
    <3>5. TreesOf(rows0, plan, K) /\ deleted = UNION {DOMAIN Tree(plan, k) : k \in L}
      BY <2>1, <2>2, <3>3, <3>4
    <3>6. TreesOf(Replaced(rows0, deleted, Tree(plan, id)), plan, (K \ L) \cup {id})
      BY <3>2, <3>5, ReplacedTrees
    <3> QED
      BY <1>11, <2>3, <3>3, <3>4, <3>6, Zenon
  <2>5. PICK M : M = (K \ L) \cup {id}
    OBVIOUS
  <2>6. M \in SUBSET (1 .. saves') /\ id \in M
    BY <1>3, <2>5
  <2>7. TreesOf(template', plan, M)
    BY <1>12, <2>3, <2>4, <2>5, Zenon
  <2> QED
    BY <1>12, <2>6, <2>7, Zenon DEF TemplateKept
<1>14. Parted(plan)'
  <2> SUFFICES ASSUME ~crossed' PROVE Parted(plan)'
    BY DEF Parted
  <2>1. ~crossed
    BY <1>3
  <2>2. Open(w)
    BY <1>3 DEF Open
  <2>3. /\ work[w].deleted = DOMAIN template
        /\ \A v \in Workers : Open(v) => v = w
    BY <1>2, <2>1, <2>2, Zenon DEF Kept, Parted
  <2>4. template' = tree
    <3>1. PICK deleted : deleted = work[w].deleted
      OBVIOUS
    <3>2. PICK rows : rows = template
      OBVIOUS
    <3>3. Replaced(rows, deleted, tree) = [t \in DOMAIN tree |-> tree[t]]
      BY <2>3, <3>1, <3>2 DEF Replaced
    <3>4. tree = [t \in DOMAIN tree |-> tree[t]]
      BY <1>11 DEF Tree, TemplateRows
    <3> QED
      BY <1>12, <3>1, <3>2, <3>3, <3>4, Zenon
  <2>5. work'[w].at # "replace"
    BY <1>7, <1>8 DEF Idle, Generating
  <2>6. \A v \in Workers : ~Open(v)'
    BY <1>8, <2>3, <2>5 DEF Open
  <2>7. id \in 1 .. saves' /\ template' = Tree(plan, id) /\ settings' = SettingsOf(plan[id])
    BY <1>3, <1>11, <1>12, <2>4
  <2> QED
    BY <2>6, <2>7, Zenon DEF Parted
<1>15. \A i \in DOMAIN daily : ItemKept(plan, i)'
  BY <1>2, <1>3 DEF Kept, ItemKept
<1>16. ASSUME NEW v \in Workers
       PROVE  JobKept(plan, work[v])'
  <2>1. JobKept(plan, work'[v])
    <3>1. CASE v = w
      BY <1>7, <1>8, <3>1, IdleKept, GeneratingKept
    <3>2. CASE v # w
      BY <1>2, <1>8, <3>2 DEF Kept
    <3> QED
      BY <3>1, <3>2
  <2> QED
    BY <1>3, <2>1, Zenon DEF JobKept, IsForest
<1>17. Kept(plan)'
  BY <1>2, <1>3, <1>13, <1>15, <1>16, <1>14 DEF Kept
<1> QED
  BY <1>3, <1>9, <1>17 DEF TodoInv


\* The rows of a day change in nothing but their ticks, and come to be in
\* whole trees: what is below an item stays what it was.
LEMMA DescendantsKept ==
  ASSUME IsFiniteSet(DOMAIN daily), NEW item \in DOMAIN daily,
         DOMAIN daily \subseteq DOMAIN daily', IsFiniteSet(DOMAIN daily'),
         \A i \in DOMAIN daily : daily'[i].parent = daily[i].parent,
         \A i \in DOMAIN daily' \ DOMAIN daily : daily'[i].parent \notin DOMAIN daily
  PROVE  Descendants(daily', item) = Descendants(daily, item)
<1>1. PICK rows : rows = daily
  OBVIOUS
<1>2. PICK other : other = daily'
  OBVIOUS
<1>3. Descendants(other, item) = Descendants(rows, item)
  BY <1>1, <1>2, DescendantsAgree
<1> QED
  BY <1>1, <1>2, <1>3, Zenon

\* A statement that writes the items of days leaves the rest as it was.
LEMMA Writing ==
  ASSUME Shape, NEW plan \in [1 .. saves -> Bodies], Kept(plan),
         NEW w \in Workers, Goto(w, Idle),
         UNCHANGED <<clock, settings, template, crossed, saves>>,
         DOMAIN daily \subseteq DOMAIN daily', IsFiniteSet(DOMAIN daily'),
         \A i \in DOMAIN daily : daily'[i].parent = daily[i].parent,
         \A i \in DOMAIN daily' \ DOMAIN daily : daily'[i].parent \notin DOMAIN daily,
         \A i \in DOMAIN daily' : ItemKept(plan, i)'
  PROVE  TodoInv'
<1>1. /\ work' = [v \in Workers |-> work'[v]]
      /\ \A v \in Workers : work'[v] = IF v = w THEN Idle ELSE work[v]
  BY DEF Goto, Shape
<1>2. Shape'
  BY <1>1 DEF Shape
<1>3. TemplateKept(plan)'
  BY Zenon DEF Kept, TemplateKept
<1>4. \A item \in DOMAIN daily : Descendants(daily', item) = Descendants(daily, item)
  <2>1. IsFiniteSet(DOMAIN daily)
    BY DEF Shape
  <2> QED
    BY <2>1, DescendantsKept
<1>5. ASSUME NEW v \in Workers
      PROVE  JobKept(plan, work[v])'
  <2>1. CASE v = w
    <3>1. work'[v].at = "idle"
      BY <1>1, <2>1 DEF Idle
    <3> QED
      BY <3>1 DEF JobKept
  <2>2. CASE v # w
    <3>1. PICK job : job = work[v]
      OBVIOUS
    <3>2. work'[v] = job /\ JobKept(plan, job)
      BY <1>1, <2>2, <3>1 DEF Kept
    <3>3. job.at \in {"day", "update"} => job.item \in DOMAIN daily'
      BY <3>2 DEF JobKept
    <3>4. job.at = "update" => job.ids = Descendants(daily', job.item)
      <4>1. job.at = "update" =>
              job.item \in DOMAIN daily /\ job.ids = Descendants(daily, job.item)
        BY <3>2 DEF JobKept
      <4> QED
        BY <1>4, <4>1, Zenon
    <3>5. saves' = saves
      OBVIOUS
    <3> QED
      BY <3>2, <3>3, <3>4, <3>5, Zenon DEF JobKept, IsForest
  <2> QED
    BY <2>1, <2>2
<1>6. Parted(plan)'
  <2>1. \A v \in Workers : work'[v].at = "replace" => work'[v] = work[v]
    BY <1>1 DEF Idle
  <2>2. saves \in Nat /\ saves' \in Nat /\ saves <= saves'
    BY DEF Shape
  <2> QED
    BY <2>1, <2>2, PartedKept DEF Kept
<1>7. Kept(plan)'
  BY <1>3, <1>5, <1>6 DEF Kept
<1> QED
  BY <1>2, <1>7 DEF TodoInv

\* INSERT IGNORE: a tree whose save the day already has changes nothing, and
\* any other is new from its roots on.
LEMMA InsertStep ==
  ASSUME TodoInv, NEW w \in Workers, Insert(w)
  PROVE  TodoInv'
<1>1. Shape /\ \E plan \in [1 .. saves -> Bodies] : Kept(plan)
  BY DEF TodoInv
<1>2. PICK plan \in [1 .. saves -> Bodies] : Kept(plan)
  BY <1>1
<1>3. /\ work[w].at = "insert"
      /\ daily' = InsertIgnored(daily, work[w].rows)
      /\ Goto(w, Idle)
      /\ UNCHANGED <<clock, settings, template, crossed, saves>>
  BY DEF Insert
<1>4. PICK date \in Int, K \in SUBSET (1 .. saves) : Forest(work[w].rows, plan, date, K)
  BY <1>2, <1>3, Zenon DEF Kept, JobKept, IsForest
<1>5. PICK rows : rows = work[w].rows
  OBVIOUS
<1>6. /\ saves \in Nat /\ IsFiniteSet(DOMAIN daily)
      /\ \A k \in K : k \in 1 .. saves /\ ValidTemplate(plan[k].items)
  BY <1>1, <1>2 DEF Shape, Kept
<1>7. /\ DOMAIN daily' = DOMAIN daily \cup DOMAIN rows
      /\ \A i \in DOMAIN daily' : daily'[i] = IF i \in DOMAIN daily THEN daily[i] ELSE rows[i]
  BY <1>3, <1>5 DEF InsertIgnored
<1>8. IsFiniteSet(DOMAIN daily')
  <2>1. IsFiniteSet(DOMAIN rows)
    BY <1>4, <1>5 DEF Forest
  <2>2. IsFiniteSet(DOMAIN daily \cup DOMAIN rows)
    BY <1>6, <2>1, FS_Union
  <2> QED
    BY <1>7, <2>2
<1>9. ASSUME NEW i \in DOMAIN rows
      PROVE  \E k \in K : i \in DOMAIN Family(plan, date, k)
  BY <1>4, <1>5 DEF Forest
<1>10. ASSUME NEW k \in K, NEW i \in DOMAIN Family(plan, date, k)
       PROVE  /\ i \in DOMAIN rows /\ rows[i] = Family(plan, date, k)[i]
              /\ rows[i] = [parent |-> rows[i].parent, period |-> rows[i].period,
                            done |-> FALSE]
              /\ rows[i].parent # Null => rows[i].parent \in DOMAIN Family(plan, date, k)
              /\ i \in DOMAIN daily => DOMAIN Family(plan, date, k) \subseteq DOMAIN daily
  <2>1. i \in DOMAIN rows /\ rows[i] = Family(plan, date, k)[i]
    BY <1>4, <1>5 DEF Forest
  <2>2. k \in 1 .. saves /\ ValidTemplate(plan[k].items) /\ saves \in Nat
    BY <1>6
  <2>3. /\ Family(plan, date, k)[i] = [parent |-> Family(plan, date, k)[i].parent,
                                       period |-> Family(plan, date, k)[i].period,
                                       done |-> FALSE]
        /\ Family(plan, date, k)[i].parent # Null =>
             Family(plan, date, k)[i].parent \in DOMAIN Family(plan, date, k)
    BY <2>2, FamilyRows
  <2>4. i \in DOMAIN daily => DOMAIN Family(plan, date, k) \subseteq DOMAIN daily
    BY <1>2, <2>2, DayHasWholeTree
  <2> QED
    BY <2>1, <2>3, <2>4, Zenon
<1>11. Null \notin DOMAIN daily
  BY <1>2, <1>6, DailyFacts
<1>12. \A i \in DOMAIN daily : daily'[i].parent = daily[i].parent
  BY <1>7
<1>13. ASSUME NEW i \in DOMAIN daily' \ DOMAIN daily
       PROVE  daily'[i].parent \notin DOMAIN daily
  <2>1. i \in DOMAIN rows /\ daily'[i] = rows[i]
    BY <1>7
  <2>2. PICK k \in K : i \in DOMAIN Family(plan, date, k)
    BY <1>9, <2>1
  <2>3. rows[i].parent # Null => rows[i].parent \in DOMAIN Family(plan, date, k)
    BY <1>10, <2>2
  <2>4. ASSUME NEW j \in DOMAIN Family(plan, date, k), j \in DOMAIN daily
        PROVE  FALSE
    BY <1>10, <2>2, <2>4
  <2> QED
    BY <1>11, <2>1, <2>3, <2>4
<1>14. ASSUME NEW i \in DOMAIN daily'
       PROVE  ItemKept(plan, i)'
  <2>1. CASE i \in DOMAIN daily
    <3>1. ItemKept(plan, i)
      BY <1>2, <2>1 DEF Kept
    <3>2. daily'[i] = daily[i] /\ DOMAIN daily \subseteq DOMAIN daily' /\ saves' = saves
      BY <1>3, <1>7, <2>1
    <3> QED
      BY <3>1, <3>2 DEF ItemKept
  <2>2. CASE i \notin DOMAIN daily
    <3>1. i \in DOMAIN rows /\ daily'[i] = rows[i]
      BY <1>7, <2>2
    <3>2. PICK k \in K : i \in DOMAIN Family(plan, date, k)
      BY <1>9, <3>1
    <3>3. PICK tree : tree = Family(plan, date, k)
      OBVIOUS
    <3>4. DOMAIN tree \subseteq DOMAIN daily'
      BY <1>7, <1>10, <3>2, <3>3
    <3>5. /\ rows[i] = tree[i]
          /\ rows[i] = [parent |-> rows[i].parent, period |-> rows[i].period, done |-> FALSE]
      BY <1>10, <3>2, <3>3
    <3>6. daily'[i].done = FALSE
      BY <3>1, <3>5
    <3>7. daily'[i] = [parent |-> tree[i].parent, period |-> tree[i].period,
                       done |-> daily'[i].done]
      BY <3>1, <3>5, <3>6
    <3>8. daily'[i].done \in BOOLEAN /\ i \in DOMAIN tree /\ k \in 1 .. saves'
      BY <1>3, <1>6, <3>2, <3>3, <3>6
    <3> QED
      BY <3>3, <3>4, <3>7, <3>8, Zenon DEF ItemKept
  <2> QED
    BY <2>1, <2>2
<1>15. DOMAIN daily \subseteq DOMAIN daily'
  BY <1>7
<1> QED
  BY <1>1, <1>2, <1>3, <1>8, <1>12, <1>13, <1>14, <1>15, Writing

LEMMA UpdateItemsStep ==
  ASSUME TodoInv, NEW w \in Workers, UpdateItems(w)
  PROVE  TodoInv'
<1>1. Shape /\ \E plan \in [1 .. saves -> Bodies] : Kept(plan)
  BY DEF TodoInv
<1>2. PICK plan \in [1 .. saves -> Bodies] : Kept(plan)
  BY <1>1
<1>3. /\ work[w].at = "update"
      /\ DOMAIN daily' = DOMAIN daily
      /\ \A i \in DOMAIN daily :
           daily'[i] = IF i \in work[w].ids
                       THEN [daily[i] EXCEPT !.done = work[w].completed] ELSE daily[i]
      /\ Goto(w, Idle)
      /\ UNCHANGED <<clock, settings, template, crossed, saves>>
  BY DEF UpdateItems
<1>4. work[w].completed \in BOOLEAN
  BY <1>2, <1>3 DEF Kept, JobKept
<1>5. ASSUME NEW i \in DOMAIN daily
      PROVE  /\ daily'[i] = [parent |-> daily[i].parent, period |-> daily[i].period,
                             done |-> daily'[i].done]
             /\ daily'[i].done \in BOOLEAN
  <2>1. /\ daily[i] = [parent |-> daily[i].parent, period |-> daily[i].period,
                       done |-> daily[i].done]
        /\ daily[i].done \in BOOLEAN
    BY <1>1, <1>2, DailyFacts DEF Shape
  <2>2. CASE i \in work[w].ids
    <3>1. daily'[i] = [daily[i] EXCEPT !.done = work[w].completed]
      BY <1>3, <2>2
    <3>2. daily'[i] = [parent |-> daily[i].parent, period |-> daily[i].period,
                       done |-> work[w].completed]
      BY <2>1, <3>1
    <3> QED
      BY <1>4, <3>2
  <2>3. CASE i \notin work[w].ids
    BY <1>3, <2>1, <2>3
  <2> QED
    BY <2>2, <2>3
<1>6. ASSUME NEW i \in DOMAIN daily
      PROVE  ItemKept(plan, i)'
  <2>1. ItemKept(plan, i)
    BY <1>2 DEF Kept
  <2>2. PICK d \in Int, k \in 1 .. saves :
          /\ i \in DOMAIN Family(plan, d, k)
          /\ DOMAIN Family(plan, d, k) \subseteq DOMAIN daily
          /\ daily[i] = [parent |-> Family(plan, d, k)[i].parent,
                         period |-> Family(plan, d, k)[i].period,
                         done |-> daily[i].done]
    BY <2>1, Zenon DEF ItemKept
  <2>3. daily[i].parent = Family(plan, d, k)[i].parent
        /\ daily[i].period = Family(plan, d, k)[i].period
    BY <2>2
  <2>4. daily'[i] = [parent |-> Family(plan, d, k)[i].parent,
                     period |-> Family(plan, d, k)[i].period, done |-> daily'[i].done]
    BY <1>5, <2>3, Zenon
  <2> QED
    BY <1>3, <1>5, <2>2, <2>4, Zenon DEF ItemKept
<1>7. \A i \in DOMAIN daily : daily'[i].parent = daily[i].parent
  <2>1. SUFFICES ASSUME NEW i \in DOMAIN daily PROVE daily'[i].parent = daily[i].parent
    OBVIOUS
  <2>2. daily'[i] = [parent |-> daily[i].parent, period |-> daily[i].period,
                     done |-> daily'[i].done]
    BY <1>5
  <2> QED
    BY <2>2
<1>8. IsFiniteSet(DOMAIN daily')
  BY <1>1, <1>3 DEF Shape
<1>9. DOMAIN daily \subseteq DOMAIN daily'
      /\ \A i \in DOMAIN daily' \ DOMAIN daily : daily'[i].parent \notin DOMAIN daily
  BY <1>3
<1>10. \A i \in DOMAIN daily' : ItemKept(plan, i)'
  BY <1>3, <1>6
<1> QED
  BY <1>1, <1>2, <1>3, <1>7, <1>8, <1>9, <1>10, Writing


-----------------------------------------------------------------------------
(* The invariant holds                                                      *)

LEMMA TodoInit == Init => TodoInv
<1> SUFFICES ASSUME Init PROVE TodoInv
  OBVIOUS
<1>1. DOMAIN daily = {} /\ saves = 0 /\ settings = Null /\ template = <<>> /\ clock = 0
  BY DEF Init
<1>2. work = [w \in Workers |-> work[w]] /\ \A w \in Workers : work[w] = Idle
  BY DEF Init
<1>3. Shape
  BY <1>1, <1>2, FS_EmptySet DEF Shape
<1>4. PICK plan \in [1 .. saves -> Bodies] : TRUE
  <2>1. [k \in {} |-> Null] \in [1 .. saves -> Bodies]
    BY <1>1
  <2> QED
    BY <2>1
<1>5. Kept(plan)
  <2>1. \A w \in Workers : JobKept(plan, work[w])
    BY <1>2, IdleKept
  <2>2. TemplateKept(plan)
    <3>1. TreesOf(template, plan, {})
      <4>1. DOMAIN template = {}
        BY <1>1
      <4> QED
        BY <4>1, FS_EmptySet DEF TreesOf
    <3> QED
      BY <1>1, <3>1 DEF TemplateKept
  <2>3. 1 .. saves = {}
    BY <1>1
  <2>4. Parted(plan)
    BY <1>1, <1>2 DEF Parted, Open, Idle
  <2> QED
    BY <1>1, <2>1, <2>2, <2>3, <2>4 DEF Kept
<1> QED
  BY <1>3, <1>5 DEF TodoInv

LEMMA TodoNext == TodoInv /\ [Next]_vars => TodoInv'
<1> SUFFICES ASSUME TodoInv, [Next]_vars PROVE TodoInv'
  OBVIOUS
<1>1. CASE UNCHANGED vars
  <2>1. Shape /\ \E plan \in [1 .. saves -> Bodies] : Kept(plan)
    BY DEF TodoInv
  <2>2. PICK plan \in [1 .. saves -> Bodies] : Kept(plan)
    BY <2>1
  <2>3. UNCHANGED <<clock, settings, template, crossed, saves, daily, work>>
    BY <1>1 DEF vars
  <2>4. Shape'
    BY <2>1, <2>3 DEF Shape
  <2>5. Parted(plan)'
    BY <2>2, <2>3 DEF Kept, Parted, Open
  <2>6. Kept(plan)'
    BY <2>2, <2>3, <2>5 DEF Kept, TemplateKept, ItemKept, JobKept, IsForest
  <2> QED
    BY <2>3, <2>4, <2>6 DEF TodoInv
<1>2. CASE Tick
  BY <1>2, TickStep
<1>3. ASSUME NEW w \in Workers,
             Batch(w) \/ GenerateByHand(w) \/ Generate(w) \/ Save(w) \/ Toggle(w) \/ Crash(w)
      PROVE  TodoInv'
  <2>1. CASE Batch(w) \/ GenerateByHand(w)
    BY <2>1, BatchStep
  <2>2. CASE Generate(w)
    BY <2>2, ReadTemplatesStep, ReadExistingStep, InsertStep DEF Generate
  <2>3. CASE Save(w)
    BY <2>3, SaveSettingsStep, DeleteTemplateStep, ReplaceTemplateStep DEF Save
  <2>4. CASE Toggle(w)
    BY <2>4, FindItemStep, ReadDayStep, UpdateItemsStep DEF Toggle
  <2>5. CASE Crash(w)
    BY <2>5, CrashStep
  <2> QED
    BY <1>3, <2>1, <2>2, <2>3, <2>4, <2>5
<1> QED
  BY <1>1, <1>2, <1>3, Zenon DEF Next

LEMMA TodoInvariant == Spec => []TodoInv
BY TodoInit, TodoNext, PTL DEF Spec

-----------------------------------------------------------------------------
(* Every item is shown                                                      *)

\* The root of item i is in its day and period, and i is below it there.
ShownBy(root, i) ==
  /\ root \in ItemsOf(i[1])
  /\ daily[root].parent = Null
  /\ daily[root].period = daily[i].period
  /\ i \in Descendants(Restrict(daily, {j \in ItemsOf(i[1]) :
                                          daily[j].period = daily[root].period}), root)

LEMMA RootIsShown ==
  ASSUME NEW i \in DOMAIN daily, daily[i].parent = Null
  PROVE  ShownBy(i, i)
BY DEF ShownBy, ItemsOf, Descendants

LEMMA ChildIsShown ==
  ASSUME IsFiniteSet(DOMAIN daily), NEW i \in DOMAIN daily, NEW up \in DOMAIN daily,
         daily[i].parent = up, up[1] = i[1], daily[up].period = daily[i].period,
         NEW root, ShownBy(root, up)
  PROVE  ShownBy(root, i)
<1> DEFINE D == {j \in ItemsOf(i[1]) : daily[j].period = daily[root].period}
           rows == Restrict(daily, D)
<1>1. /\ root \in ItemsOf(i[1])
      /\ daily[root].parent = Null
      /\ daily[root].period = daily[i].period
      /\ up \in Descendants(rows, root)
  BY DEF ShownBy
<1>2. DOMAIN rows = D /\ \A j \in D : rows[j] = daily[j]
  BY DEF Restrict
<1>3. D \subseteq DOMAIN daily /\ root \in D /\ i \in D
  BY <1>1 DEF ItemsOf
<1>4. IsFiniteSet(D)
  BY <1>3, FS_Subset
<1> HIDE DEF D, rows
<1>5. IsFiniteSet(DOMAIN rows) /\ root \in DOMAIN rows /\ i \in DOMAIN rows
  BY <1>2, <1>3, <1>4
<1>6. rows[i].parent \in Descendants(rows, root)
  BY <1>1, <1>2, <1>3
<1>7. i \in Descendants(rows, root)
  BY <1>5, <1>6, DescendantsLeast
<1> QED
  BY <1>1, <1>7 DEF ShownBy, D, rows

LEMMA TreeIsShown ==
  ASSUME Shape, NEW plan \in [1 .. saves -> Bodies], Kept(plan),
         NEW i \in DOMAIN daily
  PROVE  \E root : ShownBy(root, i)
<1>1. ItemKept(plan, i)
  BY DEF Kept
<1>2. PICK date \in Int, k \in 1 .. saves :
        /\ i \in DOMAIN Family(plan, date, k)
        /\ DOMAIN Family(plan, date, k) \subseteq DOMAIN daily
  BY <1>1, Zenon DEF ItemKept
<1>3. saves \in Nat /\ ValidTemplate(plan[k].items) /\ IsFiniteSet(DOMAIN daily)
  BY DEF Shape, Kept
<1>4. PICK items : items = plan[k].items
  OBVIOUS
<1>5. DOMAIN Family(plan, date, k) = {Id(date, k, n) : n \in DOMAIN items}
  BY <1>3, <1>4, FamilyIds
<1>6. ASSUME NEW n \in DOMAIN items
      PROVE  /\ Id(date, k, n) \in DOMAIN daily
             /\ daily[Id(date, k, n)].period = items[n].period
             /\ items[n].parent = 0 => daily[Id(date, k, n)].parent = Null
             /\ items[n].parent # 0 =>
                  /\ items[n].parent \in DOMAIN items
                  /\ items[items[n].parent].period = items[n].period
                  /\ daily[Id(date, k, n)].parent = Id(date, k, items[n].parent)
  <2>1. PICK j : j = Id(date, k, n)
    OBVIOUS
  <2>2. j \in DOMAIN daily
    BY <1>2, <1>5, <2>1
  <2>3. ItemKept(plan, j)
    BY <2>2 DEF Kept
  <2>4. PICK d \in Int, m \in 1 .. saves :
          /\ j \in DOMAIN Family(plan, d, m)
          /\ daily[j] = [parent |-> Family(plan, d, m)[j].parent,
                         period |-> Family(plan, d, m)[j].period,
                         done |-> daily[j].done]
    BY <2>3, Zenon DEF ItemKept
  <2>5. d = date /\ m = k
    <3>1. ValidTemplate(plan[m].items)
      BY DEF Kept
    <3>2. DOMAIN Family(plan, d, m) = {Id(d, m, x) : x \in DOMAIN plan[m].items}
      BY <1>3, <3>1, FamilyIds
    <3> QED
      BY <2>1, <2>4, <3>2 DEF Id
  <2>6. PICK tree : tree = Family(plan, date, k)
    OBVIOUS
  <2>7. daily[j].parent = tree[j].parent /\ daily[j].period = tree[j].period
    BY <2>4, <2>5, <2>6
  <2>8. /\ tree[j].period = items[n].period
        /\ items[n].parent = 0 => tree[j].parent = Null
        /\ items[n].parent # 0 =>
             /\ items[n].parent \in DOMAIN items
             /\ items[items[n].parent].period = items[n].period
             /\ tree[j].parent = Id(date, k, items[n].parent)
    <3>1. TreeOf(tree, items, date, k)
      BY <1>3, <1>4, <2>6, FamilyFacts
    <3> QED
      BY <2>1, <3>1, Zenon DEF TreeOf
  <2> QED
    BY <2>1, <2>2, <2>7, <2>8, Zenon
<1> DEFINE T == {n \in DOMAIN items : ~ \E root : ShownBy(root, Id(date, k, n))}
<1>7. T = {}
  <2> SUFFICES ASSUME T # {} PROVE FALSE
    OBVIOUS
  <2>1. Acyclic(items)
    BY <1>3, <1>4 DEF ValidTemplate
  <2>2. T \in (SUBSET DOMAIN items) \ {{}}
    OBVIOUS
  <2> HIDE DEF T
  <2>3. PICK n \in T : items[n].parent \notin T
    BY <2>1, <2>2, Zenon DEF Acyclic
  <2>4. n \in DOMAIN items /\ ~ \E root : ShownBy(root, Id(date, k, n))
    BY <2>3 DEF T
  <2>5. CASE items[n].parent = 0
    BY <1>6, <2>4, <2>5, RootIsShown, Zenon
  <2>6. CASE items[n].parent # 0
    <3>1. items[n].parent \in DOMAIN items
      BY <1>6, <2>4, <2>6
    <3>2. PICK root : ShownBy(root, Id(date, k, items[n].parent))
      BY <2>3, <3>1 DEF T
    <3>3. PICK up : up = Id(date, k, items[n].parent)
      OBVIOUS
    <3>4. PICK j : j = Id(date, k, n)
      OBVIOUS
    <3>5. j \in DOMAIN daily /\ up \in DOMAIN daily /\ daily[j].parent = up
          /\ daily[up].period = daily[j].period
      BY <1>6, <2>4, <2>6, <3>1, <3>3, <3>4
    <3>6. up[1] = j[1]
      BY <3>3, <3>4 DEF Id
    <3>7. ShownBy(root, j)
      BY <1>3, <3>2, <3>3, <3>5, <3>6, ChildIsShown
    <3> QED
      BY <2>4, <3>4, <3>7, Zenon
  <2> QED
    BY <2>5, <2>6
<1>8. PICK n \in DOMAIN items : i = Id(date, k, n)
  BY <1>2, <1>5
<1> QED
  BY <1>7, <1>8

\* Every item of a day hangs on a root of its day and period, so the page
\* draws it (todo-page.tsx), however many batches, saves, ticks and failures
\* have overlapped.
THEOREM EveryItemShownHolds == Spec => []EveryItemShown
<1>1. TodoInv => EveryItemShown
  <2> SUFFICES ASSUME TodoInv, NEW i \in DOMAIN daily
               PROVE  \E root : ShownBy(root, i)
    BY Zenon DEF EveryItemShown, ShownBy
  <2>1. Shape /\ \E plan \in [1 .. saves -> Bodies] : Kept(plan)
    BY DEF TodoInv
  <2> QED
    BY <2>1, TreeIsShown
<1> QED
  BY <1>1, TodoInvariant, PTL


-----------------------------------------------------------------------------
(* Ticks                                                                    *)

Opened(i) ==
  \E w \in Workers :
    /\ work[w].at = "update" /\ ~work[w].completed
    /\ i \in Descendants(daily, work[w].item)

TicksStay ==
  \A i \in DOMAIN daily :
    i \in DOMAIN daily' /\ (daily[i].done /\ ~daily'[i].done => Opened(i))

TickTakes(w) ==
  work[w].at = "update" /\ work'[w] = Idle /\ daily' # daily =>
    \A i \in Descendants(daily', work[w].item) : daily'[i].done = work[w].completed

\* Only two statements write the items of days.
LEMMA Writers ==
  ASSUME [Next]_vars
  PROVE  \/ daily' = daily
         \/ \E w \in Workers : Insert(w) \/ UpdateItems(w)
<1>1. ASSUME NEW w \in Workers,
             Batch(w) \/ GenerateByHand(w) \/ Generate(w) \/ Save(w) \/ Toggle(w) \/ Crash(w)
      PROVE  daily' = daily \/ Insert(w) \/ UpdateItems(w)
  BY <1>1 DEF Batch, GenerateByHand, Generate, ReadTemplates, ReadExisting, Save,
              SaveSettings, DeleteTemplate, ReplaceTemplate, Toggle, FindItem, ReadDay,
              Crash
<1>2. Tick => daily' = daily
  BY DEF Tick
<1>3. UNCHANGED vars => daily' = daily
  BY DEF vars
<1> QED
  BY <1>1, <1>2, <1>3, Zenon DEF Next

LEMMA InsertKeepsRows ==
  ASSUME NEW w \in Workers, Insert(w)
  PROVE  \A i \in DOMAIN daily : i \in DOMAIN daily' /\ daily'[i] = daily[i]
<1>1. daily' = InsertIgnored(daily, work[w].rows)
  BY DEF Insert
<1> QED
  BY <1>1 DEF InsertIgnored

\* What an update writes: the tick of the item and of what is below it.
LEMMA UpdateWrites ==
  ASSUME TodoInv, NEW w \in Workers, UpdateItems(w)
  PROVE  /\ work[w].at = "update" /\ work[w].completed \in BOOLEAN
         /\ work[w].item \in DOMAIN daily
         /\ DOMAIN daily' = DOMAIN daily
         /\ \A i \in DOMAIN daily :
              /\ daily'[i].parent = daily[i].parent
              /\ daily'[i].done = IF i \in Descendants(daily, work[w].item)
                                  THEN work[w].completed ELSE daily[i].done
<1>1. Shape /\ \E plan \in [1 .. saves -> Bodies] : Kept(plan)
  BY DEF TodoInv
<1>2. PICK plan \in [1 .. saves -> Bodies] : Kept(plan)
  BY <1>1
<1>3. /\ work[w].at = "update"
      /\ DOMAIN daily' = DOMAIN daily
      /\ \A i \in DOMAIN daily :
           daily'[i] = IF i \in work[w].ids
                       THEN [daily[i] EXCEPT !.done = work[w].completed] ELSE daily[i]
  BY DEF UpdateItems
<1>4. /\ work[w].completed \in BOOLEAN /\ work[w].item \in DOMAIN daily
      /\ work[w].ids = Descendants(daily, work[w].item)
  BY <1>2, <1>3 DEF Kept, JobKept
<1>5. ASSUME NEW i \in DOMAIN daily
      PROVE  /\ daily'[i].parent = daily[i].parent
             /\ daily'[i].done = IF i \in Descendants(daily, work[w].item)
                                 THEN work[w].completed ELSE daily[i].done
  <2>1. daily[i] = [parent |-> daily[i].parent, period |-> daily[i].period,
                    done |-> daily[i].done]
    BY <1>1, <1>2, DailyFacts DEF Shape
  <2>2. CASE i \in work[w].ids
    <3>1. daily'[i] = [daily[i] EXCEPT !.done = work[w].completed]
      BY <1>3, <2>2
    <3>2. daily'[i] = [parent |-> daily[i].parent, period |-> daily[i].period,
                       done |-> work[w].completed]
      BY <2>1, <3>1
    <3> QED
      BY <1>4, <2>2, <3>2
  <2>3. CASE i \notin work[w].ids
    BY <1>3, <1>4, <2>3
  <2> QED
    BY <2>2, <2>3
<1> QED
  BY <1>3, <1>4, <1>5

LEMMA StepKeepsTicks ==
  ASSUME TodoInv, [Next]_vars
  PROVE  TicksStay
<1> SUFFICES ASSUME NEW i \in DOMAIN daily
             PROVE  i \in DOMAIN daily' /\ (daily[i].done /\ ~daily'[i].done => Opened(i))
  BY DEF TicksStay
<1>1. CASE daily' = daily
  BY <1>1
<1>2. ASSUME NEW w \in Workers, Insert(w)
      PROVE  i \in DOMAIN daily' /\ (daily[i].done /\ ~daily'[i].done => Opened(i))
  <2>1. i \in DOMAIN daily' /\ daily'[i] = daily[i]
    BY <1>2, InsertKeepsRows
  <2> QED
    BY <2>1
<1>3. ASSUME NEW w \in Workers, UpdateItems(w)
      PROVE  i \in DOMAIN daily' /\ (daily[i].done /\ ~daily'[i].done => Opened(i))
  <2>1. /\ work[w].at = "update"
        /\ DOMAIN daily' = DOMAIN daily
        /\ daily'[i].done = IF i \in Descendants(daily, work[w].item)
                            THEN work[w].completed ELSE daily[i].done
    BY <1>3, UpdateWrites
  <2>2. CASE i \in Descendants(daily, work[w].item)
    <3>1. daily'[i].done = work[w].completed
      BY <2>1, <2>2
    <3>2. ~daily'[i].done => ~work[w].completed
      BY <3>1, Zenon
    <3> QED
      BY <2>1, <2>2, <3>2, Zenon DEF Opened
  <2>3. CASE i \notin Descendants(daily, work[w].item)
    <3>1. daily'[i].done = daily[i].done
      BY <2>1, <2>3
    <3> QED
      BY <2>1, <3>1, Zenon
  <2> QED
    BY <2>2, <2>3
<1> QED
  BY <1>1, <1>2, <1>3, Writers

\* What was ticked stays ticked and no item is lost, unless an update unticks
\* the item or one above it: INSERT IGNORE writes over nothing (batch.ts:44).
THEOREM TickedStaysHolds == Spec => TickedStays
<1>1. TodoInv /\ [Next]_vars => TicksStay
  BY StepKeepsTicks
<1>2. TicksStay <=>
        \A i \in DOMAIN daily :
          /\ i \in DOMAIN daily'
          /\ daily[i].done /\ ~daily'[i].done =>
               \E w \in Workers :
                 /\ work[w].at = "update" /\ ~work[w].completed
                 /\ i \in Descendants(daily, work[w].item)
  BY Zenon DEF TicksStay, Opened
<1> QED
  BY <1>1, <1>2, TodoInvariant, PTL DEF Spec, TickedStays

LEMMA StepTakesSubtree ==
  ASSUME TodoInv, [Next]_vars, NEW w \in Workers
  PROVE  TickTakes(w)
<1> SUFFICES ASSUME work[w].at = "update", work'[w] = Idle, daily' # daily,
                    NEW i \in Descendants(daily', work[w].item)
             PROVE  daily'[i].done = work[w].completed
  BY Zenon DEF TickTakes
<1>1. work'[w] # work[w]
  BY DEF Idle
<1>2. PICK v \in Workers : Insert(v) \/ UpdateItems(v)
  BY Writers
<1>3. Shape
  BY DEF TodoInv
<1>4. v = w
  <2>1. work' = [work EXCEPT ![v] = Idle]
    BY <1>2, Zenon DEF Insert, UpdateItems, Goto
  <2> QED
    BY <1>1, <1>3, <2>1 DEF Shape
<1>5. UpdateItems(w)
  <2>1. Insert(w) => work[w].at = "insert"
    BY DEF Insert
  <2> QED
    BY <1>2, <1>4, <2>1
<1>6. /\ work[w].item \in DOMAIN daily
      /\ DOMAIN daily' = DOMAIN daily
      /\ \A j \in DOMAIN daily :
           /\ daily'[j].parent = daily[j].parent
           /\ daily'[j].done = IF j \in Descendants(daily, work[w].item)
                               THEN work[w].completed ELSE daily[j].done
  BY <1>5, UpdateWrites
<1>7. IsFiniteSet(DOMAIN daily)
  BY <1>3 DEF Shape
<1>8. PICK item \in DOMAIN daily : item = work[w].item
  BY <1>6
<1>9. Descendants(daily', item) = Descendants(daily, item)
  <2>1. IsFiniteSet(DOMAIN daily') /\ DOMAIN daily \subseteq DOMAIN daily'
    BY <1>6, <1>7
  <2>2. \A j \in DOMAIN daily : daily'[j].parent = daily[j].parent
    BY <1>6
  <2>3. \A j \in DOMAIN daily' \ DOMAIN daily : daily'[j].parent \notin DOMAIN daily
    BY <1>6
  <2> QED
    BY <1>7, <2>1, <2>2, <2>3, DescendantsKept
<1>10. Descendants(daily, item) \subseteq DOMAIN daily
  BY <1>7, DescendantsLeast
<1>11. i \in Descendants(daily, work[w].item) /\ i \in DOMAIN daily
  BY <1>8, <1>9, <1>10
<1> QED
  BY <1>6, <1>11

\* A tick takes its whole subtree with it, though a batch may have inserted
\* rows since the day was read: they are never below the item
\* (todo.ts:495-526).
THEOREM TickTakesSubtreeHolds == Spec => TickTakesSubtree
<1>1. TodoInv /\ [Next]_vars => \A w \in Workers : TickTakes(w)
  BY StepTakesSubtree
<1>2. (\A w \in Workers : TickTakes(w)) <=>
        \A w \in Workers :
          work[w].at = "update" /\ work'[w] = Idle /\ daily' # daily =>
            \A i \in Descendants(daily', work[w].item) :
              daily'[i].done = work[w].completed
  BY Zenon DEF TickTakes
<1> QED
  BY <1>1, <1>2, TodoInvariant, PTL DEF Spec, TickTakesSubtree

-----------------------------------------------------------------------------
(* What Parse computes: it is the function its recursion describes         *)

Parsed(text, k, before) ==
  IF k = 0 THEN NoItems ELSE ParsedLine(before, text[k])

ParsedUpto(text, n, g) == g = [k \in 0 .. n |-> Parsed(text, k, g[k - 1])]

LEMMA NothingParsed ==
  ASSUME NEW text, NEW f
  PROVE  Parsed(text, 0, f) = NoItems
BY Zenon DEF Parsed

LEMMA ParsedEveryLine ==
  ASSUME NEW text
  PROVE  \A n \in Nat : \E g : ParsedUpto(text, n, g)
<1> DEFINE T == {n \in Nat : ~ \E g : ParsedUpto(text, n, g)}
<1> SUFFICES ASSUME T # {} PROVE FALSE
  OBVIOUS
<1>1. PICK m \in T : \A n \in T : m <= n
  BY LeastNatural
<1>2. m \in Nat /\ ~ \E g : ParsedUpto(text, m, g)
  BY <1>1
<1>3. CASE m = 0
  <2> DEFINE g == [k \in 0 .. 0 |-> NoItems]
  <2>1. \A k \in 0 .. 0 : Parsed(text, k, g[k - 1]) = NoItems
    <3>1. SUFFICES ASSUME NEW k \in 0 .. 0
                   PROVE  Parsed(text, k, g[k - 1]) = NoItems
      OBVIOUS
    <3>2. k = 0
      OBVIOUS
    <3> QED
      BY <3>2, NothingParsed
  <2>2. ParsedUpto(text, 0, g)
    BY <2>1 DEF ParsedUpto
  <2> QED
    BY <1>2, <1>3, <2>2
<1>4. CASE m > 0
  <2>1. m - 1 \in Nat /\ m - 1 \notin T
    BY <1>1, <1>2, <1>4
  <2>2. PICK g : ParsedUpto(text, m - 1, g)
    BY <2>1
  <2> DEFINE h == [k \in 0 .. m |-> IF k = m THEN Parsed(text, m, g[m - 1])
                                             ELSE g[k]]
  <2>3. \A k \in 0 .. m : h[k] = Parsed(text, k, h[k - 1])
    <3>1. SUFFICES ASSUME NEW k \in 0 .. m
                   PROVE  h[k] = Parsed(text, k, h[k - 1])
      OBVIOUS
    <3>2. CASE k = 0
      <4>1. h[k] = g[0] /\ g[0] = Parsed(text, 0, g[0 - 1])
        BY <1>2, <1>4, <2>2, <3>2 DEF ParsedUpto
      <4> QED
        BY <3>2, <4>1, NothingParsed
    <3>3. CASE k > 0
      <4>1. h[k - 1] = g[k - 1]
        BY <1>2, <3>3
      <4>2. k # m => h[k] = g[k] /\ g[k] = Parsed(text, k, g[k - 1])
        BY <1>2, <2>2, <3>3 DEF ParsedUpto
      <4>3. k = m => h[k] = Parsed(text, k, g[k - 1])
        BY <1>2
      <4> QED
        BY <4>1, <4>2, <4>3
    <3> QED
      BY <1>2, <3>2, <3>3
  <2>4. ParsedUpto(text, m, h)
    BY <2>3 DEF ParsedUpto
  <2> QED
    BY <1>2, <2>4
<1> QED
  BY <1>2, <1>3, <1>4

LEMMA ParsedUnique ==
  ASSUME NEW text, NEW n \in Nat, NEW m \in Nat, n <= m,
         NEW g, ParsedUpto(text, n, g), NEW h, ParsedUpto(text, m, h)
  PROVE  \A k \in 0 .. n : g[k] = h[k]
<1> DEFINE T == {k \in 0 .. n : g[k] # h[k]}
<1> SUFFICES ASSUME T # {} PROVE FALSE
  OBVIOUS
<1>1. T \subseteq Nat
  OBVIOUS
<1>2. PICK k \in T : \A j \in T : k <= j
  BY <1>1, LeastNatural
<1>3. k \in 0 .. n /\ g[k] # h[k]
  BY <1>2
<1>4. g[k] = Parsed(text, k, g[k - 1]) /\ h[k] = Parsed(text, k, h[k - 1])
  BY <1>3 DEF ParsedUpto
<1>5. CASE k = 0
  BY <1>3, <1>4, <1>5, NothingParsed
<1>6. CASE k > 0
  <2>1. k - 1 \in 0 .. n /\ k - 1 \notin T
    BY <1>2, <1>3, <1>6
  <2> QED
    BY <1>3, <1>4, <2>1
<1> QED
  BY <1>3, <1>5, <1>6

LEMMA ParseLines ==
  ASSUME NEW text
  PROVE  Parse(text) = [k \in Nat |-> Parsed(text, k, Parse(text)[k - 1])]
<1> DEFINE G(k) == CHOOSE g : ParsedUpto(text, k, g)
           F == [k \in Nat |-> G(k)[k]]
<1>1. \A k \in Nat : ParsedUpto(text, k, G(k))
  BY ParsedEveryLine
<1> HIDE DEF G
<1>2. \A k \in Nat : F[k] = Parsed(text, k, F[k - 1])
  <2>1. SUFFICES ASSUME NEW k \in Nat
                 PROVE  F[k] = Parsed(text, k, F[k - 1])
    OBVIOUS
  <2>2. F[k] = Parsed(text, k, G(k)[k - 1])
    BY <1>1 DEF ParsedUpto
  <2>3. CASE k = 0
    BY <2>2, <2>3, NothingParsed
  <2>4. CASE k > 0
    <3>1. k - 1 \in Nat /\ k - 1 <= k /\ k - 1 \in 0 .. k - 1
      BY <2>4
    <3>2. ParsedUpto(text, k, G(k)) /\ ParsedUpto(text, k - 1, G(k - 1))
      BY <1>1, <3>1
    <3>3. G(k - 1)[k - 1] = G(k)[k - 1]
      BY <3>1, <3>2, ParsedUnique
    <3>4. F[k - 1] = G(k - 1)[k - 1]
      BY <3>1
    <3> QED
      BY <2>2, <3>3, <3>4
  <2> QED
    BY <2>3, <2>4
<1>3. F = [k \in Nat |-> Parsed(text, k, F[k - 1])]
  BY <1>2
<1>4. Parse(text) = CHOOSE f : f = [k \in Nat |-> Parsed(text, k, f[k - 1])]
  BY DEF Parse, Parsed
<1> HIDE DEF F
<1>5. \E f : f = [k \in Nat |-> Parsed(text, k, f[k - 1])]
  BY <1>3
<1> QED
  BY <1>4, <1>5, Zenon

-----------------------------------------------------------------------------
(* Bullets                                                                 *)

\* The greatest of some numbers with a bound.
LEMMA GreatestNatural ==
  ASSUME NEW n \in Nat, NEW S, S \subseteq 0 .. n, S # {}
  PROVE  Max(S) \in S /\ \A x \in S : Max(S) >= x
<1> DEFINE T == {m \in Nat : \A x \in S : x <= m}
<1>1. n \in T
  OBVIOUS
<1>2. PICK m \in T : \A k \in T : m <= k
  BY <1>1, LeastNatural
<1>3. m \in S
  <2> SUFFICES ASSUME m \notin S PROVE FALSE
    OBVIOUS
  <2>1. PICK x \in S : TRUE
    OBVIOUS
  <2>2. \A y \in S : y \in Nat /\ y <= m /\ y # m
    BY <1>2
  <2>3. m \in Nat /\ m # 0
    BY <1>2, <2>1, <2>2
  <2>4. m - 1 \in T
    BY <2>2, <2>3
  <2> QED
    BY <1>2, <2>3, <2>4
<1>4. \E y \in S : \A x \in S : y >= x
  BY <1>2, <1>3
<1> QED
  BY <1>4 DEF Max

\* The last line decides the period if it is a heading.
LEMMA PeriodAtLine ==
  ASSUME NEW text \in Seq(Line), NEW k \in 1 .. Len(text)
  PROVE  PeriodAt(text, k) = IF "heading" \in DOMAIN text[k] THEN text[k].heading
                             ELSE PeriodAt(text, k - 1)
<1> DEFINE H(n) == {j \in 1 .. n : "heading" \in DOMAIN text[j]}
<1>1. CASE "heading" \in DOMAIN text[k]
  <2>1. k \in H(k) /\ H(k) \subseteq 0 .. k /\ H(k) # {} /\ k \in Nat
    BY <1>1
  <2>2. Max(H(k)) \in H(k) /\ \A x \in H(k) : Max(H(k)) >= x
    BY <2>1, GreatestNatural
  <2>3. Max(H(k)) = k
    BY <2>1, <2>2
  <2> QED
    BY <1>1, <2>1, <2>3 DEF PeriodAt
<1>2. CASE "heading" \notin DOMAIN text[k]
  <2>1. H(k) = H(k - 1)
    BY <1>2
  <2> QED
    BY <1>2, <2>1 DEF PeriodAt
<1> QED
  BY <1>1, <1>2

LEMMA NoPeriodBefore ==
  ASSUME NEW text
  PROVE  PeriodAt(text, 0) = Null
BY DEF PeriodAt

LEMMA LineKinds ==
  ASSUME NEW text \in Seq(Line), NEW k \in 1 .. Len(text)
  PROVE  /\ "heading" \in DOMAIN text[k] =>
              /\ text[k].heading \in Periods \cup {Null}
              /\ "indent" \notin DOMAIN text[k]
         /\ "heading" \notin DOMAIN text[k] =>
              /\ text[k].indent \in Nat
              /\ "indent" \in DOMAIN text[k]
<1>1. text[k] \in Line
  OBVIOUS
<1> QED
  BY <1>1 DEF Line

\* The number of a bullet: one more than the bullets before it.
LEMMA NumberAfter ==
  ASSUME NEW text \in Seq(Line), NEW k \in 1 .. Len(text)
  PROVE  /\ NumberOf(text, k - 1) \in Nat
         /\ NumberOf(text, k) = IF k \in BulletsOf(text)
                                THEN NumberOf(text, k - 1) + 1
                                ELSE NumberOf(text, k - 1)
<1> DEFINE before == {j \in BulletsOf(text) : j <= k - 1}
<1>1. before \in SUBSET (1 .. k) /\ \A j \in BulletsOf(text) : j \in Nat
  BY DEF BulletsOf
<1>2. IsFiniteSet(before)
  <2>1. IsFiniteSet(1 .. k)
    BY FS_Interval
  <2> QED
    BY <1>1, <2>1, FS_Subset
<1>3. Cardinality(before) \in Nat
  BY <1>2, FS_CardinalityType
<1>4. CASE k \in BulletsOf(text)
  <2>1. {j \in BulletsOf(text) : j <= k} = before \cup {k} /\ k \notin before
    <3>1. \A j \in BulletsOf(text) : j <= k <=> j <= k - 1 \/ j = k
      BY <1>1
    <3>2. k \notin before
      OBVIOUS
    <3> QED
      BY <1>4, <3>1, <3>2
  <2>2. Cardinality(before \cup {k}) = Cardinality(before) + 1
    BY <1>2, <2>1, FS_AddElement
  <2> QED
    BY <1>3, <1>4, <2>1, <2>2 DEF NumberOf
<1>5. CASE k \notin BulletsOf(text)
  <2>1. {j \in BulletsOf(text) : j <= k} = before
    BY <1>1, <1>5
  <2> QED
    BY <1>3, <1>5, <2>1 DEF NumberOf
<1> QED
  BY <1>4, <1>5

LEMMA NumberBefore ==
  ASSUME NEW text \in Seq(Line)
  PROVE  NumberOf(text, 0) = 0
<1>1. {j \in BulletsOf(text) : j <= 0} = {}
  BY DEF BulletsOf
<1> QED
  BY <1>1, FS_EmptySet DEF NumberOf

-----------------------------------------------------------------------------
(* What has been parsed after k lines                                      *)

StackItem == [indent : Nat, item : Nat]
ParseState ==
  [period : Periods \cup {Null}, items : Seq([parent : Nat, period : Periods]),
   stacks : [Periods -> Seq(StackItem)]]

\* The item the outline asks for.
ItemOf(text, b) ==
  [parent |-> IF Shallower(text, b) = {} THEN 0
              ELSE NumberOf(text, Max(Shallower(text, b))),
   period |-> PeriodAt(text, b)]

\* at[n] is the line of the n-th of a stack: the lines increase, and every
\* bullet of the period is followed, or is itself, on the stack by one that is
\* not indented more.
OnStack(text, k, p, e, line) ==
  /\ line \in BulletsOf(text) /\ line <= k /\ PeriodAt(text, line) = p
  /\ e = [indent |-> text[line].indent, item |-> NumberOf(text, line)]

Covered(text, stack, at, b) ==
  \E n \in DOMAIN stack : b <= at[n] /\ text[at[n]].indent <= text[b].indent

StackOf(text, k, p, stack, at) ==
  /\ at \in [DOMAIN stack -> Nat]
  /\ \A n \in DOMAIN stack : OnStack(text, k, p, stack[n], at[n])
  /\ \A m, n \in DOMAIN stack : m <= n => at[m] <= at[n]
  /\ \A b \in BulletsOf(text) : b <= k /\ PeriodAt(text, b) = p =>
       Covered(text, stack, at, b)

ItemsParsed(text, k, items) ==
  /\ Len(items) = NumberOf(text, k)
  /\ \A n \in 1 .. Len(items) :
       \E b \in BulletsOf(text) : b <= k /\ n = NumberOf(text, b)
  /\ \A b \in BulletsOf(text) : b <= k =>
       /\ NumberOf(text, b) \in 1 .. Len(items)
       /\ items[NumberOf(text, b)] = ItemOf(text, b)

ParsedTo(text, k, s) ==
  /\ s \in ParseState
  /\ s.period = PeriodAt(text, k)
  /\ ItemsParsed(text, k, s.items)
  /\ \A p \in Periods : \E at : StackOf(text, k, p, s.stacks[p], at)

\* A line that is no bullet of a period leaves items and stacks.
LEMMA StackStays ==
  ASSUME NEW text \in Seq(Line), NEW k \in 1 .. Len(text),
         NEW p, k \in BulletsOf(text) => PeriodAt(text, k) # p,
         NEW stack, NEW at, StackOf(text, k - 1, p, stack, at)
  PROVE  StackOf(text, k, p, stack, at)
<1>1. \A b \in BulletsOf(text) :
        b \in Nat /\ (b <= k /\ PeriodAt(text, b) = p => b <= k - 1)
  BY DEF BulletsOf
<1>2. \A b \in BulletsOf(text) : b <= k - 1 => b <= k
  BY <1>1
<1> QED
  BY <1>1, <1>2 DEF StackOf, OnStack

LEMMA ItemsStay ==
  ASSUME NEW text \in Seq(Line), NEW k \in 1 .. Len(text), k \notin BulletsOf(text),
         NEW items, ItemsParsed(text, k - 1, items)
  PROVE  ItemsParsed(text, k, items)
<1>1. \A b \in BulletsOf(text) : b \in Nat /\ (b <= k <=> b <= k - 1)
  BY DEF BulletsOf
<1>2. NumberOf(text, k) = NumberOf(text, k - 1)
  BY NumberAfter
<1> QED
  BY <1>1, <1>2 DEF ItemsParsed

LEMMA HeadingParsed ==
  ASSUME NEW text \in Seq(Line), NEW k \in 1 .. Len(text),
         "heading" \in DOMAIN text[k], NEW s, ParsedTo(text, k - 1, s)
  PROVE  ParsedTo(text, k, ParsedLine(s, text[k]))
<1>1. PICK r : r = [s EXCEPT !.period = text[k].heading]
  OBVIOUS
<1>2. ParsedLine(s, text[k]) = r
  BY <1>1 DEF ParsedLine, Heading
<1>3. k \notin BulletsOf(text)
  BY LineKinds DEF BulletsOf
<1>4. /\ r \in ParseState /\ r.period = text[k].heading
      /\ r.items = s.items /\ r.stacks = s.stacks
  BY <1>1, LineKinds DEF ParsedTo, ParseState
<1>5. r.period = PeriodAt(text, k)
  BY <1>4, PeriodAtLine
<1>6. ItemsParsed(text, k, r.items)
  BY <1>3, <1>4, ItemsStay DEF ParsedTo
<1>7. \A p \in Periods : \E at : StackOf(text, k, p, r.stacks[p], at)
  BY <1>3, <1>4, StackStays DEF ParsedTo
<1> QED
  BY <1>2, <1>4, <1>5, <1>6, <1>7 DEF ParsedTo

LEMMA OutsideParsed ==
  ASSUME NEW text \in Seq(Line), NEW k \in 1 .. Len(text),
         "heading" \notin DOMAIN text[k], NEW s, ParsedTo(text, k - 1, s),
         s.period = Null
  PROVE  ParsedTo(text, k, ParsedLine(s, text[k]))
<1>1. ParsedLine(s, text[k]) = s
  BY DEF ParsedLine
<1>2. PeriodAt(text, k) = PeriodAt(text, k - 1)
  BY PeriodAtLine
<1>3. k \notin BulletsOf(text)
  BY <1>2 DEF BulletsOf, ParsedTo
<1>4. ItemsParsed(text, k, s.items)
  BY <1>3, ItemsStay DEF ParsedTo
<1>5. \A p \in Periods : \E at : StackOf(text, k, p, s.stacks[p], at)
  BY <1>3, StackStays DEF ParsedTo
<1> QED
  BY <1>1, <1>2, <1>4, <1>5 DEF ParsedTo
\* Popping leaves the part of the stack up to the last item that is indented
\* less.
LEMMA Popped ==
  ASSUME NEW stack \in Seq(StackItem), NEW indent \in Nat
  PROVE  \E n \in 0 .. Len(stack) :
           /\ Enclosing(stack, indent) \in Seq(StackItem)
           /\ Len(Enclosing(stack, indent)) = n
           /\ \A m \in 1 .. n : Enclosing(stack, indent)[m] = stack[m]
           /\ n > 0 => stack[n].indent < indent
           /\ \A m \in n + 1 .. Len(stack) : stack[m].indent >= indent
<1> DEFINE S == {m \in DOMAIN stack : stack[m].indent < indent}
           n == Max({0} \cup S)
           left == SubSeq(stack, 1, n)
<1>1. Len(stack) \in Nat /\ DOMAIN stack = 1 .. Len(stack)
      /\ \A m \in 1 .. Len(stack) : stack[m] \in StackItem
  OBVIOUS
<1>2. n \in {0} \cup S /\ \A m \in {0} \cup S : n >= m
  BY <1>1, GreatestNatural
<1>3. n \in 0 .. Len(stack)
  BY <1>1, <1>2
<1>4. n > 0 => stack[n].indent < indent
  BY <1>2
<1>5. ASSUME NEW m \in n + 1 .. Len(stack)
      PROVE  stack[m].indent >= indent
  <2>1. m \in 1 .. Len(stack) /\ m > n
    BY <1>1, <1>3
  <2>2. ~(stack[m].indent < indent)
    BY <1>1, <1>2, <1>3, <2>1
  <2> QED
    BY <1>1, <2>1, <2>2 DEF StackItem
<1>6. Enclosing(stack, indent) = left
  BY DEF Enclosing
<1> HIDE DEF S, n
<1>7. /\ left \in Seq(StackItem)
      /\ Len(left) = n
      /\ \A m \in 1 .. n : left[m] = stack[m]
  <2>1. n \in Int /\ 1 \in Int /\ \A m \in 1 .. n : stack[m] \in StackItem
    BY <1>1, <1>3
  <2>2. /\ left \in Seq(StackItem)
        /\ Len(left) = IF 1 <= n THEN n - 1 + 1 ELSE 0
        /\ \A i \in 1 .. n - 1 + 1 : left[i] = stack[1 + i - 1]
    BY <2>1, SubSeqProperties
  <2>3. \A i \in 1 .. n : i \in 1 .. n - 1 + 1 /\ 1 + i - 1 = i
    BY <1>3
  <2> HIDE DEF left
  <2> QED
    BY <1>3, <2>2, <2>3
<1> HIDE DEF left
<1> QED
  BY <1>3, <1>4, <1>5, <1>6, <1>7

\* The bullet on top of what is left is the nearest before the new bullet that
\* is indented less, and together with it they are the new stack.
LEMMA NearestOnTop ==
  ASSUME NEW text \in Seq(Line), NEW k \in BulletsOf(text),
         NEW stack \in Seq(StackItem), NEW at,
         StackOf(text, k - 1, PeriodAt(text, k), stack, at),
         NEW n \in 0 .. Len(stack),
         n > 0 => stack[n].indent < text[k].indent,
         \A m \in n + 1 .. Len(stack) : stack[m].indent >= text[k].indent
  PROVE  IF n = 0 THEN Shallower(text, k) = {}
         ELSE /\ Shallower(text, k) # {}
              /\ stack[n].item = NumberOf(text, Max(Shallower(text, k)))
<1> DEFINE S == Shallower(text, k)
<1>1. k \in 1 .. Len(text) /\ DOMAIN stack = 1 .. Len(stack)
  BY DEF BulletsOf
<1>2. S \subseteq 0 .. k /\ \A b \in S : b \in BulletsOf(text) /\ b < k /\ b <= k - 1
  BY <1>1 DEF Shallower, BulletsOf
<1>3. ASSUME NEW m \in DOMAIN stack
      PROVE  /\ at[m] \in BulletsOf(text) /\ at[m] \in Nat /\ at[m] <= k - 1
             /\ PeriodAt(text, at[m]) = PeriodAt(text, k)
             /\ stack[m].indent = text[at[m]].indent
             /\ stack[m].item = NumberOf(text, at[m])
  BY <1>3 DEF StackOf, OnStack
<1>4. ASSUME NEW b \in S
      PROVE  \E m \in 1 .. n : b <= at[m]
  <2>1. Covered(text, stack, at, b)
    BY <1>2 DEF StackOf, Shallower
  <2>2. PICK m \in DOMAIN stack : b <= at[m] /\ text[at[m]].indent <= text[b].indent
    BY <2>1 DEF Covered
  <2>3. text[b].indent < text[k].indent
    BY DEF Shallower
  <2>4. /\ text[b].indent \in Nat /\ text[k].indent \in Nat
        /\ text[at[m]].indent \in Nat
    <3>1. \A c \in BulletsOf(text) : text[c].indent \in Nat
      BY LineKinds DEF BulletsOf
    <3> QED
      BY <1>2, <1>3, <3>1
  <2>5. stack[m].indent < text[k].indent
    BY <1>3, <2>2, <2>3, <2>4
  <2>6. m \in 1 .. n
    BY <1>1, <1>3, <2>4, <2>5
  <2> QED
    BY <2>2, <2>6
<1>5. CASE n = 0
  BY <1>4, <1>5
<1>6. CASE n > 0
  <2>1. n \in DOMAIN stack
    BY <1>1, <1>6
  <2>2. at[n] \in S
    BY <1>1, <1>3, <1>6, <2>1 DEF Shallower
  <2>3. \A b \in S : b <= at[n]
    <3>1. SUFFICES ASSUME NEW b \in S PROVE b <= at[n]
      OBVIOUS
    <3>2. PICK m \in 1 .. n : b <= at[m]
      BY <1>4
    <3>3. m \in DOMAIN stack /\ at[m] <= at[n]
      BY <1>1, <2>1 DEF StackOf
    <3> QED
      BY <1>2, <1>3, <2>1, <3>2, <3>3
  <2>4. Max(S) \in S /\ \A b \in S : Max(S) >= b
    BY <1>1, <1>2, <2>2, GreatestNatural
  <2>5. Max(S) = at[n]
    BY <1>2, <1>3, <2>1, <2>2, <2>3, <2>4
  <2> QED
    BY <1>3, <1>6, <2>1, <2>2, <2>5
<1> HIDE DEF S
<1> QED
  BY <1>5, <1>6 DEF S

\* The new item ends the items, the new bullet is on top.
LEMMA ItemsAfter ==
  ASSUME NEW text \in Seq(Line), NEW k \in BulletsOf(text),
         NEW T, NEW items \in Seq(T), ItemsParsed(text, k - 1, items),
         NEW item \in T, item = ItemOf(text, k)
  PROVE  /\ ItemsParsed(text, k, Append(items, item))
         /\ NumberOf(text, k) = Len(items) + 1
<1>1. k \in 1 .. Len(text) /\ \A b \in BulletsOf(text) : b \in Nat
  BY DEF BulletsOf
<1>2. PICK len \in Nat : len = Len(items)
  OBVIOUS
<1>3. NumberOf(text, k - 1) = len /\ NumberOf(text, k) = len + 1
  BY <1>1, <1>2, NumberAfter DEF ItemsParsed
<1>4. PICK more : more = Append(items, item)
  OBVIOUS
<1>5. Len(more) = len + 1 /\ more[len + 1] = item
      /\ \A m \in 1 .. len : more[m] = items[m]
  BY <1>2, <1>4
<1>6. ASSUME NEW m \in 1 .. len + 1
      PROVE  \E b \in BulletsOf(text) : b <= k /\ m = NumberOf(text, b)
  <2>1. CASE m = len + 1
    BY <1>1, <1>3, <2>1
  <2>2. CASE m # len + 1
    <3>1. m \in 1 .. len
      BY <2>2
    <3>2. PICK b \in BulletsOf(text) : b <= k - 1 /\ m = NumberOf(text, b)
      BY <1>2, <3>1 DEF ItemsParsed
    <3> QED
      BY <1>1, <3>2
  <2> QED
    BY <2>1, <2>2
<1>7. ASSUME NEW b \in BulletsOf(text), b <= k
      PROVE  /\ NumberOf(text, b) \in 1 .. len + 1
             /\ more[NumberOf(text, b)] = ItemOf(text, b)
  <2>1. CASE b = k
    BY <1>3, <1>5, <2>1
  <2>2. CASE b # k
    <3>1. b <= k - 1
      BY <1>1, <1>7, <2>2
    <3>2. NumberOf(text, b) \in 1 .. len /\ items[NumberOf(text, b)] = ItemOf(text, b)
      BY <1>2, <3>1 DEF ItemsParsed
    <3> QED
      BY <1>5, <3>2
  <2> QED
    BY <2>1, <2>2
<1> QED
  BY <1>2, <1>3, <1>4, <1>5, <1>6, <1>7 DEF ItemsParsed

LEMMA StackAfter ==
  ASSUME NEW text \in Seq(Line), NEW k \in BulletsOf(text),
         NEW p, p = PeriodAt(text, k),
         NEW stack \in Seq(StackItem), NEW at, StackOf(text, k - 1, p, stack, at),
         NEW n \in 0 .. Len(stack),
         \A m \in n + 1 .. Len(stack) : stack[m].indent >= text[k].indent,
         NEW left \in Seq(StackItem), Len(left) = n,
         \A m \in 1 .. n : left[m] = stack[m],
         NEW e \in StackItem,
         e = [indent |-> text[k].indent, item |-> NumberOf(text, k)]
  PROVE  \E lines : StackOf(text, k, p, Append(left, e), lines)
<1>1. /\ k \in 1 .. Len(text) /\ \A b \in BulletsOf(text) : b \in Nat
      /\ \A b \in BulletsOf(text) : text[b].indent \in Nat
  BY LineKinds DEF BulletsOf
<1>2. DOMAIN stack = 1 .. Len(stack) /\ Len(stack) \in Nat /\ n \in Nat
  OBVIOUS
<1>3. PICK more : more = Append(left, e)
  OBVIOUS
<1>4. DOMAIN more = 1 .. n + 1 /\ more[n + 1] = e
      /\ \A m \in 1 .. n : more[m] = stack[m]
  BY <1>3
<1>5. PICK lines : lines = [m \in 1 .. n + 1 |-> IF m = n + 1 THEN k ELSE at[m]]
  OBVIOUS
<1>6. lines[n + 1] = k /\ \A m \in 1 .. n : lines[m] = at[m]
  BY <1>2, <1>5
<1>7. ASSUME NEW m \in DOMAIN stack
      PROVE  /\ at[m] \in BulletsOf(text) /\ at[m] \in Nat /\ at[m] <= k - 1
             /\ OnStack(text, k - 1, p, stack[m], at[m])
             /\ stack[m].indent = text[at[m]].indent
  BY <1>7 DEF StackOf, OnStack
<1>8. ASSUME NEW m \in 1 .. n + 1
      PROVE  OnStack(text, k, p, more[m], lines[m]) /\ lines[m] \in Nat
             /\ lines[m] <= k
  <2>1. CASE m = n + 1
    BY <1>1, <1>4, <1>6, <2>1 DEF OnStack
  <2>2. CASE m # n + 1
    <3>1. m \in 1 .. n /\ m \in DOMAIN stack
      BY <1>2, <2>2
    <3>2. more[m] = stack[m] /\ lines[m] = at[m]
      BY <1>4, <1>6, <3>1
    <3> QED
      BY <1>1, <1>7, <3>1, <3>2 DEF OnStack
  <2> QED
    BY <2>1, <2>2
<1>9. ASSUME NEW l \in 1 .. n + 1, NEW m \in 1 .. n + 1, l <= m
      PROVE  lines[l] <= lines[m]
  <2>1. CASE m = n + 1
    BY <1>1, <1>6, <1>8, <2>1
  <2>2. CASE m # n + 1
    <3>1. l \in 1 .. n /\ m \in 1 .. n /\ l \in DOMAIN stack /\ m \in DOMAIN stack
      BY <1>2, <1>9, <2>2
    <3>2. at[l] <= at[m]
      BY <1>9, <3>1 DEF StackOf
    <3> QED
      BY <1>6, <3>1, <3>2
  <2> QED
    BY <2>1, <2>2
<1>10. ASSUME NEW b \in BulletsOf(text), b <= k, PeriodAt(text, b) = p
       PROVE  \E m \in 1 .. n + 1 :
                b <= lines[m] /\ text[lines[m]].indent <= text[b].indent
  <2>1. CASE b = k
    BY <1>1, <1>2, <1>6, <2>1
  <2>2. CASE b # k
    <3>1. Covered(text, stack, at, b)
      BY <1>1, <1>10, <2>2 DEF StackOf
    <3>2. PICK m \in DOMAIN stack : b <= at[m] /\ text[at[m]].indent <= text[b].indent
      BY <3>1 DEF Covered
    <3>3. CASE m <= n
      <4>1. m \in 1 .. n /\ m \in 1 .. n + 1
        BY <1>2, <3>3
      <4> QED
        BY <1>6, <3>2, <4>1
    <3>4. CASE ~(m <= n)
      <4>1. m \in n + 1 .. Len(stack)
        BY <1>2, <3>4
      <4>2. stack[m].indent >= text[k].indent
        BY <4>1
      <4>3. text[k].indent <= text[at[m]].indent
        BY <1>1, <1>7, <4>2
      <4>4. text[k].indent <= text[b].indent
        BY <1>1, <1>7, <3>2, <4>3
      <4>5. n + 1 \in 1 .. n + 1
        BY <1>2
      <4> QED
        BY <1>6, <1>10, <4>4, <4>5
    <3> QED
      BY <3>3, <3>4
  <2> QED
    BY <2>1, <2>2
<1>11. lines \in [1 .. n + 1 -> Nat]
  BY <1>5, <1>6, <1>8
<1>12. StackOf(text, k, p, more, lines)
  BY <1>4, <1>8, <1>9, <1>10, <1>11 DEF StackOf, Covered
<1> QED
  BY <1>3, <1>12

LEMMA BulletParsed ==
  ASSUME NEW text \in Seq(Line), NEW k \in 1 .. Len(text),
         "heading" \notin DOMAIN text[k], NEW s, ParsedTo(text, k - 1, s),
         s.period # Null
  PROVE  ParsedTo(text, k, ParsedLine(s, text[k]))
<1>1. PICK p \in Periods : p = s.period /\ p = PeriodAt(text, k)
  BY PeriodAtLine DEF ParsedTo, ParseState
<1>2. k \in BulletsOf(text) /\ text[k].indent \in Nat
  BY <1>1, LineKinds DEF BulletsOf
<1>3. PICK stack \in Seq(StackItem) : stack = s.stacks[p]
  BY DEF ParsedTo, ParseState
<1>4. PICK left : left = Enclosing(stack, text[k].indent)
  OBVIOUS
<1>5. PICK n \in 0 .. Len(stack) :
        /\ left \in Seq(StackItem) /\ Len(left) = n
        /\ \A m \in 1 .. n : left[m] = stack[m]
        /\ n > 0 => stack[n].indent < text[k].indent
        /\ \A m \in n + 1 .. Len(stack) : stack[m].indent >= text[k].indent
  BY <1>2, <1>4, Popped
<1>6. PICK at : StackOf(text, k - 1, p, stack, at)
  BY <1>3 DEF ParsedTo
<1>7. IF n = 0 THEN Shallower(text, k) = {}
      ELSE /\ Shallower(text, k) # {}
           /\ stack[n].item = NumberOf(text, Max(Shallower(text, k)))
  BY <1>1, <1>2, <1>5, <1>6, NearestOnTop
<1>8. PICK parent : parent = IF left = <<>> THEN 0 ELSE Last(left).item
  OBVIOUS
<1>9. parent = (IF n = 0 THEN 0 ELSE stack[n].item) /\ parent \in Nat
  <2>1. CASE n = 0
    BY <1>5, <1>8, <2>1
  <2>2. CASE n # 0
    <3>1. left # <<>> /\ Last(left) = stack[n] /\ stack[n] \in StackItem
      BY <1>5, <2>2 DEF Last
    <3> QED
      BY <1>8, <2>2, <3>1 DEF StackItem
  <2> QED
    BY <2>1, <2>2
<1>10. PICK item : item = [parent |-> parent, period |-> p]
  OBVIOUS
<1>11. item = ItemOf(text, k) /\ item \in [parent : Nat, period : Periods]
  BY <1>1, <1>7, <1>9, <1>10 DEF ItemOf
<1>12. s.items \in Seq([parent : Nat, period : Periods])
       /\ ItemsParsed(text, k - 1, s.items)
  BY DEF ParsedTo, ParseState
<1>13. /\ ItemsParsed(text, k, Append(s.items, item))
       /\ NumberOf(text, k) = Len(s.items) + 1
  <2>1. PICK T : T = [parent : Nat, period : Periods]
    OBVIOUS
  <2>2. s.items \in Seq(T) /\ item \in T
    BY <1>11, <1>12, <2>1
  <2> QED
    BY <1>2, <1>11, <1>12, <2>2, ItemsAfter
<1>14. PICK e : e = [indent |-> text[k].indent, item |-> Len(s.items) + 1]
  OBVIOUS
<1>15. e \in StackItem /\ e = [indent |-> text[k].indent, item |-> NumberOf(text, k)]
  BY <1>2, <1>12, <1>13, <1>14 DEF StackItem
<1>16. \E lines : StackOf(text, k, p, Append(left, e), lines)
  BY <1>1, <1>2, <1>5, <1>6, <1>15, StackAfter
<1>17. PICK r : r = [s EXCEPT !.items = Append(@, item),
                              !.stacks[p] = Append(left, e)]
  OBVIOUS
<1>18. ParsedLine(s, text[k]) = r
  BY <1>1, <1>3, <1>4, <1>8, <1>10, <1>14, <1>17 DEF ParsedLine, Bullet
<1>19. s \in ParseState
  BY DEF ParsedTo
<1>20. /\ r.period = p /\ r.items = Append(s.items, item)
       /\ r.stacks = [s.stacks EXCEPT ![p] = Append(left, e)]
       /\ r = [period |-> r.period, items |-> r.items, stacks |-> r.stacks]
  BY <1>1, <1>17, <1>19 DEF ParseState
<1>21. r.stacks[p] = Append(left, e)
       /\ \A q \in Periods \ {p} : r.stacks[q] = s.stacks[q]
  BY <1>19, <1>20 DEF ParseState
<1>22. r \in ParseState
  <2>1. Append(s.items, item) \in Seq([parent : Nat, period : Periods])
    BY <1>11, <1>12
  <2>2. Append(left, e) \in Seq(StackItem)
    BY <1>5, <1>15
  <2>3. r.stacks \in [Periods -> Seq(StackItem)]
    BY <1>19, <1>20, <2>2 DEF ParseState
  <2> QED
    BY <1>20, <2>1, <2>3 DEF ParseState
<1>23. ASSUME NEW q \in Periods
       PROVE  \E lines : StackOf(text, k, q, r.stacks[q], lines)
  <2>1. CASE q = p
    BY <1>16, <1>21, <2>1
  <2>2. CASE q # p
    <3>1. PICK old : StackOf(text, k - 1, q, s.stacks[q], old)
      BY DEF ParsedTo
    <3>2. StackOf(text, k, q, s.stacks[q], old)
      BY <1>1, <2>2, <3>1, StackStays
    <3> QED
      BY <1>21, <2>2, <3>2
  <2> QED
    BY <2>1, <2>2
<1>24. ParsedTo(text, k, r)
  BY <1>1, <1>13, <1>20, <1>22, <1>23 DEF ParsedTo
<1> QED
  BY <1>18, <1>24

LEMMA ParsedFrom ==
  ASSUME NEW text \in Seq(Line)
  PROVE  ParsedTo(text, 0, NoItems)
<1>1. \A b \in BulletsOf(text) : b \in Nat /\ ~(b <= 0)
  BY DEF BulletsOf
<1>2. NoItems \in ParseState
  BY DEF NoItems, ParseState
<1>3. NoItems.period = PeriodAt(text, 0)
  BY NoPeriodBefore DEF NoItems
<1>4. ItemsParsed(text, 0, <<>>)
  BY <1>1, NumberBefore DEF ItemsParsed
<1>5. ASSUME NEW p \in Periods
      PROVE  StackOf(text, 0, p, <<>>, <<>>)
  BY <1>1 DEF StackOf
<1>6. NoItems.items = <<>> /\ \A p \in Periods : NoItems.stacks[p] = <<>>
  BY DEF NoItems
<1> QED
  BY <1>2, <1>3, <1>4, <1>5, <1>6 DEF ParsedTo

LEMMA ParsedAlways ==
  ASSUME NEW text \in Seq(Line)
  PROVE  \A k \in 0 .. Len(text) : ParsedTo(text, k, Parse(text)[k])
<1> DEFINE T == {k \in 0 .. Len(text) : ~ParsedTo(text, k, Parse(text)[k])}
<1> SUFFICES ASSUME T # {} PROVE FALSE
  OBVIOUS
<1>1. T \subseteq Nat
  OBVIOUS
<1>2. PICK k \in T : \A j \in T : k <= j
  BY <1>1, LeastNatural
<1>3. k \in 0 .. Len(text) /\ ~ParsedTo(text, k, Parse(text)[k])
  BY <1>2
<1>4. Parse(text)[k] = Parsed(text, k, Parse(text)[k - 1])
  <2>1. \A m \in Nat : Parse(text)[m] = Parsed(text, m, Parse(text)[m - 1])
    BY ParseLines
  <2> QED
    BY <1>3, <2>1
<1>5. CASE k = 0
  BY <1>3, <1>4, <1>5, ParsedFrom DEF Parsed
<1>6. CASE k > 0
  <2>1. k \in 1 .. Len(text) /\ k - 1 \in 0 .. Len(text) /\ k - 1 \notin T
    BY <1>2, <1>3, <1>6
  <2>2. PICK s : s = Parse(text)[k - 1]
    OBVIOUS
  <2>3. ParsedTo(text, k - 1, s)
    BY <2>1, <2>2
  <2>4. Parse(text)[k] = ParsedLine(s, text[k])
    BY <1>4, <1>6, <2>2 DEF Parsed
  <2>5. ParsedTo(text, k, ParsedLine(s, text[k]))
    BY <2>1, <2>3, HeadingParsed, OutsideParsed, BulletParsed
  <2> QED
    BY <1>3, <2>4, <2>5
<1> QED
  BY <1>3, <1>5, <1>6

\* What parseChecklistMarkdown returns: one item for each bullet of a period,
\* in the order of the text, below the nearest bullet before it in its period
\* that is indented less (checklist-markdown.ts:25-57).
THEOREM ParserIsOutline ==
  ASSUME NEW text \in Seq(Line), NEW id
  PROVE  IsOutline(TemplateRows(ParseChecklistMarkdown(text), id), text)
<1>1. PICK items : items = ParseChecklistMarkdown(text)
  OBVIOUS
<1>2. Len(text) \in Nat /\ Len(text) \in 0 .. Len(text)
  OBVIOUS
<1>3. ParsedTo(text, Len(text), Parse(text)[Len(text)])
  BY <1>2, ParsedAlways
<1>4. ItemsParsed(text, Len(text), items)
      /\ items \in Seq([parent : Nat, period : Periods])
  BY <1>1, <1>3 DEF ParsedTo, ParseState, ParseChecklistMarkdown
<1>5. \A b \in BulletsOf(text) : b <= Len(text)
  BY DEF BulletsOf
<1>6. PICK rows : rows = TemplateRows(items, id)
  OBVIOUS
<1>7. DOMAIN rows = {<<id, n>> : n \in DOMAIN items}
  BY <1>6 DEF TemplateRows
<1>8. DOMAIN items = 1 .. Len(items)
  BY <1>4
<1>9. {t[2] : t \in DOMAIN rows} = {NumberOf(text, k) : k \in BulletsOf(text)}
  <2>1. \A x : x \in {t[2] : t \in DOMAIN rows} <=> x \in DOMAIN items
    <3>1. \A n \in DOMAIN items : <<id, n>> \in DOMAIN rows /\ <<id, n>>[2] = n
      BY <1>7
    <3>2. \A t \in DOMAIN rows : t[2] \in DOMAIN items
      BY <1>7
    <3> QED
      BY <3>1, <3>2
  <2>2. \A x : x \in DOMAIN items <=> \E k \in BulletsOf(text) : x = NumberOf(text, k)
    BY <1>4, <1>5, <1>8 DEF ItemsParsed
  <2> QED
    BY <2>1, <2>2
<1>10. ASSUME NEW t \in DOMAIN rows, NEW k \in BulletsOf(text), t[2] = NumberOf(text, k)
       PROVE  /\ rows[t].period = PeriodAt(text, k)
              /\ rows[t].parent =
                   IF Shallower(text, k) = {} THEN Null
                   ELSE <<t[1], NumberOf(text, Max(Shallower(text, k)))>>
  <2>1. t[1] = id /\ t[2] \in DOMAIN items
    BY <1>7
  <2>2. items[t[2]] = ItemOf(text, k)
    BY <1>4, <1>5, <1>10 DEF ItemsParsed
  <2>3. rows[t] = [parent |-> IF items[t[2]].parent = 0 THEN Null
                              ELSE <<id, items[t[2]].parent>>,
                   period |-> items[t[2]].period]
    BY <1>6, <1>7 DEF TemplateRows
  <2>4. CASE Shallower(text, k) = {}
    BY <2>2, <2>3, <2>4 DEF ItemOf
  <2>5. CASE Shallower(text, k) # {}
    <3>1. PICK b \in BulletsOf(text) : b = Max(Shallower(text, k))
      <4>1. k \in Nat /\ Shallower(text, k) \subseteq 0 .. k
        BY DEF Shallower, BulletsOf
      <4>2. Max(Shallower(text, k)) \in Shallower(text, k)
        BY <2>5, <4>1, GreatestNatural
      <4> QED
        BY <4>2 DEF Shallower
    <3>2. NumberOf(text, b) # 0
      BY <1>4, <1>5 DEF ItemsParsed
    <3> QED
      BY <2>1, <2>2, <2>3, <2>5, <3>1, <3>2 DEF ItemOf
  <2> QED
    BY <2>4, <2>5
<1>11. IsOutline(rows, text)
  BY <1>9, <1>10 DEF IsOutline
<1> QED
  BY <1>1, <1>6, <1>11

-----------------------------------------------------------------------------
(* The template and the text                                               *)

LEMMA RowsOfTree ==
  ASSUME NEW plan, NEW K, TreesOf(template, plan, K), NEW k \in K
  PROVE  RowsOfSave(k) = Tree(plan, k)
<1>1. /\ DOMAIN template = UNION {DOMAIN Tree(plan, m) : m \in K}
      /\ \A m \in K : \A t \in DOMAIN Tree(plan, m) : template[t] = Tree(plan, m)[t]
  BY DEF TreesOf
<1>2. \A m : \A t \in DOMAIN Tree(plan, m) : t[1] = m
  BY DEF Tree, TemplateRows
<1>3. PICK tree : tree = Tree(plan, k)
  OBVIOUS
<1>4. {t \in DOMAIN template : t[1] = k} = DOMAIN tree
  <2>1. ASSUME NEW t \in DOMAIN template, t[1] = k
        PROVE  t \in DOMAIN tree
    <3>1. PICK m \in K : t \in DOMAIN Tree(plan, m)
      BY <1>1
    <3>2. m = k
      BY <1>2, <2>1, <3>1
    <3> QED
      BY <1>3, <3>1, <3>2
  <2>2. ASSUME NEW t \in DOMAIN tree
        PROVE  t \in DOMAIN template /\ t[1] = k
    BY <1>1, <1>2, <1>3
  <2> QED
    BY <2>1, <2>2
<1>5. RowsOfSave(k) = [t \in DOMAIN tree |-> template[t]]
  BY <1>4 DEF RowsOfSave, Restrict
<1>6. tree = [t \in DOMAIN tree |-> tree[t]]
  BY <1>3 DEF Tree, TemplateRows
<1>7. \A t \in DOMAIN tree : template[t] = tree[t]
  BY <1>1, <1>3
<1> QED
  BY <1>3, <1>5, <1>6, <1>7

\* The outline of the stored text is in the template as one save's whole
\* tree, however saves and failures overlap: the page parses what it sends, and
\* a commit takes away whole trees and its own text's rows with that text.  And
\* the outline is all of the template as long as no two saves have crossed: the
\* locks of the DELETE part them (todo.ts:441-474).
THEOREM TemplateIsOutlineHolds == Spec => []TemplateIsOutline
<1>1. TodoInv => TemplateIsOutline
  <2> SUFFICES ASSUME TodoInv, settings # Null, settings.text # Null
               PROVE  /\ \E id \in 1 .. saves : IsOutline(RowsOfSave(id), settings.text)
                      /\ ~crossed => IsOutline(template, settings.text)
    BY Zenon DEF TemplateIsOutline
  <2>1. Shape /\ \E plan \in [1 .. saves -> Bodies] : Kept(plan)
    BY DEF TodoInv
  <2>2. PICK plan \in [1 .. saves -> Bodies] : Kept(plan)
    BY <2>1
  <2>3. ASSUME NEW k \in 1 .. saves, settings = SettingsOf(plan[k])
        PROVE  IsOutline(Tree(plan, k), settings.text)
    <3>1. settings.text = plan[k].text
      BY <2>3 DEF SettingsOf
    <3>2. plan[k] \in Bodies
      BY <2>1 DEF Shape
    <3>3. /\ settings.text \in Seq(Line)
          /\ plan[k].items = ParseChecklistMarkdown(settings.text)
      BY <3>1, <3>2, PageAssumption
    <3> QED
      BY <3>3, ParserIsOutline, Zenon DEF Tree
  <2>4. \E id \in 1 .. saves : IsOutline(RowsOfSave(id), settings.text)
    <3>1. PICK K \in SUBSET (1 .. saves) :
            /\ TreesOf(template, plan, K)
            /\ settings = Null \/ \E k \in K : settings = SettingsOf(plan[k])
      BY <2>2, Zenon DEF Kept, TemplateKept
    <3>2. PICK k \in K : settings = SettingsOf(plan[k])
      BY <3>1
    <3>3. RowsOfSave(k) = Tree(plan, k)
      BY <3>1, RowsOfTree
    <3>4. k \in 1 .. saves
      BY <3>1
    <3> QED
      BY <2>3, <3>2, <3>3, <3>4, Zenon
  <2>5. ~crossed => IsOutline(template, settings.text)
    <3>1. SUFFICES ASSUME ~crossed PROVE IsOutline(template, settings.text)
      OBVIOUS
    <3>2. PICK k \in 1 .. saves : template = Tree(plan, k) /\ settings = SettingsOf(plan[k])
      BY <2>2, <3>1, Zenon DEF Kept, Parted
    <3> QED
      BY <2>3, <3>2, Zenon
  <2> QED
    BY <2>4, <2>5
<1> QED
  BY <1>1, TodoInvariant, PTL
=============================================================================
