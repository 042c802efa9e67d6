--------------------------- MODULE TensorMapSteps ---------------------------
(***************************************************************************)
(* Lemmas about the operations of the producer-lookup map: what a fold over *)
(* a list and a walk along a chain compute, what each operation leaves of a *)
(* map, and that it keeps both families of chains sound.                   *)
(***************************************************************************)
EXTENDS TensorMapCore, FiniteSetTheorems, SequenceTheorems, WellFoundedInduction, TLAPS

----------------------------------------------------------------------------
(* Induction, in the form that every non-empty set of natural numbers has  *)
(* a least element, and folds.                                             *)
LessNat == { m \in Nat \X Nat : m[1] < m[2] }

(* The order of the natural numbers is well founded.                       *)
LEMMA LessNatWF == IsWellFoundedOn(LessNat, Nat)
<1>1. IsWellFoundedOn({ m \in Nat \X Nat : m[1] < m[2] }, Nat)
  BY NatLessThanWellFounded, Zenon DEF OpToRel
<1> QED BY <1>1 DEF LessNat

(* A set with 0 and, up to n, the successor of each of its numbers.        *)
LEMMA UpTo ==
  ASSUME NEW n \in Nat, NEW S, 0 \in S, \A k \in 1 .. n : k - 1 \in S => k \in S
  PROVE  0 .. n \subseteq S
<1> DEFINE T == (0 .. n) \ S
<1>1. SUFFICES ASSUME T # {} PROVE FALSE
  OBVIOUS
<1>2. T \subseteq Nat
  OBVIOUS
<1> HIDE DEF T
<1>3. PICK x \in T : \A y \in T : ~ (<<y, x>> \in LessNat)
  BY <1>1, LessNatWF, <1>2, WFMin
<1>4. x \in 0 .. n /\ x \notin S /\ x # 0
  BY DEF T
<1>5. x \in 1 .. n /\ x - 1 \in 0 .. n /\ x - 1 < x
  BY <1>4
<1>6. x - 1 \in T
  BY <1>4, <1>5 DEF T
<1>7. <<x - 1, x>> \in LessNat
  BY <1>4, <1>5 DEF LessNat
<1> QED BY <1>3, <1>6, <1>7

(* The greatest number of a set of the first m.                            *)
LEMMA MaxOf ==
  ASSUME NEW m \in Nat, NEW s \in SUBSET (1 .. m), s # {}
  PROVE  /\ Max(s) \in s /\ Max(s) \in 1 .. m
         /\ \A y \in s : y <= Max(s)
<1> DEFINE S == { k \in 0 .. m : \A r \in SUBSET (1 .. k) : r # {} =>
                     \E x \in r : \A y \in r : x >= y }
<1>1. 0 \in S
  <2>1. \A r \in SUBSET (1 .. 0) : r # {} => \E x \in r : \A y \in r : x >= y
    <3>1. 1 .. 0 = {}
      OBVIOUS
    <3>2. \A r \in SUBSET {} : r = {}
      OBVIOUS
    <3> QED BY <3>1, <3>2
  <2>2. 0 \in 0 .. m
    OBVIOUS
  <2> QED BY <2>1, <2>2
<1>2. ASSUME NEW k \in 1 .. m, k - 1 \in S
      PROVE  k \in S
  <2>1. ASSUME NEW r \in SUBSET (1 .. k), r # {}
        PROVE  \E x \in r : \A y \in r : x >= y
    <3>1. CASE k \in r
      BY <3>1
    <3>2. CASE k \notin r
      <4>1. r \in SUBSET (1 .. k - 1)
        BY <3>2
      <4> QED BY <1>2, <2>1, <4>1
    <3> QED BY <3>1, <3>2
  <2> QED BY <2>1
<1>3. m \in S
  <2> HIDE DEF S
  <2> QED BY <1>1, <1>2, UpTo
<1>4. \E x \in s : \A y \in s : x >= y
  BY <1>3
<1>5. Max(s) \in s /\ \A y \in s : Max(s) >= y
  BY <1>4 DEF Max
<1> QED BY <1>5

(* What a fold evaluates: a function on the sets of positions that starts  *)
(* from b and applies G in ascending order.  There is one.                 *)
Folds(h, b, G, n, U) ==
  /\ h \in [SUBSET (1 .. n) -> U]
  /\ h[{}] = b
  /\ \A s \in SUBSET (1 .. n) : s # {} => h[s] = G[Max(s)][h[s \ {Max(s)}]]

LEMMA FoldExists ==
  ASSUME NEW n \in Nat, NEW U, NEW b \in U, NEW G \in [1 .. n -> [U -> U]]
  PROVE  \E h : Folds(h, b, G, n, U)
<1> DEFINE S == { m \in 0 .. n : \E h : Folds(h, b, G, m, U) }
<1>1. 0 \in S
  <2> DEFINE h == [s \in SUBSET (1 .. 0) |-> b]
  <2>1. 1 .. 0 = {}
    OBVIOUS
  <2>2. Folds(h, b, G, 0, U)
    BY <2>1 DEF Folds
  <2> HIDE DEF h
  <2>3. \E x : Folds(x, b, G, 0, U)
    BY <2>2
  <2> QED BY <2>3
<1>2. ASSUME NEW m \in 1 .. n, m - 1 \in S
      PROVE  m \in S
  <2>1. PICK h : Folds(h, b, G, m - 1, U)
    BY <1>2
  <2> DEFINE g == [s \in SUBSET (1 .. m) |-> IF m \in s THEN G[m][h[s \ {m}]] ELSE h[s]]
  <2>2. ASSUME NEW s \in SUBSET (1 .. m)
        PROVE  /\ m \notin s => s \in SUBSET (1 .. m - 1)
               /\ s \ {m} \in SUBSET (1 .. m - 1)
               /\ m \in s => Max(s) = m
    <3>1. (m \notin s => s \in SUBSET (1 .. m - 1)) /\ s \ {m} \in SUBSET (1 .. m - 1)
      OBVIOUS
    <3>2. ASSUME m \in s PROVE Max(s) = m
      <4>1. Max(s) \in 1 .. m /\ m <= Max(s)
        BY <3>2, MaxOf
      <4> QED BY <4>1
    <3> QED BY <3>1, <3>2
  <2>3. g \in [SUBSET (1 .. m) -> U]
    <3>1. ASSUME NEW s \in SUBSET (1 .. m) PROVE g[s] \in U
      <4>1. G[m] \in [U -> U]
        OBVIOUS
      <4>2. m \in s => h[s \ {m}] \in U
        BY <2>1, <2>2 DEF Folds
      <4>3. m \notin s => h[s] \in U
        BY <2>1, <2>2 DEF Folds
      <4> QED BY <4>1, <4>2, <4>3
    <3> QED BY <3>1
  <2>4. g[{}] = b
    BY <2>1 DEF Folds
  <2>5. ASSUME NEW s \in SUBSET (1 .. m), s # {}
        PROVE  g[s] = G[Max(s)][g[s \ {Max(s)}]]
    <3>1. CASE m \in s
      <4>1. Max(s) = m /\ g[s] = G[m][h[s \ {m}]]
        BY <2>2, <3>1
      <4>2. s \ {m} \in SUBSET (1 .. m) /\ m \notin s \ {m}
        OBVIOUS
      <4>3. g[s \ {m}] = h[s \ {m}]
        BY <4>2
      <4> QED BY <4>1, <4>3
    <3>2. CASE m \notin s
      <4>1. s \in SUBSET (1 .. m - 1)
        BY <2>2, <3>2
      <4>2. Max(s) \in 1 .. m - 1
        BY <2>5, <4>1, MaxOf
      <4>3. s \ {Max(s)} \in SUBSET (1 .. m) /\ m \notin s \ {Max(s)}
        BY <3>2
      <4>4. g[s] = h[s] /\ g[s \ {Max(s)}] = h[s \ {Max(s)}]
        BY <3>2, <4>3
      <4> QED BY <2>1, <2>5, <4>1, <4>4 DEF Folds
    <3> QED BY <3>1, <3>2
  <2>6. Folds(g, b, G, m, U)
    BY <2>3, <2>4, <2>5 DEF Folds
  <2> HIDE DEF g
  <2>7. \E x : Folds(x, b, G, m, U)
    BY <2>6
  <2> QED BY <2>7
<1>3. n \in S
  <2> HIDE DEF S
  <2>1. \A m \in 1 .. n : m - 1 \in S => m \in S
    BY <1>2
  <2>2. 0 .. n \subseteq S
    BY <1>1, <2>1, UpTo
  <2> QED BY <2>2
<1> QED BY <1>3

(* The insertions of a task, one after the other.                          *)
Inserting(f, b, q, n, task, U) ==
  /\ f[0] = b
  /\ \A k \in 1 .. n : f[k] = InsertOne(f[k - 1], q[k], task)
  /\ \A k \in 0 .. n : f[k] \in U
  /\ InsertAll(b, q, task) = f[n]

LEMMA InsertFold ==
  ASSUME NEW n \in Nat, NEW q, DOMAIN q = 1 .. n, NEW U, NEW b \in U, NEW task,
         \A a \in U : \A k \in 1 .. n : InsertOne(a, q[k], task) \in U
  PROVE  \E f : Inserting(f, b, q, n, task, U)
<1> DEFINE G == [k \in 1 .. n |-> [a \in U |-> InsertOne(a, q[k], task)]]
           E(h) == h = [s \in SUBSET DOMAIN q |->
                          IF s = {} THEN b ELSE InsertOne(h[s \ {Max(s)}], q[Max(s)], task)]
           g == CHOOSE h : E(h)
           f == [k \in 0 .. n |-> g[1 .. k]]
<1>1. E(g)
  <2>1. G \in [1 .. n -> [U -> U]]
    OBVIOUS
  <2>2. PICK h : Folds(h, b, G, n, U)
    <3> HIDE DEF G
    <3> QED BY <2>1, FoldExists
  <2>3. ASSUME NEW s \in SUBSET (1 .. n), s # {}
        PROVE  G[Max(s)][h[s \ {Max(s)}]] = InsertOne(h[s \ {Max(s)}], q[Max(s)], task)
    <3>1. Max(s) \in 1 .. n
      BY <2>3, MaxOf
    <3>2. h[s \ {Max(s)}] \in U
      BY <2>2 DEF Folds
    <3> QED BY <3>1, <3>2
  <2>4. E(h)
    <3> HIDE DEF G
    <3>1. \A s \in SUBSET DOMAIN q :
            h[s] = IF s = {} THEN b ELSE InsertOne(h[s \ {Max(s)}], q[Max(s)], task)
      BY <2>2, <2>3 DEF Folds
    <3>2. h = [s \in SUBSET DOMAIN q |-> h[s]]
      BY <2>2 DEF Folds
    <3> QED BY <3>1, <3>2
  <2> HIDE DEF E
  <2> QED BY <2>4
<1>2. InsertAll(b, q, task) = g[DOMAIN q]
  BY Zenon DEF InsertAll, FoldLeft, MapThenFoldSet
<1>3. \A s \in SUBSET (1 .. n) :
        g[s] = IF s = {} THEN b ELSE InsertOne(g[s \ {Max(s)}], q[Max(s)], task)
  BY <1>1
<1> HIDE DEF g, E, G
<1>4. f[0] = b
  <2>1. 1 .. 0 = {} /\ 0 \in 0 .. n
    OBVIOUS
  <2> QED BY <1>3, <2>1
<1>5. ASSUME NEW k \in 1 .. n
      PROVE  f[k] = InsertOne(f[k - 1], q[k], task)
  <2>1. 1 .. k \in SUBSET (1 .. n) /\ k \in 1 .. k /\ k \in Nat
    OBVIOUS
  <2>2. Max(1 .. k) = k
    <3>1. Max(1 .. k) \in 1 .. k /\ k <= Max(1 .. k)
      BY <2>1, MaxOf
    <3> QED BY <3>1
  <2>3. (1 .. k) \ {k} = 1 .. k - 1
    OBVIOUS
  <2>4. g[1 .. k] = InsertOne(g[1 .. k - 1], q[k], task)
    BY <1>3, <2>1, <2>2, <2>3
  <2> QED BY <2>4
<1>6. \A k \in 0 .. n : f[k] \in U
  <2> DEFINE S == { k \in 0 .. n : f[k] \in U }
  <2> HIDE DEF f
  <2>1. 0 \in S
    BY <1>4
  <2>2. \A k \in 1 .. n : k - 1 \in S => k \in S
    BY <1>5
  <2> HIDE DEF S
  <2>3. 0 .. n \subseteq S
    BY <2>1, <2>2, UpTo
  <2> QED BY <2>3 DEF S
<1>7. InsertAll(b, q, task) = f[n]
  BY <1>2
<1> HIDE DEF f
<1>8. Inserting(f, b, q, n, task, U)
  BY <1>4, <1>5, <1>6, <1>7 DEF Inserting
<1> QED BY <1>8

----------------------------------------------------------------------------
(* Lists.                                                                   *)
Links == Entries \cup {NoEntry}

(* An element in front of a list.                                          *)
LEMMA FrontOf ==
  ASSUME NEW S, NEW e \in S, NEW c \in Seq(S)
  PROVE  /\ <<e>> \o c \in Seq(S)
         /\ Len(<<e>> \o c) = Len(c) + 1
         /\ (<<e>> \o c)[1] = e
         /\ \A k \in 2 .. Len(c) + 1 : (<<e>> \o c)[k] = c[k - 1]
<1>1. <<e>> \in Seq(S) /\ Len(<<e>>) = 1 /\ <<e>>[1] = e
  OBVIOUS
<1> DEFINE s == <<e>>
<1> HIDE DEF s
<1>2. s \in Seq(S) /\ Len(s) = 1 /\ s[1] = e
  BY <1>1 DEF s
<1>3. s \o c \in Seq(S) /\ Len(s \o c) = Len(s) + Len(c)
  BY <1>2, ConcatProperties, Zenon
<1>4. Len(c) \in Nat
  BY LenProperties
<1>5. \A k \in 1 .. Len(s) + Len(c) : (s \o c)[k] = IF k <= Len(s) THEN s[k] ELSE c[k - Len(s)]
  BY <1>2, ConcatProperties, Zenon
<1> QED BY <1>1, <1>2, <1>3, <1>4, <1>5 DEF s

(* The constants of the map.                                               *)
LEMMA MapConstants ==
  /\ PoolSize \in Nat \ {0} /\ NumBuckets \in Nat \ {0} /\ TaskWindow \in Nat \ {0}
  /\ CleanupInterval \in Nat \ {0} /\ MaxPred \in Nat \ {0}
  /\ \A a \in DOMAIN Hash : Hash[a] \in 0 .. NumBuckets - 1
BY TensorMapAssumption

----------------------------------------------------------------------------
(* The walk along a chain, which Chain computes.                           *)
Walks(w, p, next) ==
  \A left \in 0 .. p :
    /\ w[left] \in [Links -> Seq(Entries)]
    /\ \A i \in Links :
         w[left][i] = IF i = NoEntry \/ left = 0 THEN <<>> ELSE <<i>> \o w[left - 1][next[i]]

(* Such a function exists up to every length ...                           *)
LEMMA WalkExists ==
  ASSUME NEW p \in Nat, NEW next \in [Entries -> Links]
  PROVE  \E w : w = [left \in 0 .. p |-> w[left]] /\ Walks(w, p, next)
<1> DEFINE W(m) == \E w : w = [left \in 0 .. m |-> w[left]] /\ Walks(w, m, next)
           S == { m \in 0 .. p : W(m) }
<1>1. 0 \in S
  <2> DEFINE w == [left \in 0 .. 0 |-> [i \in Links |-> <<>>]]
  <2>1. w = [left \in 0 .. 0 |-> w[left]] /\ Walks(w, 0, next)
    BY DEF Walks
  <2> HIDE DEF w
  <2>2. W(0)
    BY <2>1
  <2> HIDE DEF W
  <2> QED BY <2>2
<1>2. ASSUME NEW m \in 1 .. p, m - 1 \in S
      PROVE  m \in S
  <2>1. PICK w : w = [left \in 0 .. m - 1 |-> w[left]] /\ Walks(w, m - 1, next)
    BY <1>2
  <2> DEFINE row == [i \in Links |-> IF i = NoEntry THEN <<>> ELSE <<i>> \o w[m - 1][next[i]]]
             v == [left \in 0 .. m |-> IF left = m THEN row ELSE w[left]]
  <2>2. w[m - 1] \in [Links -> Seq(Entries)]
    BY <2>1 DEF Walks
  <2>3. ASSUME NEW i \in Links
        PROVE  row[i] \in Seq(Entries)
    <3>1. CASE i = NoEntry
      BY <3>1
    <3>2. CASE i # NoEntry
      <4>1. i \in Entries /\ next[i] \in Links
        BY <3>2 DEF Links
      <4>2. w[m - 1][next[i]] \in Seq(Entries)
        BY <2>2, <4>1
      <4>3. <<i>> \o w[m - 1][next[i]] \in Seq(Entries)
        BY <4>1, <4>2, FrontOf
      <4> QED BY <3>2, <4>3
    <3> QED BY <3>1, <3>2
  <2>4. row \in [Links -> Seq(Entries)]
    BY <2>3
  <2>5. ASSUME NEW left \in 0 .. m
        PROVE  /\ v[left] \in [Links -> Seq(Entries)]
               /\ \A i \in Links :
                    v[left][i] = IF i = NoEntry \/ left = 0 THEN <<>>
                                 ELSE <<i>> \o v[left - 1][next[i]]
    <3>1. CASE left = m
      <4>1. v[left] = row /\ v[left - 1] = w[m - 1] /\ left # 0
        BY <3>1
      <4> HIDE DEF v
      <4> QED BY <2>4, <4>1
    <3>2. CASE left # m
      <4>1. left \in 0 .. m - 1 /\ v[left] = w[left] /\ (left # 0 => v[left - 1] = w[left - 1])
        BY <3>2
      <4> HIDE DEF v
      <4> QED BY <2>1, <4>1 DEF Walks
    <3> QED BY <3>1, <3>2
  <2>6. v = [left \in 0 .. m |-> v[left]]
    OBVIOUS
  <2> HIDE DEF v
  <2>7. W(m)
    BY <2>5, <2>6 DEF Walks
  <2> HIDE DEF W
  <2> QED BY <2>7
<1>3. \A m \in 1 .. p : m - 1 \in S => m \in S
  BY <1>2
<1>4. 0 .. p \subseteq S
  <2> HIDE DEF S
  <2> QED BY <1>1, <1>3, UpTo
<1> QED BY <1>4

(* ... and Chain evaluates it.                                             *)
LEMMA ChainWalks ==
  ASSUME NEW next \in [Entries -> Links], NEW first \in Links
  PROVE  \E w : Walks(w, PoolSize, next) /\ Chain(first, next) = w[PoolSize][first]
<1> DEFINE E(w) == w = [left \in 0 .. PoolSize |->
                          [i \in Links |->
                             IF i = NoEntry \/ left = 0 THEN <<>>
                             ELSE <<i>> \o w[left - 1][next[i]]]]
           c == CHOOSE w : E(w)
<1>1. PoolSize \in Nat
  BY MapConstants
<1>2. PICK w : w = [left \in 0 .. PoolSize |-> w[left]] /\ Walks(w, PoolSize, next)
  BY <1>1, WalkExists
<1>3. E(w)
  <2>1. \A left \in 0 .. PoolSize :
          w[left] = [i \in Links |->
                       IF i = NoEntry \/ left = 0 THEN <<>> ELSE <<i>> \o w[left - 1][next[i]]]
    BY <1>2 DEF Walks
  <2> QED BY <1>2, <2>1
<1>4. E(c)
  <2> HIDE DEF E
  <2> QED BY <1>3
<1>5. Chain(first, next) = c[PoolSize][first]
  BY Zenon DEF Chain, Links
<1> HIDE DEF c
<1>6. PICK u : /\ u = [left \in 0 .. PoolSize |->
                        [i \in Links |->
                           IF i = NoEntry \/ left = 0 THEN <<>>
                           ELSE <<i>> \o u[left - 1][next[i]]]]
               /\ Chain(first, next) = u[PoolSize][first]
  BY <1>4, <1>5, Zenon
<1>7. ASSUME NEW left \in 0 .. PoolSize
      PROVE  /\ u[left] = [i \in Links |-> u[left][i]]
             /\ \A i \in Links :
                  u[left][i] = IF i = NoEntry \/ left = 0 THEN <<>>
                               ELSE <<i>> \o u[left - 1][next[i]]
  <2>1. u[left] = [i \in Links |->
                     IF i = NoEntry \/ left = 0 THEN <<>> ELSE <<i>> \o u[left - 1][next[i]]]
    BY <1>6, Zenon
  <2> QED BY <2>1
<1>8. \A left \in 0 .. PoolSize : u[left] \in [Links -> Seq(Entries)]
  <2> DEFINE S == { left \in 0 .. PoolSize : u[left] \in [Links -> Seq(Entries)] }
  <2>1. 0 \in S
    <3>1. 0 \in 0 .. PoolSize
      BY <1>1
    <3>2. u[0] = [i \in Links |-> u[0][i]] /\ \A i \in Links : u[0][i] = <<>>
      BY <1>7, <3>1, Zenon
    <3>3. \A i \in Links : u[0][i] \in Seq(Entries)
      <4>1. <<>> \in Seq(Entries)
        OBVIOUS
      <4> QED BY <3>2, <4>1, Zenon
    <3>4. u[0] \in [Links -> Seq(Entries)]
      BY <3>2, <3>3
    <3> QED BY <3>1, <3>4
  <2>2. ASSUME NEW k \in 1 .. PoolSize, k - 1 \in S
        PROVE  k \in S
    <3>1. k \in 0 .. PoolSize /\ k # 0
      BY <1>1
    <3>2. u[k - 1] \in [Links -> Seq(Entries)]
      BY <2>2
    <3>3. ASSUME NEW i \in Links
          PROVE  u[k][i] \in Seq(Entries)
      <4>1. CASE i = NoEntry
        <5>1. u[k][i] = <<>>
          BY <1>7, <3>1, <4>1, Zenon
        <5> QED BY <5>1
      <4>2. CASE i # NoEntry
        <5>1. i \in Entries /\ next[i] \in Links
          BY <4>2 DEF Links
        <5>2. <<i>> \o u[k - 1][next[i]] \in Seq(Entries)
          BY <3>2, <5>1, FrontOf
        <5>3. u[k][i] = <<i>> \o u[k - 1][next[i]]
          BY <1>7, <3>1, <4>2, Zenon
        <5> QED BY <5>2, <5>3
      <4> QED BY <4>1, <4>2
    <3>4. u[k] = [i \in Links |-> u[k][i]]
      BY <1>7, <3>1, Zenon
    <3>5. u[k] \in [Links -> Seq(Entries)]
      BY <3>3, <3>4
    <3> QED BY <3>1, <3>5
  <2>3. 0 .. PoolSize \subseteq S
    <3> HIDE DEF S
    <3> QED BY <1>1, <2>1, <2>2, UpTo
  <2> QED BY <2>3
<1>9. Walks(u, PoolSize, next)
  BY <1>7, <1>8 DEF Walks
<1> QED BY <1>6, <1>9

(* A chain is a list of entries.                                           *)
LEMMA ChainSeq ==
  ASSUME NEW next \in [Entries -> Links], NEW first \in Links
  PROVE  Chain(first, next) \in Seq(Entries)
<1>1. PICK w : Walks(w, PoolSize, next) /\ Chain(first, next) = w[PoolSize][first]
  BY ChainWalks
<1>2. PoolSize \in 0 .. PoolSize
  BY MapConstants
<1>3. w[PoolSize] \in [Links -> Seq(Entries)]
  BY <1>1, <1>2 DEF Walks
<1> QED BY <1>1, <1>3

----------------------------------------------------------------------------
(* The maps whose entries hold tensors of T, and what an operation returns. *)
EntryType(T) ==
  [ tensor : T, producer : Int, bucket : -1 .. NumBuckets - 1,
    next_in_bucket : Links, prev_in_bucket : Links,
    next_in_task : Links, prev_in_task : Links ]
MapType(T) ==
  [ pool : [Entries -> EntryType(T)], buckets : [0 .. NumBuckets - 1 -> Links],
    task_heads : [0 .. TaskWindow - 1 -> Links], free_list : Seq(Entries),
    next_entry_idx : 0 .. PoolSize, last_alive : Nat, last_cleanup : Nat ]

(* A tensor whose buffer has a bucket and whose entry is in T.             *)
Fits(t, T) == t.addr \in DOMAIN Hash /\ tm_copy_tensor_to_entry(t) \in T

LEMMA InitType ==
  ASSUME NEW T, "none" \in T
  PROVE  tm_init \in MapType(T)
<1>1. Unlinked \in EntryType(T)
  BY MapConstants DEF Unlinked, EntryType, Links
<1>2. [i \in Entries |-> Unlinked] \in [Entries -> EntryType(T)]
  BY <1>1
<1>3. [b \in 0 .. NumBuckets - 1 |-> NoEntry] \in [0 .. NumBuckets - 1 -> Links]
  BY DEF Links
<1>4. [s \in 0 .. TaskWindow - 1 |-> NoEntry] \in [0 .. TaskWindow - 1 -> Links]
  BY DEF Links
<1>5. <<>> \in Seq(Entries) /\ 0 \in 0 .. PoolSize
  BY MapConstants
<1> QED BY <1>2, <1>3, <1>4, <1>5 DEF tm_init, MapType

LEMMA PoolAt ==
  ASSUME NEW T, NEW m \in MapType(T), NEW i \in Entries
  PROVE  m.pool[i] \in EntryType(T)
BY DEF MapType

LEMMA SlotType == ASSUME NEW task \in Int PROVE Slot(task) \in 0 .. TaskWindow - 1
BY MapConstants DEF Slot

(* The chain of a bucket is a list of entries.                             *)
LEMMA BucketChainSeq ==
  ASSUME NEW T, NEW m \in MapType(T), NEW b \in 0 .. NumBuckets - 1
  PROVE  BucketChain(m, b) \in Seq(Entries)
<1>1. m.buckets[b] \in Links
  BY DEF MapType
<1>2. [i \in Entries |-> m.pool[i].next_in_bucket] \in [Entries -> Links]
  BY PoolAt DEF EntryType
<1> QED BY <1>1, <1>2, ChainSeq DEF BucketChain

LEMMA NewEntryType ==
  ASSUME NEW T, NEW m \in MapType(T), NewEntry(m) # NoEntry
  PROVE  NewEntry(m) \in Entries /\ TakeEntry(m) \in MapType(T)
<1>1. CASE m.free_list # <<>>
  <2>1. m.free_list \in Seq(Entries)
    BY DEF MapType
  <2>2. Last(m.free_list) \in Entries /\ Front(m.free_list) \in Seq(Entries)
    <3>1. Len(m.free_list) \in Nat \ {0}
      BY <1>1, <2>1
    <3> QED BY <2>1, <3>1, SubSeqProperties, LenProperties DEF Last, Front
  <2>3. TakeEntry(m) \in MapType(T)
    BY <1>1, <2>2 DEF TakeEntry, MapType
  <2> QED BY <1>1, <2>2, <2>3 DEF NewEntry
<1>2. CASE m.free_list = <<>>
  <2>1. m.next_entry_idx < PoolSize /\ NewEntry(m) = m.next_entry_idx
    BY <1>2 DEF NewEntry
  <2>2. m.next_entry_idx \in Entries /\ m.next_entry_idx + 1 \in 0 .. PoolSize
    BY <2>1, MapConstants DEF MapType, Entries
  <2> QED BY <1>2, <2>1, <2>2 DEF TakeEntry, MapType
<1> QED BY <1>1, <1>2

LEMMA LinkType ==
  ASSUME NEW T, NEW m \in MapType(T), NEW idx \in Entries, NEW t, Fits(t, T), NEW task \in Int
  PROVE  tm_link_entry(m, idx, t, task) \in MapType(T)
<1> DEFINE b == Hash[t.addr]
           s == Slot(task)
           new == [ tensor |-> tm_copy_tensor_to_entry(t), producer |-> task, bucket |-> b,
                    next_in_bucket |-> m.buckets[b], prev_in_bucket |-> NoEntry,
                    next_in_task |-> m.task_heads[s], prev_in_task |-> NoEntry ]
           pool == [i \in Entries |->
              IF i = idx THEN new
              ELSE [m.pool[i] EXCEPT
                       !.prev_in_bucket = IF i = m.buckets[b] THEN idx ELSE @,
                       !.prev_in_task = IF i = m.task_heads[s] THEN idx ELSE @]]
<1>1. b \in 0 .. NumBuckets - 1 /\ s \in 0 .. TaskWindow - 1
  BY MapConstants, SlotType DEF Fits
<1>2. m.buckets[b] \in Links /\ m.task_heads[s] \in Links /\ NoEntry \in Links /\ idx \in Links
  BY <1>1 DEF MapType, Links
<1>3. b \in -1 .. NumBuckets - 1
  BY <1>1, MapConstants
<1>4. tm_copy_tensor_to_entry(t) \in T
  BY DEF Fits
<1>5. tm_link_entry(m, idx, t, task) =
        [m EXCEPT !.buckets[b] = idx, !.task_heads[s] = idx, !.pool = pool]
  BY Zenon DEF tm_link_entry
<1> HIDE DEF b, s
<1>6. new \in EntryType(T)
  BY <1>2, <1>3, <1>4 DEF EntryType
<1>7. ASSUME NEW i \in Entries
      PROVE  pool[i] \in EntryType(T)
  <2>1. m.pool[i] \in EntryType(T)
    BY PoolAt
  <2>2. CASE i = idx
    <3> HIDE DEF new
    <3> QED BY <1>6, <2>2
  <2>3. CASE i # idx
    <3> HIDE DEF new
    <3> QED BY <1>2, <2>1, <2>3 DEF EntryType
  <2> QED BY <2>2, <2>3
<1>8. pool \in [Entries -> EntryType(T)]
  <2> HIDE DEF new
  <2>1. pool = [i \in Entries |-> pool[i]]
    OBVIOUS
  <2> HIDE DEF pool
  <2> QED BY <1>7, <2>1
<1> HIDE DEF pool
<1>9. /\ [m.buckets EXCEPT ![b] = idx] \in [0 .. NumBuckets - 1 -> Links]
      /\ [m.task_heads EXCEPT ![s] = idx] \in [0 .. TaskWindow - 1 -> Links]
  BY <1>1, <1>2 DEF MapType
<1> QED BY <1>5, <1>8, <1>9 DEF MapType

LEMMA InsertType ==
  ASSUME NEW T, NEW m \in MapType(T), NEW access, Fits(access[1], T), NEW task \in Int
  PROVE  InsertOne(m, access, task) \in MapType(T)
BY NewEntryType, LinkType DEF InsertOne, tm_insert_tensor

LEMMA RemoveFromTaskType ==
  ASSUME NEW T, NEW m \in MapType(T), NEW idx \in Entries
  PROVE  tm_remove_from_task(m, idx) \in MapType(T)
<1> DEFINE e == m.pool[idx]
           heads == IF e.prev_in_task = NoEntry
                      THEN [m.task_heads EXCEPT ![Slot(e.producer)] = e.next_in_task]
                      ELSE m.task_heads
           pool == [i \in Entries |->
              IF i = idx
                THEN [e EXCEPT !.next_in_task = NoEntry, !.prev_in_task = NoEntry]
                ELSE [m.pool[i] EXCEPT
                       !.next_in_task = IF i = e.prev_in_task THEN e.next_in_task ELSE @,
                       !.prev_in_task = IF i = e.next_in_task THEN e.prev_in_task ELSE @]]
<1>1. tm_remove_from_task(m, idx) = [m EXCEPT !.task_heads = heads, !.pool = pool]
  BY DEF tm_remove_from_task
<1>2. e \in EntryType(T)
  BY PoolAt
<1> HIDE DEF e
<1>3. heads \in [0 .. TaskWindow - 1 -> Links]
  BY <1>2 DEF MapType, EntryType
<1>4. ASSUME NEW i \in Entries
      PROVE  pool[i] \in EntryType(T)
  <2>1. m.pool[i] \in EntryType(T) /\ NoEntry \in Links
    BY PoolAt DEF Links
  <2> QED BY <1>2, <2>1 DEF EntryType
<1>5. pool \in [Entries -> EntryType(T)]
  <2>1. pool = [i \in Entries |-> pool[i]]
    OBVIOUS
  <2> HIDE DEF pool
  <2> QED BY <1>4, <2>1
<1> HIDE DEF pool, heads
<1> QED BY <1>1, <1>3, <1>5 DEF MapType

LEMMA FreeEntryType ==
  ASSUME NEW T, "none" \in T, NEW m \in MapType(T), NEW idx \in Entries
  PROVE  tm_free_entry(m, idx) \in MapType(T)
<1> DEFINE e == m.pool[idx]
           buckets == IF e.prev_in_bucket = NoEntry
                        THEN [m.buckets EXCEPT ![e.bucket] = e.next_in_bucket] ELSE m.buckets
           pool == [i \in Entries |-> IF i = idx THEN Unlinked ELSE Bypass(m, i, e)]
<1>1. tm_free_entry(m, idx) =
        [m EXCEPT !.buckets = buckets, !.free_list = PushFree(m, idx), !.pool = pool]
  BY DEF tm_free_entry
<1>2. e \in EntryType(T)
  BY PoolAt
<1> HIDE DEF e
<1>3. buckets \in [0 .. NumBuckets - 1 -> Links]
  BY <1>2 DEF MapType, EntryType
<1>4. ASSUME NEW i \in Entries
      PROVE  pool[i] \in EntryType(T)
  <2>1. m.pool[i] \in EntryType(T)
    BY PoolAt
  <2>2. Bypass(m, i, e) \in EntryType(T)
    BY <1>2, <2>1 DEF Bypass, EntryType
  <2>3. Unlinked \in EntryType(T)
    BY MapConstants DEF Unlinked, EntryType, Links
  <2> QED BY <2>2, <2>3
<1>5. pool \in [Entries -> EntryType(T)]
  <2>1. pool = [i \in Entries |-> pool[i]]
    OBVIOUS
  <2> HIDE DEF pool
  <2> QED BY <1>4, <2>1
<1>6. PushFree(m, idx) \in Seq(Entries)
  BY DEF PushFree, MapType
<1> HIDE DEF pool, buckets
<1> QED BY <1>1, <1>3, <1>5, <1>6 DEF MapType

LEMMA RemoveType ==
  ASSUME NEW T, "none" \in T, NEW m \in MapType(T), NEW idx \in Entries
  PROVE  tm_remove(m, idx) \in MapType(T)
BY RemoveFromTaskType, FreeEntryType DEF tm_remove

(* What a lookup works on.                                                 *)
FindType(T) == [map : MapType(T), found : Seq(Int), lost : BOOLEAN]

LEMMA VisitType ==
  ASSUME NEW T, "none" \in T, NEW s \in FindType(T), NEW access, NEW i \in Entries
  PROVE  Visit(s, access, i) \in FindType(T)
<1> DEFINE e == s.map.pool[i]
           map == IF Removes(access[2], access[1], e) THEN tm_remove(s.map, i) ELSE s.map
           lost == s.lost \/ (e.producer \notin ToSet(s.found) /\ Len(s.found) >= MaxPred)
<1>1. s.map \in MapType(T) /\ s.found \in Seq(Int) /\ s.lost \in BOOLEAN
  BY DEF FindType
<1>2. e \in EntryType(T)
  BY <1>1, PoolAt
<1>3. map \in MapType(T)
  BY <1>1, RemoveType
<1>4. Collected(s.found, e.producer) \in Seq(Int)
  <2>1. e.producer \in Int
    BY <1>2 DEF EntryType
  <2> HIDE DEF e
  <2> QED BY <1>1, <2>1 DEF Collected
<1>5. tm_collect_on_match(s, access, i) =
        [map |-> map, found |-> Collected(s.found, e.producer), lost |-> lost]
  BY DEF tm_collect_on_match
<1>6. lost \in BOOLEAN
  OBVIOUS
<1> HIDE DEF e, map, lost
<1>7. tm_collect_on_match(s, access, i) \in FindType(T)
  BY <1>3, <1>4, <1>5, <1>6 DEF FindType
<1> QED BY <1>7 DEF Visit

(* The walk of one lookup.                                                 *)
Visiting(f, b, q, n, access, U) ==
  /\ f[0] = b
  /\ \A k \in 1 .. n : f[k] = Visit(f[k - 1], access, q[k])
  /\ \A k \in 0 .. n : f[k] \in U
  /\ tm_lookup_tensor(b, access) = f[n]

LEMMA VisitFold ==
  ASSUME NEW n \in Nat, NEW q, DOMAIN q = 1 .. n, NEW U, NEW b \in U, NEW access, q = BucketChain(b.map, Hash[access[1].addr]),
         \A a \in U : \A k \in 1 .. n : Visit(a, access, q[k]) \in U
  PROVE  \E f : Visiting(f, b, q, n, access, U)
<1> DEFINE G == [k \in 1 .. n |-> [a \in U |-> Visit(a, access, q[k])]]
           E(h) == h = [s \in SUBSET DOMAIN q |->
                          IF s = {} THEN b ELSE Visit(h[s \ {Max(s)}], access, q[Max(s)])]
           g == CHOOSE h : E(h)
           f == [k \in 0 .. n |-> g[1 .. k]]
<1>1. E(g)
  <2>1. G \in [1 .. n -> [U -> U]]
    OBVIOUS
  <2>2. PICK h : Folds(h, b, G, n, U)
    <3> HIDE DEF G
    <3> QED BY <2>1, FoldExists
  <2>3. ASSUME NEW s \in SUBSET (1 .. n), s # {}
        PROVE  G[Max(s)][h[s \ {Max(s)}]] = Visit(h[s \ {Max(s)}], access, q[Max(s)])
    <3>1. Max(s) \in 1 .. n
      BY <2>3, MaxOf
    <3>2. h[s \ {Max(s)}] \in U
      BY <2>2 DEF Folds
    <3> QED BY <3>1, <3>2
  <2>4. E(h)
    <3> HIDE DEF G
    <3>1. \A s \in SUBSET DOMAIN q :
            h[s] = IF s = {} THEN b ELSE Visit(h[s \ {Max(s)}], access, q[Max(s)])
      BY <2>2, <2>3 DEF Folds
    <3>2. h = [s \in SUBSET DOMAIN q |-> h[s]]
      BY <2>2 DEF Folds
    <3> QED BY <3>1, <3>2
  <2> HIDE DEF E
  <2> QED BY <2>4
<1>2. tm_lookup_tensor(b, access) = g[DOMAIN q]
  BY Zenon DEF tm_lookup_tensor, FoldLeft, MapThenFoldSet
<1>3. \A s \in SUBSET (1 .. n) :
        g[s] = IF s = {} THEN b ELSE Visit(g[s \ {Max(s)}], access, q[Max(s)])
  BY <1>1
<1> HIDE DEF g, E, G
<1>4. f[0] = b
  <2>1. 1 .. 0 = {} /\ 0 \in 0 .. n
    OBVIOUS
  <2> QED BY <1>3, <2>1
<1>5. ASSUME NEW k \in 1 .. n
      PROVE  f[k] = Visit(f[k - 1], access, q[k])
  <2>1. 1 .. k \in SUBSET (1 .. n) /\ k \in 1 .. k /\ k \in Nat
    OBVIOUS
  <2>2. Max(1 .. k) = k
    <3>1. Max(1 .. k) \in 1 .. k /\ k <= Max(1 .. k)
      BY <2>1, MaxOf
    <3> QED BY <3>1
  <2>3. (1 .. k) \ {k} = 1 .. k - 1
    OBVIOUS
  <2>4. g[1 .. k] = Visit(g[1 .. k - 1], access, q[k])
    BY <1>3, <2>1, <2>2, <2>3
  <2> QED BY <2>4
<1>6. \A k \in 0 .. n : f[k] \in U
  <2> DEFINE S == { k \in 0 .. n : f[k] \in U }
  <2> HIDE DEF f
  <2>1. 0 \in S
    BY <1>4
  <2>2. \A k \in 1 .. n : k - 1 \in S => k \in S
    BY <1>5
  <2> HIDE DEF S
  <2>3. 0 .. n \subseteq S
    BY <2>1, <2>2, UpTo
  <2> QED BY <2>3 DEF S
<1>7. tm_lookup_tensor(b, access) = f[n]
  BY <1>2
<1> HIDE DEF f
<1>8. Visiting(f, b, q, n, access, U)
  BY <1>4, <1>5, <1>6, <1>7 DEF Visiting
<1> QED BY <1>8

(* The lookups of a task, one after the other.                             *)
LookingUp(f, b, q, n, m, U) ==
  /\ f[0] = b
  /\ \A k \in 1 .. n : f[k] = LookupOne(f[k - 1], q[k])
  /\ \A k \in 0 .. n : f[k] \in U
  /\ LookupAll(m, q) = f[n]

LEMMA LookupFold ==
  ASSUME NEW n \in Nat, NEW q, DOMAIN q = 1 .. n, NEW U, NEW b \in U, NEW m, b = [map |-> m, found |-> <<>>, lost |-> FALSE],
         \A a \in U : \A k \in 1 .. n : LookupOne(a, q[k]) \in U
  PROVE  \E f : LookingUp(f, b, q, n, m, U)
<1> DEFINE G == [k \in 1 .. n |-> [a \in U |-> LookupOne(a, q[k])]]
           E(h) == h = [s \in SUBSET DOMAIN q |->
                          IF s = {} THEN b ELSE LookupOne(h[s \ {Max(s)}], q[Max(s)])]
           g == CHOOSE h : E(h)
           f == [k \in 0 .. n |-> g[1 .. k]]
<1>1. E(g)
  <2>1. G \in [1 .. n -> [U -> U]]
    OBVIOUS
  <2>2. PICK h : Folds(h, b, G, n, U)
    <3> HIDE DEF G
    <3> QED BY <2>1, FoldExists
  <2>3. ASSUME NEW s \in SUBSET (1 .. n), s # {}
        PROVE  G[Max(s)][h[s \ {Max(s)}]] = LookupOne(h[s \ {Max(s)}], q[Max(s)])
    <3>1. Max(s) \in 1 .. n
      BY <2>3, MaxOf
    <3>2. h[s \ {Max(s)}] \in U
      BY <2>2 DEF Folds
    <3> QED BY <3>1, <3>2
  <2>4. E(h)
    <3> HIDE DEF G
    <3>1. \A s \in SUBSET DOMAIN q :
            h[s] = IF s = {} THEN b ELSE LookupOne(h[s \ {Max(s)}], q[Max(s)])
      BY <2>2, <2>3 DEF Folds
    <3>2. h = [s \in SUBSET DOMAIN q |-> h[s]]
      BY <2>2 DEF Folds
    <3> QED BY <3>1, <3>2
  <2> HIDE DEF E
  <2> QED BY <2>4
<1>2. LookupAll(m, q) = g[DOMAIN q]
  BY Zenon DEF LookupAll, FoldLeft, MapThenFoldSet
<1>3. \A s \in SUBSET (1 .. n) :
        g[s] = IF s = {} THEN b ELSE LookupOne(g[s \ {Max(s)}], q[Max(s)])
  BY <1>1
<1> HIDE DEF g, E, G
<1>4. f[0] = b
  <2>1. 1 .. 0 = {} /\ 0 \in 0 .. n
    OBVIOUS
  <2> QED BY <1>3, <2>1
<1>5. ASSUME NEW k \in 1 .. n
      PROVE  f[k] = LookupOne(f[k - 1], q[k])
  <2>1. 1 .. k \in SUBSET (1 .. n) /\ k \in 1 .. k /\ k \in Nat
    OBVIOUS
  <2>2. Max(1 .. k) = k
    <3>1. Max(1 .. k) \in 1 .. k /\ k <= Max(1 .. k)
      BY <2>1, MaxOf
    <3> QED BY <3>1
  <2>3. (1 .. k) \ {k} = 1 .. k - 1
    OBVIOUS
  <2>4. g[1 .. k] = LookupOne(g[1 .. k - 1], q[k])
    BY <1>3, <2>1, <2>2, <2>3
  <2> QED BY <2>4
<1>6. \A k \in 0 .. n : f[k] \in U
  <2> DEFINE S == { k \in 0 .. n : f[k] \in U }
  <2> HIDE DEF f
  <2>1. 0 \in S
    BY <1>4
  <2>2. \A k \in 1 .. n : k - 1 \in S => k \in S
    BY <1>5
  <2> HIDE DEF S
  <2>3. 0 .. n \subseteq S
    BY <2>1, <2>2, UpTo
  <2> QED BY <2>3 DEF S
<1>7. LookupAll(m, q) = f[n]
  BY <1>2
<1> HIDE DEF f
<1>8. LookingUp(f, b, q, n, m, U)
  BY <1>4, <1>5, <1>6, <1>7 DEF LookingUp
<1> QED BY <1>8

----------------------------------------------------------------------------
(* What a lookup returns, and what it does to the map.                     *)
Found(access) == access[1].addr \in DOMAIN Hash

LEMMA BucketOf ==
  ASSUME NEW T, NEW s \in FindType(T), NEW access, Found(access)
  PROVE  BucketChain(s.map, Hash[access[1].addr]) \in Seq(Entries)
<1>1. s.map \in MapType(T)
  BY DEF FindType
<1>2. Hash[access[1].addr] \in 0 .. NumBuckets - 1
  BY MapConstants DEF Found
<1> QED BY <1>1, <1>2, BucketChainSeq

(* The walk of a lookup along the chain of its bucket.                     *)
LEMMA LookupWalk ==
  ASSUME NEW T, "none" \in T, NEW s \in FindType(T), NEW access, Found(access),
         NEW q, q = BucketChain(s.map, Hash[access[1].addr])
  PROVE  /\ Len(q) \in Nat /\ \A k \in 1 .. Len(q) : q[k] \in Entries
         /\ \E f : Visiting(f, s, q, Len(q), access, FindType(T))
<1>1. q \in Seq(Entries)
  BY BucketOf
<1>2. Len(q) \in Nat /\ DOMAIN q = 1 .. Len(q) /\ \A k \in 1 .. Len(q) : q[k] \in Entries
  BY <1>1, LenProperties
<1>3. \A a \in FindType(T) : \A k \in 1 .. Len(q) : Visit(a, access, q[k]) \in FindType(T)
  BY <1>2, VisitType
<1>4. \E f : Visiting(f, s, q, Len(q), access, FindType(T))
  BY <1>2, <1>3, VisitFold, Zenon
<1> QED BY <1>2, <1>4

LEMMA LookupTensorType ==
  ASSUME NEW T, "none" \in T, NEW s \in FindType(T), NEW access, Found(access)
  PROVE  tm_lookup_tensor(s, access) \in FindType(T)
<1> DEFINE q == BucketChain(s.map, Hash[access[1].addr])
<1>1. q = BucketChain(s.map, Hash[access[1].addr])
  OBVIOUS
<1> HIDE DEF q
<1>2. Len(q) \in Nat /\ \E f : Visiting(f, s, q, Len(q), access, FindType(T))
  BY <1>1, LookupWalk
<1> QED BY <1>2 DEF Visiting

(* Visiting an entry does the same to the map whatever was found before.   *)
LEMMA VisitMap ==
  ASSUME NEW s, NEW r, s.map = r.map, NEW access, NEW i
  PROVE  Visit(s, access, i).map = Visit(r, access, i).map
<1>1. tm_collect_on_match(s, access, i).map = tm_collect_on_match(r, access, i).map
  BY DEF tm_collect_on_match
<1> QED BY <1>1 DEF Visit

LEMMA LookupTensorMap ==
  ASSUME NEW T, "none" \in T, NEW s \in FindType(T), NEW r \in FindType(T), s.map = r.map,
         NEW access, Found(access)
  PROVE  tm_lookup_tensor(s, access).map = tm_lookup_tensor(r, access).map
<1> DEFINE q == BucketChain(s.map, Hash[access[1].addr])
<1>1. q = BucketChain(s.map, Hash[access[1].addr]) /\ q = BucketChain(r.map, Hash[access[1].addr])
  OBVIOUS
<1> HIDE DEF q
<1> DEFINE n == Len(q)
<1>2. PICK f : Visiting(f, s, q, n, access, FindType(T))
  BY <1>1, LookupWalk
<1>3. PICK g : Visiting(g, r, q, n, access, FindType(T))
  BY <1>1, LookupWalk
<1>4. n \in Nat
  BY <1>1, LookupWalk
<1> HIDE DEF n
<1> DEFINE S == { k \in 0 .. n : f[k].map = g[k].map }
<1>5. 0 \in S
  BY <1>2, <1>3, <1>4 DEF Visiting
<1>6. \A k \in 1 .. n : k - 1 \in S => k \in S
  <2> TAKE k \in 1 .. n
  <2> HAVE k - 1 \in S
  <2>1. Visit(f[k - 1], access, q[k]).map = Visit(g[k - 1], access, q[k]).map
    BY VisitMap
  <2>2. f[k].map = g[k].map
    BY <1>2, <1>3, <2>1 DEF Visiting
  <2> QED BY <1>4, <2>2
<1>7. n \in S
  <2> HIDE DEF S
  <2>1. 0 .. n \subseteq S
    BY <1>4, <1>5, <1>6, UpTo
  <2> QED BY <1>4, <2>1
<1> QED BY <1>2, <1>3, <1>7 DEF Visiting

(* A tensor that is only read stays in the map.                            *)
LEMMA LookupTensorIn ==
  ASSUME NEW T, "none" \in T, NEW s \in FindType(T), NEW access, Found(access),
         access[2] = "in"
  PROVE  tm_lookup_tensor(s, access).map = s.map
<1> DEFINE q == BucketChain(s.map, Hash[access[1].addr])
<1>1. q = BucketChain(s.map, Hash[access[1].addr])
  OBVIOUS
<1> HIDE DEF q
<1> DEFINE n == Len(q)
<1>2. PICK f : Visiting(f, s, q, n, access, FindType(T))
  BY <1>1, LookupWalk
<1>3. n \in Nat
  BY <1>1, LookupWalk
<1> HIDE DEF n
<1>4. ASSUME NEW x, NEW i
      PROVE  Visit(x, access, i).map = x.map
  <2>1. tm_collect_on_match(x, access, i).map = x.map
    BY DEF tm_collect_on_match, Removes
  <2> QED BY <2>1 DEF Visit
<1> DEFINE S == { k \in 0 .. n : f[k].map = s.map }
<1>5. 0 \in S
  BY <1>2, <1>3 DEF Visiting
<1>6. \A k \in 1 .. n : k - 1 \in S => k \in S
  BY <1>2, <1>3, <1>4 DEF Visiting
<1>7. n \in S
  <2> HIDE DEF S
  <2>1. 0 .. n \subseteq S
    BY <1>3, <1>5, <1>6, UpTo
  <2> QED BY <1>3, <2>1
<1> QED BY <1>2, <1>7 DEF Visiting

(* The same of an access of a task.                                        *)
LEMMA LookupOneType ==
  ASSUME NEW T, "none" \in T, NEW s \in FindType(T), NEW access, Found(access)
  PROVE  LookupOne(s, access) \in FindType(T)
BY LookupTensorType DEF LookupOne

LEMMA LookupOneMap ==
  ASSUME NEW T, "none" \in T, NEW s \in FindType(T), NEW r \in FindType(T), s.map = r.map,
         NEW access, Found(access)
  PROVE  LookupOne(s, access).map = LookupOne(r, access).map
BY LookupTensorMap DEF LookupOne

LEMMA LookupOneIn ==
  ASSUME NEW T, "none" \in T, NEW s \in FindType(T), NEW access, Found(access),
         access[2] = "in"
  PROVE  LookupOne(s, access).map = s.map
BY LookupTensorIn DEF LookupOne

----------------------------------------------------------------------------
(* The two loops over the tensors of a task.                               *)
Accesses(q) == DOMAIN q = 1 .. Len(q) /\ Len(q) \in Nat /\ \A k \in 1 .. Len(q) : Found(q[k])

LEMMA LookupLoop ==
  ASSUME NEW T, "none" \in T, NEW m \in MapType(T), NEW q, Accesses(q)
  PROVE  \E f : LookingUp(f, [map |-> m, found |-> <<>>, lost |-> FALSE], q, Len(q), m, FindType(T))
<1> DEFINE b == [map |-> m, found |-> <<>>, lost |-> FALSE]
<1>1. b \in FindType(T)
  <2>1. <<>> \in Seq(Int)
    OBVIOUS
  <2> QED BY <2>1 DEF FindType
<1>2. \A a \in FindType(T) : \A k \in 1 .. Len(q) : LookupOne(a, q[k]) \in FindType(T)
  BY LookupOneType DEF Accesses
<1>3. Len(q) \in Nat /\ DOMAIN q = 1 .. Len(q)
  BY DEF Accesses
<1>4. b = [map |-> m, found |-> <<>>, lost |-> FALSE]
  OBVIOUS
<1> HIDE DEF b
<1>5. \E f : LookingUp(f, b, q, Len(q), m, FindType(T))
  BY <1>1, <1>2, <1>3, <1>4, LookupFold, Zenon
<1> QED BY <1>4, <1>5

LEMMA LookupAllType ==
  ASSUME NEW T, "none" \in T, NEW m \in MapType(T), NEW q, Accesses(q)
  PROVE  LookupAll(m, q) \in FindType(T)
<1>1. PICK f : LookingUp(f, [map |-> m, found |-> <<>>, lost |-> FALSE], q, Len(q), m, FindType(T))
  BY LookupLoop
<1> QED BY <1>1 DEF LookingUp, Accesses

(* One list followed by another.                                           *)
Catenates(r, p, q) ==
  /\ Len(r) = Len(p) + Len(q)
  /\ \A k \in 1 .. Len(p) : r[k] = p[k]
  /\ \A k \in 1 .. Len(q) : r[Len(p) + k] = q[k]

(* Lookups of tensors that are only read, in front of others, change nothing *)
(* of what those do to the map.                                            *)
LEMMA LookupInFirst ==
  ASSUME NEW T, "none" \in T, NEW m \in MapType(T), NEW p, NEW q, NEW r,
         Accesses(p), Accesses(q), Accesses(r), Catenates(r, p, q),
         \A k \in 1 .. Len(p) : p[k][2] = "in"
  PROVE  LookupAll(m, r).map = LookupAll(m, q).map
<1> DEFINE b == [map |-> m, found |-> <<>>, lost |-> FALSE]
<1>1. PICK f : LookingUp(f, b, r, Len(r), m, FindType(T))
  BY LookupLoop
<1>2. PICK g : LookingUp(g, b, q, Len(q), m, FindType(T))
  BY LookupLoop
<1>3. Len(p) \in Nat /\ Len(q) \in Nat /\ Len(r) \in Nat /\ Len(r) = Len(p) + Len(q)
  BY DEF Accesses, Catenates
<1>4. f[0].map = m /\ g[0].map = m
  BY <1>1, <1>2 DEF LookingUp
<1> HIDE DEF b
<1> DEFINE S == { k \in 0 .. Len(p) : f[k].map = m }
<1>5. 0 \in S
  BY <1>3, <1>4
<1>6. \A k \in 1 .. Len(p) : k - 1 \in S => k \in S
  <2> TAKE k \in 1 .. Len(p)
  <2> HAVE k - 1 \in S
  <2>1. k \in 1 .. Len(r) /\ k - 1 \in 0 .. Len(r)
    BY <1>3
  <2>2. f[k - 1] \in FindType(T) /\ f[k] = LookupOne(f[k - 1], r[k])
    BY <1>1, <2>1 DEF LookingUp
  <2>3. Found(r[k]) /\ r[k][2] = "in"
    BY <2>1 DEF Accesses, Catenates
  <2>4. f[k].map = f[k - 1].map
    BY <2>2, <2>3, LookupOneIn
  <2> QED BY <1>3, <2>4
<1>7. f[Len(p)].map = m
  <2>1. 0 .. Len(p) \subseteq S
    <3> HIDE DEF S
    <3> QED BY <1>3, <1>5, <1>6, UpTo
  <2> QED BY <1>3, <2>1
<1> DEFINE R == { k \in 0 .. Len(q) : f[Len(p) + k].map = g[k].map }
<1>8. 0 \in R
  BY <1>3, <1>4, <1>7
<1>9. \A k \in 1 .. Len(q) : k - 1 \in R => k \in R
  <2> TAKE k \in 1 .. Len(q)
  <2> HAVE k - 1 \in R
  <2> DEFINE j == Len(p) + k
  <2>1. j \in 1 .. Len(r) /\ j - 1 \in 0 .. Len(r) /\ k - 1 \in 0 .. Len(q) /\ j - 1 = Len(p) + (k - 1)
    BY <1>3
  <2>2. f[j - 1].map = g[k - 1].map
    BY <2>1
  <2>3. r[j] = q[k]
    BY DEF Catenates
  <2> HIDE DEF j
  <2>4. f[j - 1] \in FindType(T) /\ f[j] = LookupOne(f[j - 1], r[j])
    BY <1>1, <2>1 DEF LookingUp
  <2>5. g[k - 1] \in FindType(T) /\ g[k] = LookupOne(g[k - 1], q[k])
    BY <1>2, <2>1 DEF LookingUp
  <2>6. Found(q[k])
    BY DEF Accesses
  <2>7. LookupOne(f[j - 1], q[k]).map = LookupOne(g[k - 1], q[k]).map
    <3> DEFINE x == f[j - 1]
               y == g[k - 1]
    <3>1. x \in FindType(T) /\ y \in FindType(T) /\ x.map = y.map
      BY <2>2, <2>4, <2>5
    <3> HIDE DEF x, y
    <3>2. LookupOne(x, q[k]).map = LookupOne(y, q[k]).map
      BY <2>6, <3>1, LookupOneMap
    <3> QED BY <3>2 DEF x, y
  <2>8. f[j].map = g[k].map
    BY <2>3, <2>4, <2>5, <2>7
  <2> QED BY <1>3, <2>8 DEF j
<1>10. Len(q) \in R
  <2> HIDE DEF R
  <2>1. 0 .. Len(q) \subseteq R
    BY <1>3, <1>8, <1>9, UpTo
  <2> QED BY <1>3, <2>1
<1> QED BY <1>1, <1>2, <1>3, <1>10 DEF LookingUp

LEMMA InsertAllType ==
  ASSUME NEW T, NEW m \in MapType(T), NEW q, Len(q) \in Nat, DOMAIN q = 1 .. Len(q),
         \A k \in 1 .. Len(q) : Fits(q[k][1], T), NEW task \in Int
  PROVE  InsertAll(m, q, task) \in MapType(T)
<1>1. \A a \in MapType(T) : \A k \in 1 .. Len(q) : InsertOne(a, q[k], task) \in MapType(T)
  BY InsertType
<1>2. PICK f : Inserting(f, m, q, Len(q), task, MapType(T))
  BY <1>1, InsertFold, Zenon
<1> QED BY <1>2 DEF Inserting
----------------------------------------------------------------------------
(* A family of doubly linked lists, one for each key of K: the entries of M *)
(* and no other are linked, each in the list of its key.  The rank of an    *)
(* entry falls along the links, so that no list comes back to itself.       *)
Threaded(K, heads, next, prev, key, M, r) ==
  /\ \A b \in K : heads[b] \in Links
  /\ \A b \in K : heads[b] # NoEntry =>
       heads[b] \in M /\ key[heads[b]] = b /\ prev[heads[b]] = NoEntry
  /\ \A i \in M : key[i] \in K /\ next[i] \in Links /\ prev[i] \in Links
  /\ \A i \in M : prev[i] = NoEntry => heads[key[i]] = i
  /\ \A i \in M : prev[i] # NoEntry =>
       prev[i] \in M /\ next[prev[i]] = i /\ key[prev[i]] = key[i]
  /\ \A i \in M : next[i] # NoEntry =>
       /\ next[i] \in M /\ prev[next[i]] = i /\ key[next[i]] = key[i]
       /\ r[next[i]] < r[i]

Threads(K, heads, next, prev, key, M) ==
  /\ M \in SUBSET Entries
  /\ \E R \in Nat : \E r \in [Entries -> 0 .. R] : Threaded(K, heads, next, prev, key, M, r)

(* No entry has the index that means none.                                  *)
LEMMA NoEntryOut == NoEntry \notin Entries /\ NoEntry \in Links /\ Entries \subseteq Links
BY MapConstants DEF NoEntry, Entries, Links

(* A new entry pushed at the front of a list.                               *)
LEMMA PushFront ==
  ASSUME NEW K, NEW heads, NEW next, NEW prev, NEW key, NEW M,
         Threads(K, heads, next, prev, key, M),
         NEW idx \in Entries, idx \notin M, NEW b \in K,
         NEW heads2, NEW next2, NEW prev2, NEW key2,
         heads2[b] = idx, \A x \in K : x # b => heads2[x] = heads[x],
         key2[idx] = b, next2[idx] = heads[b], prev2[idx] = NoEntry,
         \A i \in M : /\ key2[i] = key[i] /\ next2[i] = next[i]
                      /\ prev2[i] = IF i = heads[b] THEN idx ELSE prev[i]
  PROVE  Threads(K, heads2, next2, prev2, key2, M \cup {idx})
<1>0. PICK R \in Nat : \E r \in [Entries -> 0 .. R] : Threaded(K, heads, next, prev, key, M, r)
  BY DEF Threads
<1>1. PICK r \in [Entries -> 0 .. R] : Threaded(K, heads, next, prev, key, M, r)
  BY <1>0
<1>2. M \in SUBSET Entries
  BY DEF Threads
<1> DEFINE r2 == [i \in Entries |-> IF i = idx THEN R + 1 ELSE r[i]]
<1>3. r2 \in [Entries -> 0 .. R + 1] /\ R + 1 \in Nat
  OBVIOUS
<1>4. /\ r2[idx] = R + 1
      /\ \A i \in M : r2[i] = r[i] /\ r2[i] < R + 1
  BY <1>2
<1> HIDE DEF r2
<1>5. Threaded(K, heads2, next2, prev2, key2, M \cup {idx}, r2)
  <2>1. \A x \in K : heads2[x] \in Links
    BY <1>1, NoEntryOut DEF Threaded
  <2>2. ASSUME NEW x \in K, heads2[x] # NoEntry
        PROVE  heads2[x] \in M \cup {idx} /\ key2[heads2[x]] = x /\ prev2[heads2[x]] = NoEntry
    <3>1. CASE x = b
      BY <3>1
    <3>2. CASE x # b
      <4>1. heads2[x] = heads[x] /\ heads[x] # NoEntry
        BY <2>2, <3>2
      <4>2. heads[x] \in M /\ key[heads[x]] = x /\ prev[heads[x]] = NoEntry
        BY <1>1, <4>1 DEF Threaded
      <4>3. heads[x] # heads[b]
        BY <1>1, <3>2, <4>1, <4>2 DEF Threaded
      <4> QED BY <4>1, <4>2, <4>3
    <3> QED BY <3>1, <3>2
  <2>3. \A i \in M \cup {idx} : key2[i] \in K /\ next2[i] \in Links /\ prev2[i] \in Links
    <3>1. heads[b] \in Links /\ idx \in Links
      BY <1>1, NoEntryOut DEF Threaded
    <3>2. \A i \in M : key[i] \in K /\ next[i] \in Links /\ prev[i] \in Links
      BY <1>1 DEF Threaded
    <3> QED BY <3>1, <3>2, NoEntryOut
  <2>4. ASSUME NEW i \in M \cup {idx}, prev2[i] = NoEntry
        PROVE  heads2[key2[i]] = i
    <3>1. CASE i = idx
      BY <3>1
    <3>2. CASE i # idx
      <4>1. i \in M /\ i # heads[b] /\ prev[i] = NoEntry
        BY <2>4, <3>2, NoEntryOut
      <4>2. heads[key[i]] = i /\ key[i] \in K
        BY <1>1, <4>1 DEF Threaded
      <4> QED BY <4>1, <4>2
    <3> QED BY <3>1, <3>2
  <2>5. ASSUME NEW i \in M \cup {idx}, prev2[i] # NoEntry
        PROVE  prev2[i] \in M \cup {idx} /\ next2[prev2[i]] = i /\ key2[prev2[i]] = key2[i]
    <3>1. i \in M
      BY <2>5
    <3>2. CASE i = heads[b]
      <4>1. prev2[i] = idx /\ key2[i] = key[i]
        BY <3>1, <3>2
      <4>2. key[i] = b
        BY <1>1, <1>2, <3>1, <3>2, NoEntryOut DEF Threaded
      <4> QED BY <3>2, <4>1, <4>2
    <3>3. CASE i # heads[b]
      <4>1. prev2[i] = prev[i]
        BY <3>1, <3>3
      <4>2. prev[i] \in M /\ next[prev[i]] = i /\ key[prev[i]] = key[i]
        BY <1>1, <2>5, <3>1, <4>1 DEF Threaded
      <4> QED BY <3>1, <4>1, <4>2
    <3> QED BY <3>2, <3>3
  <2>6. ASSUME NEW i \in M \cup {idx}, next2[i] # NoEntry
        PROVE  /\ next2[i] \in M \cup {idx} /\ prev2[next2[i]] = i /\ key2[next2[i]] = key2[i]
               /\ r2[next2[i]] < r2[i]
    <3>1. CASE i = idx
      <4>1. next2[i] = heads[b] /\ heads[b] # NoEntry
        BY <2>6, <3>1
      <4>2. heads[b] \in M /\ key[heads[b]] = b
        BY <1>1, <4>1 DEF Threaded
      <4> QED BY <1>4, <3>1, <4>1, <4>2
    <3>2. CASE i # idx
      <4>1. i \in M /\ next2[i] = next[i]
        BY <3>2
      <4>2. next[i] \in M /\ prev[next[i]] = i /\ key[next[i]] = key[i] /\ r[next[i]] < r[i]
        BY <1>1, <2>6, <4>1 DEF Threaded
      <4>3. next[i] # heads[b]
        <5>1. i # NoEntry
          BY <1>2, <4>1, NoEntryOut
        <5>2. next[i] # NoEntry
          BY <2>6, <4>1
        <5> QED BY <1>1, <4>2, <5>1, <5>2 DEF Threaded
      <4> QED BY <1>4, <4>1, <4>2, <4>3
    <3> QED BY <3>1, <3>2
  <2> QED BY <2>1, <2>2, <2>3, <2>4, <2>5, <2>6 DEF Threaded
<1>6. M \cup {idx} \in SUBSET Entries
  BY <1>2
<1> QED BY <1>3, <1>5, <1>6 DEF Threads

(* An entry taken out of its list.                                          *)
LEMMA TakeOut ==
  ASSUME NEW K, NEW heads, NEW next, NEW prev, NEW key, NEW M,
         Threads(K, heads, next, prev, key, M), NEW idx \in M,
         NEW heads2, NEW next2, NEW prev2, NEW key2,
         \A x \in K : heads2[x] = IF prev[idx] = NoEntry /\ x = key[idx]
                                    THEN next[idx] ELSE heads[x],
         \A i \in M : i # idx =>
           /\ key2[i] = key[i]
           /\ next2[i] = IF i = prev[idx] THEN next[idx] ELSE next[i]
           /\ prev2[i] = IF i = next[idx] THEN prev[idx] ELSE prev[i]
  PROVE  Threads(K, heads2, next2, prev2, key2, M \ {idx})
<1>0. PICK R \in Nat : \E r \in [Entries -> 0 .. R] : Threaded(K, heads, next, prev, key, M, r)
  BY DEF Threads
<1>1. PICK r \in [Entries -> 0 .. R] : Threaded(K, heads, next, prev, key, M, r)
  BY <1>0
<1>2. M \in SUBSET Entries
  BY DEF Threads
<1> DEFINE M2 == M \ {idx}
<1>3. /\ key[idx] \in K /\ next[idx] \in Links /\ prev[idx] \in Links
      /\ prev[idx] = NoEntry => heads[key[idx]] = idx
      /\ prev[idx] # NoEntry =>
           prev[idx] \in M /\ next[prev[idx]] = idx /\ key[prev[idx]] = key[idx]
      /\ next[idx] # NoEntry =>
           /\ next[idx] \in M /\ prev[next[idx]] = idx /\ key[next[idx]] = key[idx]
           /\ r[next[idx]] < r[idx]
  BY <1>1 DEF Threaded
<1>4. \A i \in M : r[i] \in Int
  BY <1>2
<1>5. next[idx] # idx /\ prev[idx] # idx
  <2>1. next[idx] # idx
    BY <1>2, <1>3, <1>4, NoEntryOut
  <2> QED BY <1>2, <1>3, <2>1, NoEntryOut
<1>6. idx # NoEntry /\ NoEntry \notin M
  BY <1>2, NoEntryOut
<1>7. Threaded(K, heads2, next2, prev2, key2, M2, r)
  <2>1. \A x \in K : heads2[x] \in Links
    BY <1>1, <1>3 DEF Threaded
  <2>2. ASSUME NEW x \in K, heads2[x] # NoEntry
        PROVE  heads2[x] \in M2 /\ key2[heads2[x]] = x /\ prev2[heads2[x]] = NoEntry
    <3>1. CASE prev[idx] = NoEntry /\ x = key[idx]
      <4>1. heads2[x] = next[idx] /\ next[idx] # NoEntry
        BY <2>2, <3>1
      <4> QED BY <1>3, <1>5, <3>1, <4>1
    <3>2. CASE ~ (prev[idx] = NoEntry /\ x = key[idx])
      <4>1. heads2[x] = heads[x] /\ heads[x] # NoEntry
        BY <2>2, <3>2
      <4>2. heads[x] \in M /\ key[heads[x]] = x /\ prev[heads[x]] = NoEntry
        BY <1>1, <4>1 DEF Threaded
      <4>3. heads[x] # idx
        BY <3>2, <4>2
      <4>4. heads[x] # next[idx]
        BY <1>3, <1>6, <4>1, <4>2
      <4> QED BY <4>1, <4>2, <4>3, <4>4
    <3> QED BY <3>1, <3>2
  <2>3. \A i \in M2 : key2[i] \in K /\ next2[i] \in Links /\ prev2[i] \in Links
    <3>1. \A i \in M : key[i] \in K /\ next[i] \in Links /\ prev[i] \in Links
      BY <1>1 DEF Threaded
    <3> QED BY <1>3, <3>1
  <2>4. ASSUME NEW i \in M2, prev2[i] = NoEntry
        PROVE  heads2[key2[i]] = i
    <3>1. CASE i = next[idx]
      <4>1. prev[idx] = NoEntry /\ key2[i] = key[idx]
        BY <1>3, <1>6, <2>4, <3>1
      <4> QED BY <1>3, <3>1, <4>1
    <3>2. CASE i # next[idx]
      <4>1. prev[i] = NoEntry /\ key2[i] = key[i]
        BY <2>4, <3>2
      <4>2. heads[key[i]] = i /\ key[i] \in K
        BY <1>1, <4>1 DEF Threaded
      <4>3. ~ (prev[idx] = NoEntry /\ key[i] = key[idx])
        BY <1>3, <4>2
      <4> QED BY <4>1, <4>2, <4>3
    <3> QED BY <3>1, <3>2
  <2>5. ASSUME NEW i \in M2, prev2[i] # NoEntry
        PROVE  prev2[i] \in M2 /\ next2[prev2[i]] = i /\ key2[prev2[i]] = key2[i]
    <3>1. CASE i = next[idx]
      <4>1. prev2[i] = prev[idx] /\ prev[idx] # NoEntry /\ key2[i] = key[idx]
        BY <1>3, <1>6, <2>5, <3>1
      <4>2. prev[idx] \in M2
        BY <1>3, <1>5, <4>1
      <4> QED BY <1>3, <3>1, <4>1, <4>2
    <3>2. CASE i # next[idx]
      <4>1. prev2[i] = prev[i] /\ prev[i] # NoEntry /\ key2[i] = key[i]
        BY <2>5, <3>2
      <4>2. prev[i] \in M /\ next[prev[i]] = i /\ key[prev[i]] = key[i]
        BY <1>1, <4>1 DEF Threaded
      <4>3. prev[i] # idx
        BY <3>2, <4>2
      <4>4. prev[i] # prev[idx]
        BY <1>3, <4>1, <4>2
      <4> QED BY <4>1, <4>2, <4>3, <4>4
    <3> QED BY <3>1, <3>2
  <2>6. ASSUME NEW i \in M2, next2[i] # NoEntry
        PROVE  /\ next2[i] \in M2 /\ prev2[next2[i]] = i /\ key2[next2[i]] = key2[i]
               /\ r[next2[i]] < r[i]
    <3>1. CASE i = prev[idx]
      <4>1. next2[i] = next[idx] /\ next[idx] # NoEntry /\ key2[i] = key[i] /\ key[i] = key[idx]
        BY <1>3, <1>6, <2>6, <3>1
      <4>2. next[idx] \in M2
        BY <1>3, <1>5, <4>1
      <4>3. r[idx] < r[i]
        BY <1>1, <1>3, <1>6, <3>1 DEF Threaded
      <4>4. r[next[idx]] < r[i]
        BY <1>3, <1>4, <4>1, <4>3
      <4> QED BY <1>3, <3>1, <4>1, <4>2, <4>4
    <3>2. CASE i # prev[idx]
      <4>1. next2[i] = next[i] /\ next[i] # NoEntry /\ key2[i] = key[i]
        BY <2>6, <3>2
      <4>2. next[i] \in M /\ prev[next[i]] = i /\ key[next[i]] = key[i] /\ r[next[i]] < r[i]
        BY <1>1, <4>1 DEF Threaded
      <4>3. next[i] # idx
        BY <3>2, <4>2
      <4>4. next[i] # next[idx]
        BY <1>3, <4>1, <4>2
      <4> QED BY <4>1, <4>2, <4>3, <4>4
    <3> QED BY <3>1, <3>2
  <2> QED BY <2>1, <2>2, <2>3, <2>4, <2>5, <2>6 DEF Threaded
<1>8. M2 \in SUBSET Entries
  BY <1>2
<1> QED BY <1>7, <1>8 DEF Threads

(* The walk from an entry of the list of key b stays in the list, follows   *)
(* its links and ends where they end or where the walk may go no further.   *)
Follows(c, left, i, next, key, M, b) ==
  /\ c \in Seq(Entries) /\ Len(c) \in 0 .. left
  /\ \A k \in 1 .. Len(c) : c[k] \in M /\ key[c[k]] = b
  /\ i # NoEntry /\ left > 0 => Len(c) > 0 /\ c[1] = i
  /\ i = NoEntry => Len(c) = 0
  /\ \A k \in 1 .. Len(c) : k > 1 => next[c[k - 1]] = c[k]
  /\ 0 < Len(c) /\ Len(c) < left => next[c[Len(c)]] = NoEntry

LEMMA WalkFollows ==
  ASSUME NEW M \in SUBSET Entries, NEW next \in [Entries -> Links], NEW key, NEW b,
         \A i \in M : next[i] # NoEntry => next[i] \in M /\ key[next[i]] = key[i],
         NEW w, Walks(w, PoolSize, next), NEW i \in M \cup {NoEntry}, i # NoEntry => key[i] = b
  PROVE  Follows(w[PoolSize][i], PoolSize, i, next, key, M, b)
<1> DEFINE From == { x \in M : key[x] = b } \cup {NoEntry}
           S == { left \in 0 .. PoolSize :
                    \A x \in From : Follows(w[left][x], left, x, next, key, M, b) }
<1>1. PoolSize \in Nat /\ PoolSize > 0 /\ NoEntry \notin M
  BY MapConstants, NoEntryOut
<1>2. ASSUME NEW left \in 0 .. PoolSize, NEW x \in From
      PROVE  /\ w[left][x] = IF x = NoEntry \/ left = 0 THEN <<>>
                             ELSE <<x>> \o w[left - 1][next[x]]
             /\ w[left][x] \in Seq(Entries)
  <2>1. x \in Links
    BY NoEntryOut
  <2> QED BY <2>1 DEF Walks
<1>3. ASSUME NEW left \in 0 .. PoolSize, NEW x \in From, x = NoEntry \/ left = 0
      PROVE  Follows(w[left][x], left, x, next, key, M, b)
  <2>1. w[left][x] = <<>>
    BY <1>2, <1>3
  <2>2. Len(<<>>) = 0 /\ 0 \in 0 .. left /\ <<>> \in Seq(Entries) /\ 1 .. 0 = {}
    OBVIOUS
  <2>3. ~ (x # NoEntry /\ left > 0)
    BY <1>3
  <2> QED BY <2>1, <2>2, <2>3 DEF Follows
<1>4. 0 \in S
  BY <1>1, <1>3
<1>5. ASSUME NEW left \in 1 .. PoolSize, left - 1 \in S
      PROVE  left \in S
  <2>1. left \in 0 .. PoolSize /\ left # 0 /\ left - 1 \in 0 .. PoolSize
    BY <1>1
  <2>2. ASSUME NEW x \in From, x # NoEntry
        PROVE  Follows(w[left][x], left, x, next, key, M, b)
    <3> DEFINE d == w[left - 1][next[x]]
               c == w[left][x]
    <3>1. x \in M /\ x \in Entries /\ key[x] = b
      BY <2>2
    <3>2. next[x] \in From
      BY <3>1
    <3>3. Follows(d, left - 1, next[x], next, key, M, b)
      BY <1>5, <3>2
    <3>4. c = <<x>> \o d
      BY <1>2, <2>1, <2>2
    <3>5. d \in Seq(Entries) /\ Len(d) \in 0 .. left - 1
      BY <3>3 DEF Follows
    <3> HIDE DEF d, c
    <3>6. /\ c \in Seq(Entries) /\ Len(c) = Len(d) + 1 /\ c[1] = x
          /\ \A k \in 2 .. Len(d) + 1 : c[k] = d[k - 1]
      BY <3>1, <3>4, <3>5, FrontOf
    <3>7. Len(c) \in 0 .. left /\ Len(c) > 0
      BY <3>5, <3>6
    <3>8. ASSUME NEW k \in 1 .. Len(c)
          PROVE  c[k] \in M /\ key[c[k]] = b
      <4>1. CASE k = 1
        BY <3>1, <3>6, <4>1
      <4>2. CASE k # 1
        <5>1. k \in 2 .. Len(d) + 1 /\ k - 1 \in 1 .. Len(d)
          BY <3>5, <3>6, <4>2
        <5> QED BY <3>3, <3>6, <5>1 DEF Follows
      <4> QED BY <4>1, <4>2
    <3>9. ASSUME NEW k \in 1 .. Len(c), k > 1
          PROVE  next[c[k - 1]] = c[k]
      <4>1. k \in 2 .. Len(d) + 1 /\ k - 1 \in 1 .. Len(d)
        BY <3>5, <3>6, <3>9
      <4>2. c[k] = d[k - 1]
        BY <3>6, <4>1
      <4>3. CASE k = 2
        <5>1. next[x] # NoEntry /\ left - 1 > 0
          BY <3>3, <3>5, <4>1 DEF Follows
        <5>2. d[1] = next[x]
          BY <3>3, <5>1 DEF Follows
        <5> QED BY <3>6, <4>2, <4>3, <5>2
      <4>4. CASE k # 2
        <5>1. k - 1 \in 2 .. Len(d) + 1 /\ k - 2 \in 1 .. Len(d) /\ k - 1 > 1
          BY <3>5, <4>1, <4>4
        <5>2. c[k - 1] = d[k - 2]
          BY <3>6, <5>1
        <5>3. next[d[k - 1 - 1]] = d[k - 1]
          BY <3>3, <4>1, <5>1 DEF Follows
        <5>4. k - 1 - 1 = k - 2
          BY <4>1
        <5> QED BY <4>2, <5>2, <5>3, <5>4
      <4> QED BY <4>3, <4>4
    <3>10. ASSUME Len(c) < left
           PROVE  next[c[Len(c)]] = NoEntry
      <4>1. CASE Len(d) = 0
        <5>1. left - 1 > 0 /\ Len(c) = 1
          BY <3>5, <3>6, <3>10, <4>1
        <5>2. next[x] = NoEntry
          BY <3>3, <4>1, <5>1 DEF Follows
        <5> QED BY <3>6, <5>1, <5>2
      <4>2. CASE Len(d) # 0
        <5>1. 0 < Len(d) /\ Len(d) < left - 1 /\ Len(c) \in 2 .. Len(d) + 1 /\ Len(c) - 1 = Len(d)
          BY <3>5, <3>6, <3>10, <4>2
        <5> QED BY <3>3, <3>6, <5>1 DEF Follows
      <4> QED BY <4>1, <4>2
    <3>11. Follows(c, left, x, next, key, M, b)
      BY <2>2, <3>6, <3>7, <3>8, <3>9, <3>10 DEF Follows
    <3> QED BY <3>11 DEF c
  <2>3. \A x \in From : Follows(w[left][x], left, x, next, key, M, b)
    BY <1>3, <2>1, <2>2
  <2> QED BY <2>1, <2>3
<1>6. PoolSize \in S
  <2> HIDE DEF S
  <2>1. 0 .. PoolSize \subseteq S
    BY <1>1, <1>4, <1>5, UpTo
  <2> QED BY <1>1, <2>1
<1> QED BY <1>6

(* Ranks fall along a list, so that no entry is in it twice.                *)
Falling(next, M, r) == \A i \in M : next[i] # NoEntry => r[next[i]] < r[i]
Connected(c, next, M) ==
  \A k \in 1 .. Len(c) : c[k] \in M /\ (k > 1 => next[c[k - 1]] = c[k])

LEMMA RanksFall ==
  ASSUME NEW M \in SUBSET Entries, NEW next, NEW R \in Nat, NEW r \in [Entries -> 0 .. R],
         Falling(next, M, r), NEW c \in Seq(Entries), Connected(c, next, M)
  PROVE  \A k \in 1 .. Len(c) : \A j \in 1 .. Len(c) : j < k => r[c[k]] < r[c[j]]
<1> DEFINE S == { k \in 0 .. Len(c) : k > 0 => \A j \in 1 .. k - 1 : r[c[k]] < r[c[j]] }
<1>1. Len(c) \in Nat /\ \A k \in 1 .. Len(c) : r[c[k]] \in Int /\ c[k] # NoEntry
  BY NoEntryOut
<1> USE DEF Falling, Connected
<1>2. 0 \in S
  BY <1>1
<1>3. ASSUME NEW k \in 1 .. Len(c), k - 1 \in S
      PROVE  k \in S
  <2>1. ASSUME NEW j \in 1 .. k - 1
        PROVE  r[c[k]] < r[c[j]]
    <3>1. k > 1 /\ k - 1 \in 1 .. Len(c) /\ k \in Int
      BY <1>1
    <3>2. next[c[k - 1]] = c[k] /\ c[k] # NoEntry
      BY <1>1, <3>1
    <3>3. r[c[k]] < r[c[k - 1]]
      BY <3>1, <3>2
    <3>4. CASE j = k - 1
      BY <3>3, <3>4
    <3>5. CASE j # k - 1
      <4>1. j \in 1 .. k - 1 - 1 /\ k - 1 > 0 /\ j \in 1 .. Len(c)
        BY <1>1, <3>1, <3>5
      <4>2. r[c[k - 1]] < r[c[j]]
        BY <1>3, <4>1
      <4> QED BY <1>1, <3>1, <3>3, <4>1, <4>2
    <3> QED BY <3>4, <3>5
  <2>2. k \in 0 .. Len(c)
    BY <1>1
  <2> QED BY <2>1, <2>2
<1>4. 0 .. Len(c) \subseteq S
  <2> HIDE DEF S
  <2> QED BY <1>1, <1>2, <1>3, UpTo
<1>5. ASSUME NEW k \in 1 .. Len(c), NEW j \in 1 .. Len(c), j < k
      PROVE  r[c[k]] < r[c[j]]
  <2>1. k \in 0 .. Len(c) /\ k > 0 /\ j \in 1 .. k - 1
    BY <1>1, <1>5
  <2> QED BY <1>4, <2>1
<1> QED BY <1>5

(* A list as long as the pool has every entry.                              *)
LEMMA FullList ==
  ASSUME NEW c \in Seq(Entries), Len(c) = PoolSize,
         \A j, k \in 1 .. Len(c) : c[j] = c[k] => j = k,
         NEW e \in Entries
  PROVE  \E k \in 1 .. Len(c) : c[k] = e
<1>1. PoolSize \in Nat
  BY MapConstants
<1>2. c \in Injection(1 .. PoolSize, Entries)
  BY DEF Injection, IsInjective
<1>3. /\ IsFiniteSet(1 .. PoolSize) /\ Cardinality(1 .. PoolSize) = PoolSize
      /\ IsFiniteSet(Entries) /\ Cardinality(Entries) = PoolSize
  <2>1. Cardinality(1 .. PoolSize) = IF 1 > PoolSize THEN 0 ELSE PoolSize - 1 + 1
    BY <1>1, FS_Interval
  <2>2. Cardinality(0 .. PoolSize - 1) = IF 0 > PoolSize - 1 THEN 0 ELSE PoolSize - 1 - 0 + 1
    BY <1>1, FS_Interval
  <2>3. IsFiniteSet(1 .. PoolSize) /\ IsFiniteSet(0 .. PoolSize - 1)
    BY <1>1, FS_Interval
  <2> QED BY <1>1, <2>1, <2>2, <2>3 DEF Entries
<1>4. c \in Surjection(1 .. PoolSize, Entries)
  BY <1>2, <1>3, FS_Injection
<1> QED BY <1>4 DEF Surjection

(* The list of key b, as Chain reads it from its head: every entry of that  *)
(* key and no other, each once, and each pointing back to the one before.   *)
ListsKey(c, prev, key, M, b) ==
  /\ c \in Seq(Entries)
  /\ \A j, k \in 1 .. Len(c) : c[j] = c[k] => j = k
  /\ \A k \in 1 .. Len(c) : c[k] \in M /\ key[c[k]] = b
  /\ \A i \in M : key[i] = b => \E k \in 1 .. Len(c) : c[k] = i
  /\ \A k \in 1 .. Len(c) : prev[c[k]] = IF k = 1 THEN NoEntry ELSE c[k - 1]

LEMMA ChainOfKey ==
  ASSUME NEW K, NEW heads, NEW next \in [Entries -> Links], NEW prev, NEW key, NEW M,
         Threads(K, heads, next, prev, key, M), NEW b \in K,
         NEW c, c = Chain(heads[b], next)
  PROVE  ListsKey(c, prev, key, M, b)
<1>0. PICK R \in Nat : \E r \in [Entries -> 0 .. R] : Threaded(K, heads, next, prev, key, M, r)
  BY DEF Threads
<1>1. PICK r \in [Entries -> 0 .. R] : Threaded(K, heads, next, prev, key, M, r)
  BY <1>0
<1>2. M \in SUBSET Entries /\ PoolSize \in Nat /\ PoolSize > 0 /\ NoEntry \notin M
  BY MapConstants, NoEntryOut DEF Threads
<1> DEFINE h == heads[b]
<1>3. h \in Links /\ h \in M \cup {NoEntry} /\ (h # NoEntry => key[h] = b /\ prev[h] = NoEntry)
  BY <1>1 DEF Threaded
<1>4. PICK w : Walks(w, PoolSize, next) /\ Chain(h, next) = w[PoolSize][h]
  BY <1>3, ChainWalks
<1>5. Follows(c, PoolSize, h, next, key, M, b)
  <2>1. \A i \in M : next[i] # NoEntry => next[i] \in M /\ key[next[i]] = key[i]
    BY <1>1 DEF Threaded
  <2> HIDE DEF h
  <2>2. Follows(w[PoolSize][h], PoolSize, h, next, key, M, b)
    BY <1>2, <1>3, <1>4, <2>1, WalkFollows
  <2> QED BY <1>4, <2>2 DEF h
<1> HIDE DEF h
<1>6. /\ c \in Seq(Entries) /\ Len(c) \in 0 .. PoolSize /\ Len(c) \in Nat
      /\ \A k \in 1 .. Len(c) : c[k] \in M /\ key[c[k]] = b
      /\ \A k \in 1 .. Len(c) : k > 1 => next[c[k - 1]] = c[k]
  BY <1>5 DEF Follows
<1>7. \A k \in 1 .. Len(c) : \A j \in 1 .. Len(c) : j < k => r[c[k]] < r[c[j]]
  <2>1. Falling(next, M, r)
    BY <1>1 DEF Threaded, Falling
  <2>2. c \in Seq(Entries) /\ M \in SUBSET Entries
    BY <1>2, <1>6
  <2>3. Connected(c, next, M)
    BY <1>6 DEF Connected
  <2> QED BY <2>1, <2>2, <2>3, RanksFall
<1>8. \A k \in 1 .. Len(c) : r[c[k]] \in Int
  BY <1>2, <1>6
<1>9. ASSUME NEW j \in 1 .. Len(c), NEW k \in 1 .. Len(c), c[j] = c[k]
      PROVE  j = k
  <2>1. CASE j < k
    BY <1>7, <1>8, <1>9, <2>1
  <2>2. CASE k < j
    BY <1>7, <1>8, <1>9, <2>2
  <2> QED BY <1>6, <2>1, <2>2
<1>10. ASSUME 0 < Len(c)
       PROVE  next[c[Len(c)]] = NoEntry
  <2>1. CASE Len(c) < PoolSize
    BY <1>5, <1>10, <2>1 DEF Follows
  <2>2. CASE Len(c) = PoolSize
    <3> DEFINE e == next[c[Len(c)]]
    <3>1. SUFFICES ASSUME e # NoEntry PROVE FALSE
      OBVIOUS
    <3>2. Len(c) \in 1 .. Len(c)
      BY <1>6, <1>10
    <3>3. e \in M /\ r[e] < r[c[Len(c)]]
      BY <1>1, <1>6, <3>1, <3>2 DEF Threaded
    <3> HIDE DEF e
    <3>4. PICK k \in 1 .. Len(c) : c[k] = e
      BY <1>2, <1>6, <1>9, <2>2, <3>3, FullList
    <3>5. k = Len(c) \/ k < Len(c)
      BY <1>6
    <3>6. r[c[Len(c)]] <= r[c[k]]
      BY <1>7, <1>8, <3>2, <3>5
    <3>7. r[e] \in Int /\ r[c[Len(c)]] \in Int
      BY <1>8, <3>2, <3>4
    <3>8. r[e] < r[c[Len(c)]] /\ r[c[Len(c)]] <= r[e]
      BY <3>3, <3>4, <3>6
    <3> QED BY <3>7, <3>8
  <2> QED BY <1>2, <1>6, <2>1, <2>2
<1>11. ASSUME NEW i \in M, key[i] = b,
              prev[i] # NoEntry => \E k \in 1 .. Len(c) : c[k] = prev[i]
       PROVE  \E k \in 1 .. Len(c) : c[k] = i
  <2>1. CASE prev[i] = NoEntry
    <3>1. h = i /\ h # NoEntry
      BY <1>1, <1>2, <1>11, <2>1 DEF Threaded, h
    <3>2. Len(c) > 0 /\ c[1] = i
      BY <1>2, <1>5, <3>1 DEF Follows
    <3>3. 1 \in 1 .. Len(c)
      BY <1>6, <3>2
    <3> QED BY <3>2, <3>3
  <2>2. CASE prev[i] # NoEntry
    <3>1. PICK k \in 1 .. Len(c) : c[k] = prev[i]
      BY <1>11, <2>2
    <3>2. next[c[k]] = i /\ i # NoEntry
      BY <1>1, <1>2, <2>2, <3>1 DEF Threaded
    <3>3. k # Len(c)
      BY <1>6, <1>10, <3>2
    <3>4. k + 1 \in 1 .. Len(c) /\ k + 1 > 1 /\ k + 1 - 1 = k
      BY <1>6, <3>3
    <3>5. c[k + 1] = i
      BY <1>6, <3>2, <3>4
    <3> QED BY <3>4, <3>5
  <2> QED BY <2>1, <2>2
<1>12. ASSUME NEW i \in M, key[i] = b
       PROVE  \E k \in 1 .. Len(c) : c[k] = i
  <2> DEFINE S == { n \in 0 .. R : \A x \in M : key[x] = b /\ r[x] >= R - n =>
                                      \E k \in 1 .. Len(c) : c[k] = x }
  <2>1. ASSUME NEW x \in M, key[x] = b, prev[x] # NoEntry
        PROVE  prev[x] \in M /\ key[prev[x]] = b /\ r[x] < r[prev[x]]
    BY <1>1, <1>2, <2>1 DEF Threaded
  <2>2. \A x \in M : r[x] \in 0 .. R
    BY <1>2
  <2>3. 0 \in S
    <3>1. ASSUME NEW x \in M, key[x] = b, r[x] >= R - 0
          PROVE  prev[x] = NoEntry
      BY <2>1, <2>2, <3>1
    <3> QED BY <1>11, <3>1
  <2>4. ASSUME NEW n \in 1 .. R, n - 1 \in S
        PROVE  n \in S
    <3>1. ASSUME NEW x \in M, key[x] = b, r[x] >= R - n
          PROVE  \E k \in 1 .. Len(c) : c[k] = x
      <4>1. ASSUME prev[x] # NoEntry
            PROVE  \E k \in 1 .. Len(c) : c[k] = prev[x]
        <5>1. prev[x] \in M /\ key[prev[x]] = b /\ r[x] < r[prev[x]]
          BY <2>1, <3>1, <4>1
        <5>2. r[prev[x]] >= R - (n - 1)
          BY <2>2, <3>1, <5>1
        <5> QED BY <2>4, <5>1, <5>2
      <4> QED BY <1>11, <3>1, <4>1
    <3>2. n \in 0 .. R
      OBVIOUS
    <3> QED BY <3>1, <3>2
  <2>5. R \in S
    <3> HIDE DEF S
    <3>1. 0 .. R \subseteq S
      BY <2>3, <2>4, UpTo
    <3> QED BY <3>1
  <2>6. r[i] >= R - R
    BY <2>2
  <2> QED BY <1>12, <2>5, <2>6
<1>13. ASSUME NEW k \in 1 .. Len(c)
       PROVE  prev[c[k]] = IF k = 1 THEN NoEntry ELSE c[k - 1]
  <2>1. CASE k = 1
    <3>1. Len(c) > 0
      BY <1>6
    <3>2. h # NoEntry
      BY <1>5, <3>1 DEF Follows
    <3>3. c[1] = h
      BY <1>2, <1>5, <3>2 DEF Follows
    <3> QED BY <1>3, <2>1, <3>2, <3>3
  <2>2. CASE k # 1
    <3>1. k > 1 /\ k - 1 \in 1 .. Len(c)
      BY <1>6, <2>2
    <3>2. next[c[k - 1]] = c[k] /\ c[k] # NoEntry /\ c[k - 1] \in M
      BY <1>2, <1>6, <3>1
    <3> QED BY <1>1, <2>2, <3>2 DEF Threaded
  <2> QED BY <2>1, <2>2
<1> QED BY <1>6, <1>9, <1>12, <1>13 DEF ListsKey

----------------------------------------------------------------------------
(* The two families of chains of a map, over the entries that are linked.   *)
Linked(m) == { i \in Entries : m.pool[i].bucket # -1 }
Buckets == 0 .. NumBuckets - 1
Slots == 0 .. TaskWindow - 1

BucketsWhole(m) ==
  Threads(Buckets, m.buckets, [i \in Entries |-> m.pool[i].next_in_bucket],
          [i \in Entries |-> m.pool[i].prev_in_bucket], [i \in Entries |-> m.pool[i].bucket],
          Linked(m))
SlotsWhole(m, K, M) ==
  Threads(K, m.task_heads, [i \in Entries |-> m.pool[i].next_in_task],
          [i \in Entries |-> m.pool[i].prev_in_task], [i \in Entries |-> Slot(m.pool[i].producer)],
          M)

(* Every entry handed out and not linked is on the free stack, once.        *)
FreeStack(list, next_entry_idx, L) ==
  /\ \A j, k \in 1 .. Len(list) : list[j] = list[k] => j = k
  /\ { list[k] : k \in 1 .. Len(list) } = (0 .. next_entry_idx - 1) \ L
  /\ L \subseteq 0 .. next_entry_idx - 1
FreeWhole(m) == FreeStack(m.free_list, m.next_entry_idx, Linked(m))

Whole(m) == BucketsWhole(m) /\ SlotsWhole(m, Slots, Linked(m)) /\ FreeWhole(m)

(* The chains of a whole map are as its links say.                          *)
LEMMA WholeBucket ==
  ASSUME NEW T, NEW m \in MapType(T), BucketsWhole(m), NEW b \in Buckets,
         NEW c, c = BucketChain(m, b)
  PROVE  /\ c \in Seq(Entries)
         /\ \A j, k \in 1 .. Len(c) : c[j] = c[k] => j = k
         /\ { c[k] : k \in 1 .. Len(c) } = { i \in Linked(m) : m.pool[i].bucket = b }
         /\ \A k \in 1 .. Len(c) : m.pool[c[k]].prev_in_bucket = IF k = 1 THEN NoEntry ELSE c[k - 1]
<1> DEFINE next == [i \in Entries |-> m.pool[i].next_in_bucket]
           prev == [i \in Entries |-> m.pool[i].prev_in_bucket]
           key == [i \in Entries |-> m.pool[i].bucket]
<1>1. next \in [Entries -> Links]
  BY PoolAt DEF EntryType
<1>2. Threads(Buckets, m.buckets, next, prev, key, Linked(m))
  BY DEF BucketsWhole
<1>3. c = Chain(m.buckets[b], next)
  BY DEF BucketChain
<1>4. \A i \in Entries : prev[i] = m.pool[i].prev_in_bucket /\ key[i] = m.pool[i].bucket
  OBVIOUS
<1>5. Linked(m) \subseteq Entries
  BY DEF Linked
<1> HIDE DEF next, prev, key
<1>6. ListsKey(c, prev, key, Linked(m), b)
  BY <1>1, <1>2, <1>3, ChainOfKey
<1> QED BY <1>4, <1>5, <1>6 DEF ListsKey

LEMMA WholeSlot ==
  ASSUME NEW T, NEW m \in MapType(T), SlotsWhole(m, Slots, Linked(m)), NEW s \in Slots,
         NEW c, c = TaskChain(m, s)
  PROVE  /\ c \in Seq(Entries)
         /\ \A j, k \in 1 .. Len(c) : c[j] = c[k] => j = k
         /\ { c[k] : k \in 1 .. Len(c) } = { i \in Linked(m) : Slot(m.pool[i].producer) = s }
         /\ \A k \in 1 .. Len(c) : m.pool[c[k]].prev_in_task = IF k = 1 THEN NoEntry ELSE c[k - 1]
<1> DEFINE next == [i \in Entries |-> m.pool[i].next_in_task]
           prev == [i \in Entries |-> m.pool[i].prev_in_task]
           key == [i \in Entries |-> Slot(m.pool[i].producer)]
<1>1. next \in [Entries -> Links]
  BY PoolAt DEF EntryType
<1>2. Threads(Slots, m.task_heads, next, prev, key, Linked(m))
  BY DEF SlotsWhole
<1>3. c = Chain(m.task_heads[s], next)
  BY DEF TaskChain
<1>4. \A i \in Entries : prev[i] = m.pool[i].prev_in_task /\ key[i] = Slot(m.pool[i].producer)
  OBVIOUS
<1>5. Linked(m) \subseteq Entries
  BY DEF Linked
<1> HIDE DEF next, prev, key
<1>6. ListsKey(c, prev, key, Linked(m), s)
  BY <1>1, <1>2, <1>3, ChainOfKey
<1> QED BY <1>4, <1>5, <1>6 DEF ListsKey

(* So that the map is sound.                                                *)
LEMMA WholeSound ==
  ASSUME NEW T, NEW m \in MapType(T), Whole(m)
  PROVE  LinksSound(m)
<1>1. /\ m.free_list \in Seq(Entries) /\ DOMAIN m.buckets = Buckets /\ DOMAIN m.task_heads = Slots
      /\ DOMAIN m.free_list = 1 .. Len(m.free_list)
  BY DEF MapType, Buckets, Slots
<1> DEFINE PB == [i \in Entries |-> m.pool[i].prev_in_bucket]
           PT == [i \in Entries |-> m.pool[i].prev_in_task]
           Doubly(chain, prev) ==
             \A k \in DOMAIN chain : prev[chain[k]] = IF k = 1 THEN NoEntry ELSE chain[k - 1]
<1>2. ASSUME NEW b \in Buckets
      PROVE  /\ Doubly(BucketChain(m, b), PB)
             /\ { BucketChain(m, b)[k] : k \in DOMAIN BucketChain(m, b) } =
                  { i \in Linked(m) : m.pool[i].bucket = b }
  <2>1. PICK c : c = BucketChain(m, b)
    OBVIOUS
  <2>2. /\ c \in Seq(Entries)
        /\ { c[k] : k \in 1 .. Len(c) } = { i \in Linked(m) : m.pool[i].bucket = b }
        /\ \A k \in 1 .. Len(c) : m.pool[c[k]].prev_in_bucket = IF k = 1 THEN NoEntry ELSE c[k - 1]
    BY <2>1, WholeBucket DEF Whole
  <2>3. DOMAIN c = 1 .. Len(c) /\ \A k \in 1 .. Len(c) : PB[c[k]] = m.pool[c[k]].prev_in_bucket
    BY <2>2
  <2>4. Doubly(c, PB)
    BY <2>2, <2>3
  <2>5. { c[k] : k \in DOMAIN c } = { i \in Linked(m) : m.pool[i].bucket = b }
    BY <2>2, <2>3, Zenon
  <2> HIDE DEF Doubly, PB
  <2> QED BY <2>1, <2>4, <2>5, Zenon
<1>3. ASSUME NEW s \in Slots
      PROVE  /\ Doubly(TaskChain(m, s), PT)
             /\ { TaskChain(m, s)[k] : k \in DOMAIN TaskChain(m, s) } =
                  { i \in Linked(m) : Slot(m.pool[i].producer) = s }
  <2>1. PICK c : c = TaskChain(m, s)
    OBVIOUS
  <2>2. /\ c \in Seq(Entries)
        /\ { c[k] : k \in 1 .. Len(c) } = { i \in Linked(m) : Slot(m.pool[i].producer) = s }
        /\ \A k \in 1 .. Len(c) : m.pool[c[k]].prev_in_task = IF k = 1 THEN NoEntry ELSE c[k - 1]
    BY <2>1, WholeSlot DEF Whole
  <2>3. DOMAIN c = 1 .. Len(c) /\ \A k \in 1 .. Len(c) : PT[c[k]] = m.pool[c[k]].prev_in_task
    BY <2>2
  <2>4. Doubly(c, PT)
    BY <2>2, <2>3
  <2>5. { c[k] : k \in DOMAIN c } = { i \in Linked(m) : Slot(m.pool[i].producer) = s }
    BY <2>2, <2>3, Zenon
  <2> HIDE DEF Doubly, PT
  <2> QED BY <2>1, <2>4, <2>5, Zenon
<1>4. /\ { m.free_list[k] : k \in DOMAIN m.free_list } = (0 .. m.next_entry_idx - 1) \ Linked(m)
      /\ IsInjective(m.free_list)
      /\ Linked(m) \subseteq 0 .. m.next_entry_idx - 1
  BY <1>1 DEF Whole, FreeWhole, FreeStack, IsInjective
<1> QED BY <1>1, <1>2, <1>3, <1>4, Zenon DEF LinksSound, Linked

(* What linking an entry and taking one out write.                          *)
Pushed(m, n, idx, b, s, task) ==
  /\ n.buckets = [m.buckets EXCEPT ![b] = idx]
  /\ n.task_heads = [m.task_heads EXCEPT ![s] = idx]
  /\ n.free_list = m.free_list /\ n.next_entry_idx = m.next_entry_idx
  /\ n.last_alive = m.last_alive /\ n.last_cleanup = m.last_cleanup
  /\ n.pool[idx].bucket = b /\ n.pool[idx].producer = task
  /\ n.pool[idx].next_in_bucket = m.buckets[b] /\ n.pool[idx].prev_in_bucket = NoEntry
  /\ n.pool[idx].next_in_task = m.task_heads[s] /\ n.pool[idx].prev_in_task = NoEntry
  /\ \A i \in Entries : i # idx =>
       /\ n.pool[i].bucket = m.pool[i].bucket /\ n.pool[i].producer = m.pool[i].producer
       /\ n.pool[i].next_in_bucket = m.pool[i].next_in_bucket
       /\ n.pool[i].next_in_task = m.pool[i].next_in_task
       /\ n.pool[i].prev_in_bucket = IF i = m.buckets[b] THEN idx ELSE m.pool[i].prev_in_bucket
       /\ n.pool[i].prev_in_task = IF i = m.task_heads[s] THEN idx ELSE m.pool[i].prev_in_task

LEMMA LinkFields ==
  ASSUME NEW T, NEW m \in MapType(T), NEW idx \in Entries, NEW t, Fits(t, T), NEW task \in Int,
         NEW n, n = tm_link_entry(m, idx, t, task),
         NEW b, b = Hash[t.addr], NEW s, s = Slot(task)
  PROVE  Pushed(m, n, idx, b, s, task)
<1> DEFINE new == [ tensor |-> tm_copy_tensor_to_entry(t), producer |-> task, bucket |-> b,
                    next_in_bucket |-> m.buckets[b], prev_in_bucket |-> NoEntry,
                    next_in_task |-> m.task_heads[s], prev_in_task |-> NoEntry ]
           pool == [i \in Entries |->
              IF i = idx THEN new
              ELSE [m.pool[i] EXCEPT
                       !.prev_in_bucket = IF i = m.buckets[b] THEN idx ELSE @,
                       !.prev_in_task = IF i = m.task_heads[s] THEN idx ELSE @]]
<1>1. n = [m EXCEPT !.buckets[b] = idx, !.task_heads[s] = idx, !.pool = pool]
  BY Zenon DEF tm_link_entry
<1>2. pool[idx] = new
  OBVIOUS
<1>3. ASSUME NEW i \in Entries, i # idx
      PROVE  /\ pool[i].bucket = m.pool[i].bucket /\ pool[i].producer = m.pool[i].producer
             /\ pool[i].next_in_bucket = m.pool[i].next_in_bucket
             /\ pool[i].next_in_task = m.pool[i].next_in_task
             /\ pool[i].prev_in_bucket =
                  IF i = m.buckets[b] THEN idx ELSE m.pool[i].prev_in_bucket
             /\ pool[i].prev_in_task =
                  IF i = m.task_heads[s] THEN idx ELSE m.pool[i].prev_in_task
  <2>1. m.pool[i] \in EntryType(T)
    BY PoolAt
  <2>2. pool[i] = [m.pool[i] EXCEPT
                       !.prev_in_bucket = IF i = m.buckets[b] THEN idx ELSE @,
                       !.prev_in_task = IF i = m.task_heads[s] THEN idx ELSE @]
    BY <1>3
  <2> HIDE DEF pool
  <2> QED BY <2>1, <2>2 DEF EntryType
<1>4. new.bucket = b /\ new.producer = task /\ new.next_in_bucket = m.buckets[b]
      /\ new.prev_in_bucket = NoEntry /\ new.next_in_task = m.task_heads[s]
      /\ new.prev_in_task = NoEntry
  OBVIOUS
<1> HIDE DEF new, pool
<1>5. /\ n.pool = pool
      /\ n.buckets = [m.buckets EXCEPT ![b] = idx]
      /\ n.task_heads = [m.task_heads EXCEPT ![s] = idx]
      /\ n.free_list = m.free_list /\ n.next_entry_idx = m.next_entry_idx
      /\ n.last_alive = m.last_alive /\ n.last_cleanup = m.last_cleanup
  BY <1>1 DEF MapType
<1> QED BY <1>2, <1>3, <1>4, <1>5 DEF Pushed

LEMMA OutOfTaskFields ==
  ASSUME NEW T, NEW m \in MapType(T), NEW idx \in Entries,
         NEW n, n = tm_remove_from_task(m, idx)
  PROVE  /\ n.buckets = m.buckets
         /\ n.task_heads = IF m.pool[idx].prev_in_task = NoEntry
                             THEN [m.task_heads EXCEPT ![Slot(m.pool[idx].producer)] =
                                     m.pool[idx].next_in_task]
                             ELSE m.task_heads
         /\ n.free_list = m.free_list /\ n.next_entry_idx = m.next_entry_idx
         /\ n.last_alive = m.last_alive /\ n.last_cleanup = m.last_cleanup
         /\ \A i \in Entries :
              /\ n.pool[i].bucket = m.pool[i].bucket /\ n.pool[i].producer = m.pool[i].producer
              /\ n.pool[i].next_in_bucket = m.pool[i].next_in_bucket
              /\ n.pool[i].prev_in_bucket = m.pool[i].prev_in_bucket
         /\ \A i \in Entries : i # idx =>
              /\ n.pool[i].next_in_task =
                   IF i = m.pool[idx].prev_in_task THEN m.pool[idx].next_in_task
                                                   ELSE m.pool[i].next_in_task
              /\ n.pool[i].prev_in_task =
                   IF i = m.pool[idx].next_in_task THEN m.pool[idx].prev_in_task
                                                   ELSE m.pool[i].prev_in_task
<1> DEFINE e == m.pool[idx]
           heads == IF e.prev_in_task = NoEntry
                      THEN [m.task_heads EXCEPT ![Slot(e.producer)] = e.next_in_task]
                      ELSE m.task_heads
           pool == [i \in Entries |->
              IF i = idx
                THEN [e EXCEPT !.next_in_task = NoEntry, !.prev_in_task = NoEntry]
                ELSE [m.pool[i] EXCEPT
                       !.next_in_task = IF i = e.prev_in_task THEN e.next_in_task ELSE @,
                       !.prev_in_task = IF i = e.next_in_task THEN e.prev_in_task ELSE @]]
<1>1. n = [m EXCEPT !.task_heads = heads, !.pool = pool]
  BY DEF tm_remove_from_task
<1>2. e \in EntryType(T)
  BY PoolAt
<1>3. ASSUME NEW i \in Entries, i # idx
      PROVE  /\ pool[i].bucket = m.pool[i].bucket /\ pool[i].producer = m.pool[i].producer
             /\ pool[i].next_in_bucket = m.pool[i].next_in_bucket
             /\ pool[i].prev_in_bucket = m.pool[i].prev_in_bucket
             /\ pool[i].next_in_task =
                  IF i = e.prev_in_task THEN e.next_in_task ELSE m.pool[i].next_in_task
             /\ pool[i].prev_in_task =
                  IF i = e.next_in_task THEN e.prev_in_task ELSE m.pool[i].prev_in_task
  <2>1. m.pool[i] \in EntryType(T)
    BY PoolAt
  <2>2. pool[i] = [m.pool[i] EXCEPT
                       !.next_in_task = IF i = e.prev_in_task THEN e.next_in_task ELSE @,
                       !.prev_in_task = IF i = e.next_in_task THEN e.prev_in_task ELSE @]
    BY <1>3
  <2> HIDE DEF pool, e
  <2> QED BY <2>1, <2>2 DEF EntryType
<1>4. /\ pool[idx].bucket = e.bucket /\ pool[idx].producer = e.producer
      /\ pool[idx].next_in_bucket = e.next_in_bucket
      /\ pool[idx].prev_in_bucket = e.prev_in_bucket
  <2>1. pool[idx] = [e EXCEPT !.next_in_task = NoEntry, !.prev_in_task = NoEntry]
    OBVIOUS
  <2> HIDE DEF pool, e
  <2> QED BY <1>2, <2>1 DEF EntryType
<1>5. e = m.pool[idx] /\ heads = IF e.prev_in_task = NoEntry
                      THEN [m.task_heads EXCEPT ![Slot(e.producer)] = e.next_in_task]
                      ELSE m.task_heads
  OBVIOUS
<1> HIDE DEF pool, heads, e
<1>6. /\ n.pool = pool /\ n.buckets = m.buckets /\ n.task_heads = heads
      /\ n.free_list = m.free_list /\ n.next_entry_idx = m.next_entry_idx
      /\ n.last_alive = m.last_alive /\ n.last_cleanup = m.last_cleanup
  BY <1>1 DEF MapType
<1> QED BY <1>3, <1>4, <1>5, <1>6

LEMMA FreeFields ==
  ASSUME NEW T, NEW m \in MapType(T), NEW idx \in Entries,
         NEW n, n = tm_free_entry(m, idx)
  PROVE  /\ n.task_heads = m.task_heads
         /\ n.buckets = IF m.pool[idx].prev_in_bucket = NoEntry
                          THEN [m.buckets EXCEPT ![m.pool[idx].bucket] =
                                  m.pool[idx].next_in_bucket]
                          ELSE m.buckets
         /\ n.free_list = Append(m.free_list, idx) /\ n.next_entry_idx = m.next_entry_idx
         /\ n.last_alive = m.last_alive /\ n.last_cleanup = m.last_cleanup
         /\ n.pool[idx].bucket = -1
         /\ \A i \in Entries : i # idx =>
              /\ n.pool[i].bucket = m.pool[i].bucket /\ n.pool[i].producer = m.pool[i].producer
              /\ n.pool[i].next_in_task = m.pool[i].next_in_task
              /\ n.pool[i].prev_in_task = m.pool[i].prev_in_task
              /\ n.pool[i].next_in_bucket =
                   IF i = m.pool[idx].prev_in_bucket THEN m.pool[idx].next_in_bucket
                                                     ELSE m.pool[i].next_in_bucket
              /\ n.pool[i].prev_in_bucket =
                   IF i = m.pool[idx].next_in_bucket THEN m.pool[idx].prev_in_bucket
                                                     ELSE m.pool[i].prev_in_bucket
<1> DEFINE e == m.pool[idx]
           buckets == IF e.prev_in_bucket = NoEntry
                        THEN [m.buckets EXCEPT ![e.bucket] = e.next_in_bucket] ELSE m.buckets
           pool == [i \in Entries |-> IF i = idx THEN Unlinked ELSE Bypass(m, i, e)]
<1>1. n = [m EXCEPT !.buckets = buckets, !.free_list = PushFree(m, idx), !.pool = pool]
  BY DEF tm_free_entry
<1>2. e \in EntryType(T)
  BY PoolAt
<1>3. ASSUME NEW i \in Entries, i # idx
      PROVE  /\ pool[i].bucket = m.pool[i].bucket /\ pool[i].producer = m.pool[i].producer
             /\ pool[i].next_in_task = m.pool[i].next_in_task
             /\ pool[i].prev_in_task = m.pool[i].prev_in_task
             /\ pool[i].next_in_bucket =
                  IF i = e.prev_in_bucket THEN e.next_in_bucket ELSE m.pool[i].next_in_bucket
             /\ pool[i].prev_in_bucket =
                  IF i = e.next_in_bucket THEN e.prev_in_bucket ELSE m.pool[i].prev_in_bucket
  <2>1. m.pool[i] \in EntryType(T)
    BY PoolAt
  <2>2. pool[i] = Bypass(m, i, e)
    BY <1>3
  <2> HIDE DEF pool, e
  <2> QED BY <2>1, <2>2 DEF EntryType, Bypass
<1>4. pool[idx].bucket = -1
  BY DEF Unlinked
<1>5. e = m.pool[idx] /\ buckets = IF e.prev_in_bucket = NoEntry
                        THEN [m.buckets EXCEPT ![e.bucket] = e.next_in_bucket] ELSE m.buckets
  OBVIOUS
<1> HIDE DEF pool, buckets, e
<1>6. /\ n.pool = pool /\ n.buckets = buckets /\ n.task_heads = m.task_heads
      /\ n.free_list = Append(m.free_list, idx) /\ n.next_entry_idx = m.next_entry_idx
      /\ n.last_alive = m.last_alive /\ n.last_cleanup = m.last_cleanup
  BY <1>1 DEF MapType, PushFree
<1> QED BY <1>3, <1>4, <1>5, <1>6

(* The free stack: an entry popped, a fresh one taken, an entry pushed.     *)
LEMMA PopStack ==
  ASSUME NEW list \in Seq(Entries), list # <<>>, NEW max \in Nat, NEW L, FreeStack(list, max, L)
  PROVE  /\ Last(list) \notin L /\ Front(list) \in Seq(Entries)
         /\ FreeStack(Front(list), max, L \cup {Last(list)})
<1> DEFINE n == Len(list)
           f == Front(list)
<1>1. n \in Nat /\ n > 0 /\ n \in 1 .. n
  OBVIOUS
<1>2. Last(list) = list[n]
  BY DEF Last
<1>3. f \in Seq(Entries) /\ Len(f) = n - 1 /\ \A k \in 1 .. n - 1 : f[k] = list[k]
  <2>1. f = SubSeq(list, 1, n - 1)
    BY DEF Front
  <2> HIDE DEF f, n
  <2>2. n - 1 \in 0 .. n /\ n = Len(list)
    BY <1>1 DEF n
  <2>3. CASE n = 1
    <3>1. f = <<>>
      BY <2>1, <2>3, SubSeqProperties
    <3>2. 1 .. n - 1 = {}
      BY <2>3
    <3> QED BY <2>3, <3>1, <3>2
  <2>4. CASE n # 1
    BY <1>1, <2>1, <2>2, <2>4, SubSeqProperties
  <2> QED BY <2>3, <2>4
<1> HIDE DEF f, n
<1>4. /\ \A j, k \in 1 .. n : list[j] = list[k] => j = k
      /\ \A x : x \in (0 .. max - 1) \ L <=> \E k \in 1 .. n : list[k] = x
      /\ L \subseteq 0 .. max - 1
  BY DEF FreeStack, n
<1>5. list[n] \in (0 .. max - 1) \ L
  BY <1>1, <1>4
<1>6. \A j, k \in 1 .. Len(f) : f[j] = f[k] => j = k
  BY <1>1, <1>3, <1>4
<1>7. \A x : x \in (0 .. max - 1) \ (L \cup {list[n]}) <=> \E k \in 1 .. Len(f) : f[k] = x
  <2>1. ASSUME NEW x, x \in (0 .. max - 1) \ (L \cup {list[n]})
        PROVE  \E k \in 1 .. Len(f) : f[k] = x
    <3>1. PICK k \in 1 .. n : list[k] = x
      BY <1>4, <2>1
    <3>2. k # n
      BY <2>1, <3>1
    <3>3. k \in 1 .. n - 1
      BY <1>1, <3>2
    <3> QED BY <1>3, <3>1, <3>3
  <2>2. ASSUME NEW x, NEW k \in 1 .. Len(f), f[k] = x
        PROVE  x \in (0 .. max - 1) \ (L \cup {list[n]})
    <3>1. k \in 1 .. n /\ list[k] = x /\ k # n
      BY <1>1, <1>3, <2>2
    <3>2. x \in (0 .. max - 1) \ L
      BY <1>4, <3>1
    <3>3. x # list[n]
      BY <1>1, <1>4, <3>1
    <3> QED BY <3>2, <3>3
  <2> QED BY <2>1, <2>2
<1>8. FreeStack(f, max, L \cup {list[n]})
  <2>1. { f[k] : k \in 1 .. Len(f) } = (0 .. max - 1) \ (L \cup {list[n]})
    BY <1>7
  <2>2. L \cup {list[n]} \subseteq 0 .. max - 1
    BY <1>4, <1>5
  <2> QED BY <1>6, <2>1, <2>2 DEF FreeStack
<1> QED BY <1>2, <1>3, <1>5, <1>8 DEF f

LEMMA FreshEntry ==
  ASSUME NEW max \in Nat, NEW L, FreeStack(<<>>, max, L)
  PROVE  max \notin L /\ FreeStack(<<>>, max + 1, L \cup {max})
<1>1. Len(<<>>) = 0 /\ 1 .. 0 = {}
  OBVIOUS
<1>2. (0 .. max - 1) \ L = {} /\ L \subseteq 0 .. max - 1
  BY <1>1 DEF FreeStack
<1>3. max \notin 0 .. max - 1 /\ 0 .. max = (0 .. max - 1) \cup {max} /\ max + 1 - 1 = max
  OBVIOUS
<1>4. (0 .. max) \ (L \cup {max}) = {}
  BY <1>2, <1>3
<1> QED BY <1>1, <1>2, <1>3, <1>4 DEF FreeStack

LEMMA PushStack ==
  ASSUME NEW list \in Seq(Entries), NEW max \in Nat, NEW L, FreeStack(list, max, L),
         NEW idx \in L, idx \in Entries
  PROVE  FreeStack(Append(list, idx), max, L \ {idx})
<1> DEFINE n == Len(list)
           f == Append(list, idx)
<1>1. n \in Nat /\ Len(f) = n + 1 /\ f[n + 1] = idx /\ \A k \in 1 .. n : f[k] = list[k]
  BY AppendProperties
<1> HIDE DEF f, n
<1>2. /\ \A j, k \in 1 .. n : list[j] = list[k] => j = k
      /\ \A x : x \in (0 .. max - 1) \ L <=> \E k \in 1 .. n : list[k] = x
      /\ L \subseteq 0 .. max - 1
  BY DEF FreeStack, n
<1>3. \A k \in 1 .. n : list[k] # idx
  BY <1>2
<1>4. \A k \in 1 .. n + 1 : k = n + 1 \/ k \in 1 .. n
  BY <1>1
<1>5. ASSUME NEW j \in 1 .. n + 1, NEW k \in 1 .. n + 1, f[j] = f[k]
      PROVE  j = k
  BY <1>1, <1>2, <1>3, <1>4, <1>5
<1>6. ASSUME NEW x
      PROVE  x \in (0 .. max - 1) \ (L \ {idx}) <=> \E k \in 1 .. n + 1 : f[k] = x
  <2>1. CASE x = idx
    <3>1. n + 1 \in 1 .. n + 1
      BY <1>1
    <3> QED BY <1>1, <1>2, <2>1, <3>1
  <2>2. CASE x # idx
    <3>1. (\E k \in 1 .. n + 1 : f[k] = x) <=> (\E k \in 1 .. n : list[k] = x)
      <4>1. 1 .. n \subseteq 1 .. n + 1
        BY <1>1
      <4> QED BY <1>1, <1>4, <2>2, <4>1
    <3> QED BY <1>2, <2>2, <3>1
  <2> QED BY <2>1, <2>2
<1>7. L \ {idx} \subseteq 0 .. max - 1
  BY <1>2
<1>8. FreeStack(f, max, L \ {idx})
  BY <1>1, <1>5, <1>6, <1>7 DEF FreeStack
<1> QED BY <1>8 DEF f

(* A tensor entered in a whole map.                                         *)
LEMMA InsertTensorWhole ==
  ASSUME NEW T, NEW m \in MapType(T), Whole(m), NewEntry(m) # NoEntry,
         NEW t, Fits(t, T), NEW task \in Int, NEW n, n = tm_insert_tensor(m, t, task)
  PROVE  /\ Whole(n) /\ n.last_alive = m.last_alive /\ n.last_cleanup = m.last_cleanup
         /\ \A i \in Linked(n) :
              n.pool[i].producer = task \/ (i \in Linked(m) /\ n.pool[i].producer = m.pool[i].producer)
<1> DEFINE u == TakeEntry(m)
           idx == NewEntry(m)
           b == Hash[t.addr]
           s == Slot(task)
<1>1. idx \in Entries /\ u \in MapType(T)
  BY NewEntryType
<1>2. /\ u.pool = m.pool /\ u.buckets = m.buckets /\ u.task_heads = m.task_heads
      /\ u.last_alive = m.last_alive /\ u.last_cleanup = m.last_cleanup
      /\ idx \notin Linked(m)
      /\ FreeStack(u.free_list, u.next_entry_idx, Linked(m) \cup {idx})
  <2>1. FreeStack(m.free_list, m.next_entry_idx, Linked(m))
    BY DEF Whole, FreeWhole
  <2>2. m.free_list \in Seq(Entries) /\ m.next_entry_idx \in Nat
    BY MapConstants DEF MapType
  <2>3. CASE m.free_list # <<>>
    <3>1. idx = Last(m.free_list)
      BY <2>3 DEF NewEntry
    <3>2. u = [m EXCEPT !.free_list = Front(m.free_list)]
      BY <2>3 DEF TakeEntry
    <3>3. /\ u.pool = m.pool /\ u.buckets = m.buckets /\ u.task_heads = m.task_heads
          /\ u.last_alive = m.last_alive /\ u.last_cleanup = m.last_cleanup
          /\ u.free_list = Front(m.free_list) /\ u.next_entry_idx = m.next_entry_idx
      BY <3>2 DEF MapType
    <3>4. /\ Last(m.free_list) \notin Linked(m)
          /\ FreeStack(Front(m.free_list), m.next_entry_idx, Linked(m) \cup {Last(m.free_list)})
      BY <2>1, <2>2, <2>3, PopStack
    <3> HIDE DEF u, idx
    <3> QED BY <3>1, <3>3, <3>4
  <2>4. CASE m.free_list = <<>>
    <3>1. idx = m.next_entry_idx
      BY <2>4 DEF NewEntry
    <3>2. u = [m EXCEPT !.next_entry_idx = m.next_entry_idx + 1]
      BY <2>4 DEF TakeEntry
    <3>3. /\ u.pool = m.pool /\ u.buckets = m.buckets /\ u.task_heads = m.task_heads
          /\ u.last_alive = m.last_alive /\ u.last_cleanup = m.last_cleanup
          /\ u.free_list = <<>> /\ u.next_entry_idx = m.next_entry_idx + 1
      BY <2>4, <3>2 DEF MapType
    <3>4. /\ m.next_entry_idx \notin Linked(m)
          /\ FreeStack(<<>>, m.next_entry_idx + 1, Linked(m) \cup {m.next_entry_idx})
      BY <2>1, <2>2, <2>4, FreshEntry
    <3> HIDE DEF u, idx
    <3> QED BY <3>1, <3>3, <3>4
  <2> QED BY <2>3, <2>4
<1>3. n = tm_link_entry(u, idx, t, task)
  BY DEF tm_insert_tensor
<1>4. b \in Buckets /\ s \in Slots /\ b # -1
  BY MapConstants, SlotType DEF Fits, Buckets, Slots
<1>5. b = Hash[t.addr] /\ s = Slot(task)
  OBVIOUS
<1> HIDE DEF u, idx, b, s
<1>6. /\ n.buckets = [m.buckets EXCEPT ![b] = idx]
      /\ n.task_heads = [m.task_heads EXCEPT ![s] = idx]
      /\ n.free_list = u.free_list /\ n.next_entry_idx = u.next_entry_idx
      /\ n.last_alive = m.last_alive /\ n.last_cleanup = m.last_cleanup
      /\ n.pool[idx].bucket = b /\ n.pool[idx].producer = task
      /\ n.pool[idx].next_in_bucket = m.buckets[b] /\ n.pool[idx].prev_in_bucket = NoEntry
      /\ n.pool[idx].next_in_task = m.task_heads[s] /\ n.pool[idx].prev_in_task = NoEntry
      /\ \A i \in Entries : i # idx =>
           /\ n.pool[i].bucket = m.pool[i].bucket /\ n.pool[i].producer = m.pool[i].producer
           /\ n.pool[i].next_in_bucket = m.pool[i].next_in_bucket
           /\ n.pool[i].next_in_task = m.pool[i].next_in_task
           /\ n.pool[i].prev_in_bucket =
                IF i = m.buckets[b] THEN idx ELSE m.pool[i].prev_in_bucket
           /\ n.pool[i].prev_in_task =
                IF i = m.task_heads[s] THEN idx ELSE m.pool[i].prev_in_task
  <2>1. Pushed(u, n, idx, b, s, task)
    BY <1>1, <1>3, <1>5, LinkFields
  <2> QED BY <1>2, <2>1 DEF Pushed
<1>7. DOMAIN m.buckets = Buckets /\ DOMAIN m.task_heads = Slots
  BY DEF MapType, Buckets, Slots
<1>8. Linked(n) = Linked(m) \cup {idx}
  BY <1>1, <1>4, <1>6 DEF Linked
<1>9. Linked(m) \subseteq Entries
  BY DEF Linked
<1>10. BucketsWhole(n)
  <2> DEFINE next == [i \in Entries |-> m.pool[i].next_in_bucket]
             prev == [i \in Entries |-> m.pool[i].prev_in_bucket]
             key == [i \in Entries |-> m.pool[i].bucket]
             next2 == [i \in Entries |-> n.pool[i].next_in_bucket]
             prev2 == [i \in Entries |-> n.pool[i].prev_in_bucket]
             key2 == [i \in Entries |-> n.pool[i].bucket]
  <2>1. Threads(Buckets, m.buckets, next, prev, key, Linked(m))
    BY DEF Whole, BucketsWhole
  <2>2. n.buckets[b] = idx /\ \A x \in Buckets : x # b => n.buckets[x] = m.buckets[x]
    BY <1>4, <1>6, <1>7
  <2>3. key2[idx] = b /\ next2[idx] = m.buckets[b] /\ prev2[idx] = NoEntry
    BY <1>1, <1>6
  <2>4. \A i \in Linked(m) : /\ key2[i] = key[i] /\ next2[i] = next[i]
                             /\ prev2[i] = IF i = m.buckets[b] THEN idx ELSE prev[i]
    BY <1>2, <1>6, <1>9
  <2> HIDE DEF next, prev, key, next2, prev2, key2
  <2>5. Threads(Buckets, n.buckets, next2, prev2, key2, Linked(m) \cup {idx})
    BY <1>1, <1>2, <1>4, <2>1, <2>2, <2>3, <2>4, PushFront
  <2> QED BY <1>8, <2>5 DEF BucketsWhole, next2, prev2, key2
<1>11. SlotsWhole(n, Slots, Linked(n))
  <2> DEFINE next == [i \in Entries |-> m.pool[i].next_in_task]
             prev == [i \in Entries |-> m.pool[i].prev_in_task]
             key == [i \in Entries |-> Slot(m.pool[i].producer)]
             next2 == [i \in Entries |-> n.pool[i].next_in_task]
             prev2 == [i \in Entries |-> n.pool[i].prev_in_task]
             key2 == [i \in Entries |-> Slot(n.pool[i].producer)]
  <2>1. Threads(Slots, m.task_heads, next, prev, key, Linked(m))
    BY DEF Whole, SlotsWhole
  <2>2. n.task_heads[s] = idx /\ \A x \in Slots : x # s => n.task_heads[x] = m.task_heads[x]
    BY <1>4, <1>6, <1>7
  <2>3. key2[idx] = s /\ next2[idx] = m.task_heads[s] /\ prev2[idx] = NoEntry
    BY <1>1, <1>5, <1>6
  <2>4. \A i \in Linked(m) : /\ key2[i] = key[i] /\ next2[i] = next[i]
                             /\ prev2[i] = IF i = m.task_heads[s] THEN idx ELSE prev[i]
    BY <1>2, <1>6, <1>9
  <2> HIDE DEF next, prev, key, next2, prev2, key2
  <2>5. Threads(Slots, n.task_heads, next2, prev2, key2, Linked(m) \cup {idx})
    BY <1>1, <1>2, <1>4, <2>1, <2>2, <2>3, <2>4, PushFront
  <2> QED BY <1>8, <2>5 DEF SlotsWhole, next2, prev2, key2
<1>12. FreeWhole(n)
  BY <1>2, <1>6, <1>8 DEF FreeWhole
<1>13. ASSUME NEW i \in Linked(n)
       PROVE  n.pool[i].producer = task \/ (i \in Linked(m) /\ n.pool[i].producer = m.pool[i].producer)
  BY <1>6, <1>8, <1>9, <1>13
<1> QED BY <1>6, <1>10, <1>11, <1>12, <1>13 DEF Whole

(* A family of lists whose links are the same is threaded as well.          *)
LEMMA SameThreads ==
  ASSUME NEW K, NEW heads, NEW next, NEW prev, NEW key, NEW M,
         Threads(K, heads, next, prev, key, M), NEW heads2, NEW next2, NEW prev2, NEW key2,
         \A x \in K : heads2[x] = heads[x],
         \A i \in M : key2[i] = key[i] /\ next2[i] = next[i] /\ prev2[i] = prev[i]
  PROVE  Threads(K, heads2, next2, prev2, key2, M)
<1>0. PICK R \in Nat : \E r \in [Entries -> 0 .. R] : Threaded(K, heads, next, prev, key, M, r)
  BY DEF Threads
<1>1. PICK r \in [Entries -> 0 .. R] : Threaded(K, heads, next, prev, key, M, r)
  BY <1>0
<1>2. Threaded(K, heads2, next2, prev2, key2, M, r)
  <2>1. \A b \in K : heads2[b] \in Links /\
          (heads2[b] # NoEntry =>
             heads2[b] \in M /\ key2[heads2[b]] = b /\ prev2[heads2[b]] = NoEntry)
    BY <1>1 DEF Threaded
  <2>2. \A i \in M : key2[i] \in K /\ next2[i] \in Links /\ prev2[i] \in Links
    BY <1>1 DEF Threaded
  <2>3. \A i \in M : prev2[i] = NoEntry => heads2[key2[i]] = i
    BY <1>1 DEF Threaded
  <2>4. \A i \in M : prev2[i] # NoEntry =>
          prev2[i] \in M /\ next2[prev2[i]] = i /\ key2[prev2[i]] = key2[i]
    BY <1>1 DEF Threaded
  <2>5. \A i \in M : next2[i] # NoEntry =>
          /\ next2[i] \in M /\ prev2[next2[i]] = i /\ key2[next2[i]] = key2[i]
          /\ r[next2[i]] < r[i]
    BY <1>1 DEF Threaded
  <2> QED BY <2>1, <2>2, <2>3, <2>4, <2>5 DEF Threaded
<1>3. M \in SUBSET Entries
  BY DEF Threads
<1> QED BY <1>2, <1>3 DEF Threads

(* What is left of a map by an operation that only frees entries.           *)
Shrunk(m, n) ==
  /\ n.last_alive = m.last_alive /\ n.last_cleanup = m.last_cleanup
  /\ \A i \in Linked(n) : i \in Linked(m) /\ n.pool[i].producer = m.pool[i].producer

(* An entry freed leaves its bucket and no task chain.                      *)
LEMMA FreeEntryWhole ==
  ASSUME NEW T, NEW m \in MapType(T), BucketsWhole(m), FreeWhole(m), NEW idx \in Linked(m),
         NEW n, n = tm_free_entry(m, idx)
  PROVE  /\ BucketsWhole(n) /\ FreeWhole(n) /\ Shrunk(m, n)
         /\ Linked(n) = Linked(m) \ {idx} /\ n.task_heads = m.task_heads
         /\ \A i \in Linked(n) : /\ n.pool[i].next_in_task = m.pool[i].next_in_task
                                 /\ n.pool[i].prev_in_task = m.pool[i].prev_in_task
<1>1. idx \in Entries /\ Linked(m) \subseteq Entries /\ m.pool[idx].bucket # -1
  BY DEF Linked
<1> DEFINE e == m.pool[idx]
<1>2. e \in EntryType(T)
  BY <1>1, PoolAt
<1>3. e = m.pool[idx]
  OBVIOUS
<1> HIDE DEF e
<1>4. /\ n.task_heads = m.task_heads
      /\ n.buckets = IF e.prev_in_bucket = NoEntry
                       THEN [m.buckets EXCEPT ![e.bucket] = e.next_in_bucket] ELSE m.buckets
      /\ n.free_list = Append(m.free_list, idx) /\ n.next_entry_idx = m.next_entry_idx
      /\ n.last_alive = m.last_alive /\ n.last_cleanup = m.last_cleanup
      /\ n.pool[idx].bucket = -1
      /\ \A i \in Entries : i # idx =>
           /\ n.pool[i].bucket = m.pool[i].bucket /\ n.pool[i].producer = m.pool[i].producer
           /\ n.pool[i].next_in_task = m.pool[i].next_in_task
           /\ n.pool[i].prev_in_task = m.pool[i].prev_in_task
           /\ n.pool[i].next_in_bucket =
                IF i = e.prev_in_bucket THEN e.next_in_bucket ELSE m.pool[i].next_in_bucket
           /\ n.pool[i].prev_in_bucket =
                IF i = e.next_in_bucket THEN e.prev_in_bucket ELSE m.pool[i].prev_in_bucket
  BY <1>1, <1>3, FreeFields
<1>5. Linked(n) = Linked(m) \ {idx}
  BY <1>1, <1>4 DEF Linked
<1>6. DOMAIN m.buckets = Buckets
  BY DEF MapType, Buckets
<1>7. BucketsWhole(n)
  <2> DEFINE next == [i \in Entries |-> m.pool[i].next_in_bucket]
             prev == [i \in Entries |-> m.pool[i].prev_in_bucket]
             key == [i \in Entries |-> m.pool[i].bucket]
             next2 == [i \in Entries |-> n.pool[i].next_in_bucket]
             prev2 == [i \in Entries |-> n.pool[i].prev_in_bucket]
             key2 == [i \in Entries |-> n.pool[i].bucket]
  <2>1. Threads(Buckets, m.buckets, next, prev, key, Linked(m))
    BY DEF BucketsWhole
  <2>2. key[idx] = e.bucket /\ next[idx] = e.next_in_bucket /\ prev[idx] = e.prev_in_bucket
    BY <1>1, <1>3
  <2>3. \A i \in Linked(m) : i # idx =>
          /\ key2[i] = key[i]
          /\ next2[i] = IF i = prev[idx] THEN next[idx] ELSE next[i]
          /\ prev2[i] = IF i = next[idx] THEN prev[idx] ELSE prev[i]
    <3>1. ASSUME NEW i \in Linked(m), i # idx
          PROVE  /\ key2[i] = key[i]
                 /\ next2[i] = IF i = e.prev_in_bucket THEN e.next_in_bucket ELSE next[i]
                 /\ prev2[i] = IF i = e.next_in_bucket THEN e.prev_in_bucket ELSE prev[i]
      BY <1>1, <1>4, <3>1
    <3> HIDE DEF next, prev, key, next2, prev2, key2
    <3> QED BY <2>2, <3>1
  <2> HIDE DEF next, prev, key, next2, prev2, key2
  <2>4. \A x \in Buckets : n.buckets[x] = IF prev[idx] = NoEntry /\ x = key[idx]
                                            THEN next[idx] ELSE m.buckets[x]
    BY <1>4, <1>6, <2>2
  <2>5. Threads(Buckets, n.buckets, next2, prev2, key2, Linked(m) \ {idx})
    BY <2>1, <2>3, <2>4, TakeOut
  <2> QED BY <1>5, <2>5 DEF BucketsWhole, next2, prev2, key2
<1>8. FreeWhole(n)
  <2>1. m.free_list \in Seq(Entries) /\ m.next_entry_idx \in Nat
    BY MapConstants DEF MapType
  <2>2. FreeStack(Append(m.free_list, idx), m.next_entry_idx, Linked(m) \ {idx})
    BY <1>1, <2>1, PushStack DEF FreeWhole
  <2> QED BY <1>4, <1>5, <2>2 DEF FreeWhole
<1>9. Shrunk(m, n)
  BY <1>1, <1>4, <1>5 DEF Shrunk
<1>10. \A i \in Linked(n) : /\ n.pool[i].next_in_task = m.pool[i].next_in_task
                            /\ n.pool[i].prev_in_task = m.pool[i].prev_in_task
  BY <1>1, <1>4, <1>5
<1> QED BY <1>4, <1>5, <1>7, <1>8, <1>9, <1>10

(* The task chains do not see an entry freed that is in none of them.       *)
LEMMA SlotsKept ==
  ASSUME NEW m, NEW n, NEW K, NEW M, SlotsWhole(m, K, M), n.task_heads = m.task_heads,
         \A i \in M : /\ n.pool[i].producer = m.pool[i].producer
                      /\ n.pool[i].next_in_task = m.pool[i].next_in_task
                      /\ n.pool[i].prev_in_task = m.pool[i].prev_in_task
  PROVE  SlotsWhole(n, K, M)
<1> DEFINE next == [i \in Entries |-> m.pool[i].next_in_task]
           prev == [i \in Entries |-> m.pool[i].prev_in_task]
           key == [i \in Entries |-> Slot(m.pool[i].producer)]
           next2 == [i \in Entries |-> n.pool[i].next_in_task]
           prev2 == [i \in Entries |-> n.pool[i].prev_in_task]
           key2 == [i \in Entries |-> Slot(n.pool[i].producer)]
<1>1. Threads(K, m.task_heads, next, prev, key, M)
  BY DEF SlotsWhole
<1>2. M \in SUBSET Entries
  BY <1>1 DEF Threads
<1>3. \A i \in M : key2[i] = key[i] /\ next2[i] = next[i] /\ prev2[i] = prev[i]
  BY <1>2
<1> HIDE DEF next, prev, key, next2, prev2, key2
<1>4. \A x \in K : n.task_heads[x] = m.task_heads[x]
  OBVIOUS
<1>5. Threads(K, n.task_heads, next2, prev2, key2, M)
  BY <1>1, <1>3, <1>4, SameThreads
<1> QED BY <1>5 DEF SlotsWhole, next2, prev2, key2

(* An entry removed leaves both of its chains.                              *)
LEMMA RemoveWhole ==
  ASSUME NEW T, NEW m \in MapType(T), Whole(m), NEW idx \in Linked(m), NEW n, n = tm_remove(m, idx)
  PROVE  Whole(n) /\ Shrunk(m, n) /\ Linked(n) = Linked(m) \ {idx}
<1>1. idx \in Entries /\ Linked(m) \subseteq Entries
  BY DEF Linked
<1> DEFINE e == m.pool[idx]
           u == tm_remove_from_task(m, idx)
<1>2. e \in EntryType(T) /\ u \in MapType(T)
  BY <1>1, PoolAt, RemoveFromTaskType
<1>3. e = m.pool[idx] /\ n = tm_free_entry(u, idx)
  BY DEF tm_remove
<1> HIDE DEF e
<1>4. /\ u.buckets = m.buckets
      /\ u.task_heads = IF e.prev_in_task = NoEntry
                          THEN [m.task_heads EXCEPT ![Slot(e.producer)] = e.next_in_task]
                          ELSE m.task_heads
      /\ u.free_list = m.free_list /\ u.next_entry_idx = m.next_entry_idx
      /\ u.last_alive = m.last_alive /\ u.last_cleanup = m.last_cleanup
      /\ \A i \in Entries :
           /\ u.pool[i].bucket = m.pool[i].bucket /\ u.pool[i].producer = m.pool[i].producer
           /\ u.pool[i].next_in_bucket = m.pool[i].next_in_bucket
           /\ u.pool[i].prev_in_bucket = m.pool[i].prev_in_bucket
      /\ \A i \in Entries : i # idx =>
           /\ u.pool[i].next_in_task =
                IF i = e.prev_in_task THEN e.next_in_task ELSE m.pool[i].next_in_task
           /\ u.pool[i].prev_in_task =
                IF i = e.next_in_task THEN e.prev_in_task ELSE m.pool[i].prev_in_task
  BY <1>1, <1>3, OutOfTaskFields
<1> HIDE DEF u
<1>5. Linked(u) = Linked(m)
  BY <1>4 DEF Linked
<1>6. BucketsWhole(u) /\ FreeWhole(u)
  <2>1. BucketsWhole(u)
    <3> DEFINE next == [i \in Entries |-> m.pool[i].next_in_bucket]
               prev == [i \in Entries |-> m.pool[i].prev_in_bucket]
               key == [i \in Entries |-> m.pool[i].bucket]
               next2 == [i \in Entries |-> u.pool[i].next_in_bucket]
               prev2 == [i \in Entries |-> u.pool[i].prev_in_bucket]
               key2 == [i \in Entries |-> u.pool[i].bucket]
    <3>1. Threads(Buckets, m.buckets, next, prev, key, Linked(m))
      BY DEF Whole, BucketsWhole
    <3>2. next2 = next /\ prev2 = prev /\ key2 = key
      BY <1>4
    <3> HIDE DEF next, prev, key, next2, prev2, key2
    <3>3. Threads(Buckets, u.buckets, next2, prev2, key2, Linked(u))
      BY <1>4, <1>5, <3>1, <3>2
    <3> QED BY <3>3 DEF BucketsWhole, next2, prev2, key2
  <2>2. FreeWhole(u)
    BY <1>4, <1>5 DEF Whole, FreeWhole
  <2> QED BY <2>1, <2>2
<1>7. SlotsWhole(u, Slots, Linked(m) \ {idx})
  <2> DEFINE next == [i \in Entries |-> m.pool[i].next_in_task]
             prev == [i \in Entries |-> m.pool[i].prev_in_task]
             key == [i \in Entries |-> Slot(m.pool[i].producer)]
             next2 == [i \in Entries |-> u.pool[i].next_in_task]
             prev2 == [i \in Entries |-> u.pool[i].prev_in_task]
             key2 == [i \in Entries |-> Slot(u.pool[i].producer)]
  <2>1. Threads(Slots, m.task_heads, next, prev, key, Linked(m))
    BY DEF Whole, SlotsWhole
  <2>2. /\ key[idx] = Slot(e.producer) /\ next[idx] = e.next_in_task
        /\ prev[idx] = e.prev_in_task
    BY <1>1, <1>3
  <2>3. \A i \in Linked(m) : i # idx =>
          /\ key2[i] = key[i]
          /\ next2[i] = IF i = prev[idx] THEN next[idx] ELSE next[i]
          /\ prev2[i] = IF i = next[idx] THEN prev[idx] ELSE prev[i]
    <3>1. ASSUME NEW i \in Linked(m), i # idx
          PROVE  /\ key2[i] = key[i]
                 /\ next2[i] = IF i = e.prev_in_task THEN e.next_in_task ELSE next[i]
                 /\ prev2[i] = IF i = e.next_in_task THEN e.prev_in_task ELSE prev[i]
      BY <1>1, <1>4, <3>1
    <3> HIDE DEF next, prev, key, next2, prev2, key2
    <3> QED BY <2>2, <3>1
  <2> HIDE DEF next, prev, key, next2, prev2, key2
  <2>4. DOMAIN m.task_heads = Slots
    BY DEF MapType, Slots
  <2>5. \A x \in Slots : u.task_heads[x] = IF prev[idx] = NoEntry /\ x = key[idx]
                                             THEN next[idx] ELSE m.task_heads[x]
    BY <1>4, <2>2, <2>4
  <2>6. Threads(Slots, u.task_heads, next2, prev2, key2, Linked(m) \ {idx})
    BY <2>1, <2>3, <2>5, TakeOut
  <2> QED BY <2>6 DEF SlotsWhole, next2, prev2, key2
<1>8. /\ BucketsWhole(n) /\ FreeWhole(n) /\ Shrunk(u, n)
      /\ Linked(n) = Linked(m) \ {idx} /\ n.task_heads = u.task_heads
      /\ \A i \in Linked(n) : /\ n.pool[i].next_in_task = u.pool[i].next_in_task
                              /\ n.pool[i].prev_in_task = u.pool[i].prev_in_task
  BY <1>2, <1>3, <1>5, <1>6, FreeEntryWhole
<1>9. SlotsWhole(n, Slots, Linked(n))
  <2>1. \A i \in Linked(m) \ {idx} :
                      /\ n.pool[i].producer = u.pool[i].producer
                      /\ n.pool[i].next_in_task = u.pool[i].next_in_task
                      /\ n.pool[i].prev_in_task = u.pool[i].prev_in_task
    BY <1>8 DEF Shrunk
  <2>2. SlotsWhole(n, Slots, Linked(m) \ {idx})
    BY <1>7, <1>8, <2>1, SlotsKept
  <2> QED BY <1>8, <2>2
<1>10. Shrunk(m, n)
  BY <1>1, <1>4, <1>5, <1>8 DEF Shrunk
<1> QED BY <1>8, <1>9, <1>10 DEF Whole

(* The entries of a list, freed one after the other.                        *)
Freeing(f, b, q, n, U) ==
  /\ f[0] = b
  /\ \A k \in 1 .. n : f[k] = tm_free_entry(f[k - 1], q[k])
  /\ \A k \in 0 .. n : f[k] \in U
  /\ FoldLeft(tm_free_entry, b, q) = f[n]

LEMMA FreeFold ==
  ASSUME NEW n \in Nat, NEW q, DOMAIN q = 1 .. n, NEW U, NEW b \in U,
         \A a \in U : \A k \in 1 .. n : tm_free_entry(a, q[k]) \in U
  PROVE  \E f : Freeing(f, b, q, n, U)
<1> DEFINE G == [k \in 1 .. n |-> [a \in U |-> tm_free_entry(a, q[k])]]
           E(h) == h = [s \in SUBSET DOMAIN q |->
                          IF s = {} THEN b ELSE tm_free_entry(h[s \ {Max(s)}], q[Max(s)])]
           g == CHOOSE h : E(h)
           f == [k \in 0 .. n |-> g[1 .. k]]
<1>1. E(g)
  <2>1. G \in [1 .. n -> [U -> U]]
    OBVIOUS
  <2>2. PICK h : Folds(h, b, G, n, U)
    <3> HIDE DEF G
    <3> QED BY <2>1, FoldExists
  <2>3. ASSUME NEW s \in SUBSET (1 .. n), s # {}
        PROVE  G[Max(s)][h[s \ {Max(s)}]] = tm_free_entry(h[s \ {Max(s)}], q[Max(s)])
    <3>1. Max(s) \in 1 .. n
      BY <2>3, MaxOf
    <3>2. h[s \ {Max(s)}] \in U
      BY <2>2 DEF Folds
    <3> QED BY <3>1, <3>2
  <2>4. E(h)
    <3> HIDE DEF G
    <3>1. \A s \in SUBSET DOMAIN q :
            h[s] = IF s = {} THEN b ELSE tm_free_entry(h[s \ {Max(s)}], q[Max(s)])
      BY <2>2, <2>3 DEF Folds
    <3>2. h = [s \in SUBSET DOMAIN q |-> h[s]]
      BY <2>2 DEF Folds
    <3> QED BY <3>1, <3>2
  <2> HIDE DEF E
  <2> QED BY <2>4
<1>2. FoldLeft(tm_free_entry, b, q) = g[DOMAIN q]
  BY Zenon DEF FoldLeft, MapThenFoldSet
<1>3. \A s \in SUBSET (1 .. n) :
        g[s] = IF s = {} THEN b ELSE tm_free_entry(g[s \ {Max(s)}], q[Max(s)])
  BY <1>1
<1> HIDE DEF g, E, G
<1>4. f[0] = b
  <2>1. 1 .. 0 = {} /\ 0 \in 0 .. n
    OBVIOUS
  <2> QED BY <1>3, <2>1
<1>5. ASSUME NEW k \in 1 .. n
      PROVE  f[k] = tm_free_entry(f[k - 1], q[k])
  <2>1. 1 .. k \in SUBSET (1 .. n) /\ k \in 1 .. k /\ k \in Nat
    OBVIOUS
  <2>2. Max(1 .. k) = k
    <3>1. Max(1 .. k) \in 1 .. k /\ k <= Max(1 .. k)
      BY <2>1, MaxOf
    <3> QED BY <3>1
  <2>3. (1 .. k) \ {k} = 1 .. k - 1
    OBVIOUS
  <2>4. g[1 .. k] = tm_free_entry(g[1 .. k - 1], q[k])
    BY <1>3, <2>1, <2>2, <2>3
  <2> QED BY <2>4
<1>6. \A k \in 0 .. n : f[k] \in U
  <2> DEFINE S == { k \in 0 .. n : f[k] \in U }
  <2> HIDE DEF f
  <2>1. 0 \in S
    BY <1>4
  <2>2. \A k \in 1 .. n : k - 1 \in S => k \in S
    BY <1>5
  <2> HIDE DEF S
  <2>3. 0 .. n \subseteq S
    BY <2>1, <2>2, UpTo
  <2> QED BY <2>3 DEF S
<1>7. FoldLeft(tm_free_entry, b, q) = f[n]
  BY <1>2
<1> HIDE DEF f
<1>8. Freeing(f, b, q, n, U)
  BY <1>4, <1>5, <1>6, <1>7 DEF Freeing
<1> QED BY <1>8


(* The slots of a list of tasks, freed one after the other.                 *)
Sweeping(f, b, q, n, U) ==
  /\ f[0] = b
  /\ \A k \in 1 .. n : f[k] = FreeSlot(f[k - 1], q[k])
  /\ \A k \in 0 .. n : f[k] \in U
  /\ FoldLeft(FreeSlot, b, q) = f[n]

LEMMA SweepFold ==
  ASSUME NEW n \in Nat, NEW q, DOMAIN q = 1 .. n, NEW U, NEW b \in U,
         \A a \in U : \A k \in 1 .. n : FreeSlot(a, q[k]) \in U
  PROVE  \E f : Sweeping(f, b, q, n, U)
<1> DEFINE G == [k \in 1 .. n |-> [a \in U |-> FreeSlot(a, q[k])]]
           E(h) == h = [s \in SUBSET DOMAIN q |->
                          IF s = {} THEN b ELSE FreeSlot(h[s \ {Max(s)}], q[Max(s)])]
           g == CHOOSE h : E(h)
           f == [k \in 0 .. n |-> g[1 .. k]]
<1>1. E(g)
  <2>1. G \in [1 .. n -> [U -> U]]
    OBVIOUS
  <2>2. PICK h : Folds(h, b, G, n, U)
    <3> HIDE DEF G
    <3> QED BY <2>1, FoldExists
  <2>3. ASSUME NEW s \in SUBSET (1 .. n), s # {}
        PROVE  G[Max(s)][h[s \ {Max(s)}]] = FreeSlot(h[s \ {Max(s)}], q[Max(s)])
    <3>1. Max(s) \in 1 .. n
      BY <2>3, MaxOf
    <3>2. h[s \ {Max(s)}] \in U
      BY <2>2 DEF Folds
    <3> QED BY <3>1, <3>2
  <2>4. E(h)
    <3> HIDE DEF G
    <3>1. \A s \in SUBSET DOMAIN q :
            h[s] = IF s = {} THEN b ELSE FreeSlot(h[s \ {Max(s)}], q[Max(s)])
      BY <2>2, <2>3 DEF Folds
    <3>2. h = [s \in SUBSET DOMAIN q |-> h[s]]
      BY <2>2 DEF Folds
    <3> QED BY <3>1, <3>2
  <2> HIDE DEF E
  <2> QED BY <2>4
<1>2. FoldLeft(FreeSlot, b, q) = g[DOMAIN q]
  BY Zenon DEF FoldLeft, MapThenFoldSet
<1>3. \A s \in SUBSET (1 .. n) :
        g[s] = IF s = {} THEN b ELSE FreeSlot(g[s \ {Max(s)}], q[Max(s)])
  BY <1>1
<1> HIDE DEF g, E, G
<1>4. f[0] = b
  <2>1. 1 .. 0 = {} /\ 0 \in 0 .. n
    OBVIOUS
  <2> QED BY <1>3, <2>1
<1>5. ASSUME NEW k \in 1 .. n
      PROVE  f[k] = FreeSlot(f[k - 1], q[k])
  <2>1. 1 .. k \in SUBSET (1 .. n) /\ k \in 1 .. k /\ k \in Nat
    OBVIOUS
  <2>2. Max(1 .. k) = k
    <3>1. Max(1 .. k) \in 1 .. k /\ k <= Max(1 .. k)
      BY <2>1, MaxOf
    <3> QED BY <3>1
  <2>3. (1 .. k) \ {k} = 1 .. k - 1
    OBVIOUS
  <2>4. g[1 .. k] = FreeSlot(g[1 .. k - 1], q[k])
    BY <1>3, <2>1, <2>2, <2>3
  <2> QED BY <2>4
<1>6. \A k \in 0 .. n : f[k] \in U
  <2> DEFINE S == { k \in 0 .. n : f[k] \in U }
  <2> HIDE DEF f
  <2>1. 0 \in S
    BY <1>4
  <2>2. \A k \in 1 .. n : k - 1 \in S => k \in S
    BY <1>5
  <2> HIDE DEF S
  <2>3. 0 .. n \subseteq S
    BY <2>1, <2>2, UpTo
  <2> QED BY <2>3 DEF S
<1>7. FoldLeft(FreeSlot, b, q) = f[n]
  BY <1>2
<1> HIDE DEF f
<1>8. Sweeping(f, b, q, n, U)
  BY <1>4, <1>5, <1>6, <1>7 DEF Sweeping
<1> QED BY <1>8


(* The chain of a task slot is a list of entries, and freeing it is typed.  *)
LEMMA TaskChainSeq ==
  ASSUME NEW T, NEW m \in MapType(T), NEW s \in Slots
  PROVE  TaskChain(m, s) \in Seq(Entries)
<1>1. m.task_heads[s] \in Links
  BY DEF MapType, Slots
<1>2. [i \in Entries |-> m.pool[i].next_in_task] \in [Entries -> Links]
  BY PoolAt DEF EntryType
<1> QED BY <1>1, <1>2, ChainSeq DEF TaskChain

(* The entries of a task slot are freed in the order of its chain.          *)
LEMMA FreeSlotWalk ==
  ASSUME NEW T, "none" \in T, NEW m \in MapType(T), NEW task \in Int,
         NEW q, q = TaskChain(m, Slot(task))
  PROVE  /\ Len(q) \in Nat /\ q \in Seq(Entries)
         /\ \E f : /\ Freeing(f, m, q, Len(q), MapType(T))
                   /\ FreeSlot(m, task) = [f[Len(q)] EXCEPT !.task_heads[Slot(task)] = NoEntry]
<1>1. q \in Seq(Entries)
  BY SlotType, TaskChainSeq DEF Slots
<1>2. Len(q) \in Nat /\ DOMAIN q = 1 .. Len(q) /\ \A k \in 1 .. Len(q) : q[k] \in Entries
  BY <1>1
<1>3. \A a \in MapType(T) : \A k \in 1 .. Len(q) : tm_free_entry(a, q[k]) \in MapType(T)
  BY <1>2, FreeEntryType
<1>4. PICK f : Freeing(f, m, q, Len(q), MapType(T))
  BY <1>2, <1>3, FreeFold
<1>5. FreeSlot(m, task) = [f[Len(q)] EXCEPT !.task_heads[Slot(task)] = NoEntry]
  BY <1>4 DEF FreeSlot, Freeing
<1> QED BY <1>1, <1>2, <1>4, <1>5

LEMMA FreeSlotType ==
  ASSUME NEW T, "none" \in T, NEW m \in MapType(T), NEW task \in Int
  PROVE  FreeSlot(m, task) \in MapType(T)
<1>1. PICK q : q = TaskChain(m, Slot(task))
  OBVIOUS
<1>2. PICK f : /\ Freeing(f, m, q, Len(q), MapType(T))
               /\ FreeSlot(m, task) = [f[Len(q)] EXCEPT !.task_heads[Slot(task)] = NoEntry]
  BY <1>1, FreeSlotWalk
<1>3. Len(q) \in Nat
  BY <1>1, FreeSlotWalk
<1>4. f[Len(q)] \in MapType(T)
  BY <1>2, <1>3 DEF Freeing
<1> DEFINE u == f[Len(q)]
           heads == [u.task_heads EXCEPT ![Slot(task)] = NoEntry]
<1>5. heads \in [0 .. TaskWindow - 1 -> Links]
  BY <1>4, NoEntryOut DEF MapType
<1>6. FreeSlot(m, task) = [u EXCEPT !.task_heads = heads]
  BY <1>2
<1> HIDE DEF u, heads
<1>7. u \in MapType(T)
  BY <1>4 DEF u
<1> QED BY <1>5, <1>6, <1>7 DEF MapType

(* The sweep of the slots of the tasks from last_cleanup on.                *)
LEMMA CleanupWalk ==
  ASSUME NEW T, "none" \in T, NEW m \in MapType(T), NEW alive \in Nat, m.last_cleanup <= alive,
         NEW n, n = alive - m.last_cleanup
  PROVE  \E f : /\ Sweeping(f, m, Retired(m, alive), n, MapType(T))
                /\ tm_cleanup_retired(m, alive) = [f[n] EXCEPT !.last_cleanup = alive]
<1> DEFINE q == Retired(m, alive)
<1>1. m.last_cleanup \in Nat /\ n \in Nat
  BY DEF MapType
<1>2. DOMAIN q = 1 .. n /\ \A k \in 1 .. n : q[k] = m.last_cleanup + k - 1 /\ q[k] \in Int
  BY <1>1 DEF Retired
<1> HIDE DEF q
<1>3. \A a \in MapType(T) : \A k \in 1 .. n : FreeSlot(a, q[k]) \in MapType(T)
  BY <1>2, FreeSlotType
<1>4. PICK f : Sweeping(f, m, q, n, MapType(T))
  BY <1>1, <1>2, <1>3, SweepFold
<1>5. tm_cleanup_retired(m, alive) = [f[n] EXCEPT !.last_cleanup = alive]
  BY <1>4 DEF tm_cleanup_retired, Sweeping, q
<1> QED BY <1>4, <1>5 DEF q

(* A family without one of its keys, and with a key that has no entry.      *)
LEMMA WithoutKey ==
  ASSUME NEW K, NEW heads, NEW next, NEW prev, NEW key, NEW M,
         Threads(K, heads, next, prev, key, M), NEW s,
         NEW L, L = { i \in M : key[i] # s }
  PROVE  Threads(K \ {s}, heads, next, prev, key, L)
<1>0. PICK R \in Nat : \E r \in [Entries -> 0 .. R] : Threaded(K, heads, next, prev, key, M, r)
  BY DEF Threads
<1>1. PICK r \in [Entries -> 0 .. R] : Threaded(K, heads, next, prev, key, M, r)
  BY <1>0
<1>2. Threaded(K \ {s}, heads, next, prev, key, L, r)
  <2>1. \A b \in K \ {s} : heads[b] \in Links /\
          (heads[b] # NoEntry => heads[b] \in L /\ key[heads[b]] = b /\ prev[heads[b]] = NoEntry)
    BY <1>1 DEF Threaded
  <2>2. \A i \in L : key[i] \in K \ {s} /\ next[i] \in Links /\ prev[i] \in Links
    BY <1>1 DEF Threaded
  <2>3. \A i \in L : prev[i] = NoEntry => heads[key[i]] = i
    BY <1>1 DEF Threaded
  <2>4. \A i \in L : prev[i] # NoEntry =>
          prev[i] \in L /\ next[prev[i]] = i /\ key[prev[i]] = key[i]
    BY <1>1 DEF Threaded
  <2>5. \A i \in L : next[i] # NoEntry =>
          next[i] \in L /\ prev[next[i]] = i /\ key[next[i]] = key[i] /\ r[next[i]] < r[i]
    BY <1>1 DEF Threaded
  <2> QED BY <2>1, <2>2, <2>3, <2>4, <2>5 DEF Threaded
<1>3. L \in SUBSET Entries
  BY DEF Threads
<1> QED BY <1>2, <1>3 DEF Threads

LEMMA WithEmptyKey ==
  ASSUME NEW K, NEW heads, NEW next, NEW prev, NEW key, NEW M, NEW s \in K,
         Threads(K \ {s}, heads, next, prev, key, M),
         NEW heads2, heads2[s] = NoEntry, \A x \in K : x # s => heads2[x] = heads[x]
  PROVE  Threads(K, heads2, next, prev, key, M)
<1>0. PICK R \in Nat :
        \E r \in [Entries -> 0 .. R] : Threaded(K \ {s}, heads, next, prev, key, M, r)
  BY DEF Threads
<1>1. PICK r \in [Entries -> 0 .. R] : Threaded(K \ {s}, heads, next, prev, key, M, r)
  BY <1>0
<1>2. Threaded(K, heads2, next, prev, key, M, r)
  <2>1. ASSUME NEW b \in K
        PROVE  heads2[b] \in Links /\
               (heads2[b] # NoEntry =>
                  heads2[b] \in M /\ key[heads2[b]] = b /\ prev[heads2[b]] = NoEntry)
    <3>1. CASE b = s
      BY <3>1, NoEntryOut
    <3>2. CASE b # s
      BY <1>1, <3>2 DEF Threaded
    <3> QED BY <3>1, <3>2
  <2>2. \A i \in M : key[i] \in K \ {s} /\ next[i] \in Links /\ prev[i] \in Links
    BY <1>1 DEF Threaded
  <2>3. \A i \in M : prev[i] = NoEntry => heads2[key[i]] = i
    BY <1>1, <2>2 DEF Threaded
  <2>4. \A i \in M : prev[i] # NoEntry =>
          prev[i] \in M /\ next[prev[i]] = i /\ key[prev[i]] = key[i]
    BY <1>1 DEF Threaded
  <2>5. \A i \in M : next[i] # NoEntry =>
          next[i] \in M /\ prev[next[i]] = i /\ key[next[i]] = key[i] /\ r[next[i]] < r[i]
    BY <1>1 DEF Threaded
  <2> QED BY <2>1, <2>2, <2>3, <2>4, <2>5 DEF Threaded
<1>3. M \in SUBSET Entries
  BY DEF Threads
<1> QED BY <1>2, <1>3 DEF Threads

(* A slot freed: the map is whole and nothing hangs on the slot.            *)
LEMMA FreeSlotWhole ==
  ASSUME NEW T, "none" \in T, NEW m \in MapType(T), Whole(m), NEW task \in Int,
         NEW n, n = FreeSlot(m, task)
  PROVE  /\ Whole(n) /\ Shrunk(m, n)
         /\ \A i \in Linked(n) : Slot(n.pool[i].producer) # Slot(task)
<1> DEFINE s == Slot(task)
           M == { i \in Linked(m) : Slot(m.pool[i].producer) # s }
<1>1. s \in Slots /\ s = Slot(task)
  BY SlotType DEF Slots
<1> HIDE DEF s
<1>2. PICK q : q = TaskChain(m, s)
  OBVIOUS
<1>3. Len(q) \in Nat
  BY <1>1, <1>2, FreeSlotWalk
<1>4. PICK f : /\ Freeing(f, m, q, Len(q), MapType(T))
               /\ n = [f[Len(q)] EXCEPT !.task_heads[s] = NoEntry]
  BY <1>1, <1>2, FreeSlotWalk
<1>5. /\ \A j, k \in 1 .. Len(q) : q[j] = q[k] => j = k
      /\ { q[k] : k \in 1 .. Len(q) } = { i \in Linked(m) : Slot(m.pool[i].producer) = s }
  BY <1>1, <1>2, WholeSlot DEF Whole
<1>6. M \subseteq Linked(m) /\ Linked(m) \subseteq Entries
  BY DEF Linked
<1> DEFINE J(x, k) ==
             /\ BucketsWhole(x) /\ FreeWhole(x) /\ Shrunk(m, x)
             /\ SlotsWhole(x, Slots \ {s}, M) /\ x.task_heads = m.task_heads
             /\ Linked(x) = Linked(m) \ { q[j] : j \in 1 .. k }
           S == { k \in 0 .. Len(q) : J(f[k], k) }
<1>7. SlotsWhole(m, Slots \ {s}, M)
  <2> DEFINE next == [i \in Entries |-> m.pool[i].next_in_task]
             prev == [i \in Entries |-> m.pool[i].prev_in_task]
             key == [i \in Entries |-> Slot(m.pool[i].producer)]
  <2>1. Threads(Slots, m.task_heads, next, prev, key, Linked(m))
    BY DEF Whole, SlotsWhole
  <2>2. M = { i \in Linked(m) : key[i] # s }
    BY <1>6
  <2> HIDE DEF next, prev, key, M
  <2>3. Threads(Slots \ {s}, m.task_heads, next, prev, key, M)
    BY <2>1, <2>2, WithoutKey
  <2> QED BY <2>3 DEF SlotsWhole, next, prev, key
<1>8. 0 \in S
  <2>1. f[0] = m /\ 0 \in 0 .. Len(q) /\ 1 .. 0 = {}
    BY <1>3, <1>4 DEF Freeing
  <2>2. Shrunk(m, m)
    BY DEF Shrunk
  <2>3. { q[j] : j \in 1 .. 0 } = {}
    BY <2>1
  <2> HIDE DEF M
  <2>4. J(m, 0)
    BY <1>7, <2>2, <2>3 DEF Whole
  <2> QED BY <2>1, <2>4
<1>9. ASSUME NEW k \in 1 .. Len(q), k - 1 \in S
      PROVE  k \in S
  <2> DEFINE x == f[k - 1]
             y == f[k]
  <2>1. k - 1 \in 0 .. Len(q) /\ k \in 0 .. Len(q)
    BY <1>3
  <2>2. x \in MapType(T) /\ y = tm_free_entry(x, q[k])
    BY <1>4, <2>1 DEF Freeing
  <2>3. J(x, k - 1)
    BY <1>9
  <2> HIDE DEF x, y
  <2>4. q[k] \in Linked(m) /\ Slot(m.pool[q[k]].producer) = s
    BY <1>5
  <2>5. q[k] \in Linked(x)
    <3>1. \A j \in 1 .. k - 1 : j \in 1 .. Len(q) /\ j # k
      BY <1>3
    <3>2. q[k] \notin { q[j] : j \in 1 .. k - 1 }
      BY <1>5, <3>1
    <3> QED BY <2>3, <2>4, <3>2
  <2>6. /\ BucketsWhole(y) /\ FreeWhole(y) /\ Shrunk(x, y)
        /\ Linked(y) = Linked(x) \ {q[k]} /\ y.task_heads = x.task_heads
        /\ \A i \in Linked(y) : /\ y.pool[i].next_in_task = x.pool[i].next_in_task
                                /\ y.pool[i].prev_in_task = x.pool[i].prev_in_task
    BY <2>2, <2>3, <2>5, FreeEntryWhole
  <2>7. Linked(y) = Linked(m) \ { q[j] : j \in 1 .. k }
    <3>1. \A j \in 1 .. k : j = k \/ j \in 1 .. k - 1
      OBVIOUS
    <3>2. 1 .. k - 1 \subseteq 1 .. k /\ k \in 1 .. k
      OBVIOUS
    <3>3. { q[j] : j \in 1 .. k } = { q[j] : j \in 1 .. k - 1 } \cup {q[k]}
      BY <3>1, <3>2
    <3> QED BY <2>3, <2>6, <3>3
  <2>8. Shrunk(m, y)
    BY <2>3, <2>6 DEF Shrunk
  <2>9. SlotsWhole(y, Slots \ {s}, M)
    <3>1. M \subseteq Linked(y)
      <4>1. ASSUME NEW i \in M, NEW j \in 1 .. k
            PROVE  i # q[j]
        <5>1. j \in 1 .. Len(q)
          BY <1>3
        <5> QED BY <1>5, <5>1
      <4> QED BY <1>6, <2>7, <4>1
    <3>2. \A i \in M : /\ y.pool[i].producer = x.pool[i].producer
                       /\ y.pool[i].next_in_task = x.pool[i].next_in_task
                       /\ y.pool[i].prev_in_task = x.pool[i].prev_in_task
      BY <2>6, <3>1 DEF Shrunk
    <3> HIDE DEF M
    <3> QED BY <2>3, <2>6, <3>2, SlotsKept
  <2> HIDE DEF M
  <2>10. J(y, k)
    BY <2>3, <2>6, <2>7, <2>8, <2>9
  <2> QED BY <2>1, <2>10 DEF y
<1> DEFINE x == f[Len(q)]
<1>10. J(x, Len(q))
  <2> HIDE DEF S
  <2>1. 0 .. Len(q) \subseteq S
    BY <1>3, <1>8, <1>9, UpTo
  <2>2. Len(q) \in S
    BY <1>3, <2>1
  <2> QED BY <2>2 DEF S
<1>11. x \in MapType(T) /\ n = [x EXCEPT !.task_heads[s] = NoEntry]
  <2>1. Len(q) \in 0 .. Len(q)
    BY <1>3
  <2> QED BY <1>4, <2>1 DEF Freeing
<1> HIDE DEF x
<1>12. Linked(x) = M
  BY <1>5, <1>10
<1> HIDE DEF M
<1>13. /\ n.pool = x.pool /\ n.buckets = x.buckets /\ n.free_list = x.free_list
       /\ n.next_entry_idx = x.next_entry_idx
       /\ n.last_alive = x.last_alive /\ n.last_cleanup = x.last_cleanup
       /\ n.task_heads = [x.task_heads EXCEPT ![s] = NoEntry]
  BY <1>11 DEF MapType
<1>14. Linked(n) = Linked(x)
  BY <1>13 DEF Linked
<1>15. BucketsWhole(n) /\ FreeWhole(n)
  <2>1. BucketsWhole(n)
    BY <1>10, <1>13, <1>14 DEF BucketsWhole
  <2>2. FreeWhole(n)
    BY <1>10, <1>13, <1>14 DEF FreeWhole
  <2> QED BY <2>1, <2>2
<1>16. SlotsWhole(n, Slots, Linked(n))
  <2> DEFINE next == [i \in Entries |-> x.pool[i].next_in_task]
             prev == [i \in Entries |-> x.pool[i].prev_in_task]
             key == [i \in Entries |-> Slot(x.pool[i].producer)]
  <2>1. Threads(Slots \ {s}, x.task_heads, next, prev, key, M)
    BY <1>10 DEF SlotsWhole
  <2> HIDE DEF next, prev, key
  <2>2. DOMAIN x.task_heads = Slots
    BY <1>11 DEF MapType, Slots
  <2>3. n.task_heads[s] = NoEntry /\ \A z \in Slots : z # s => n.task_heads[z] = x.task_heads[z]
    BY <1>1, <1>13, <2>2
  <2>4. Threads(Slots, n.task_heads, next, prev, key, M)
    BY <1>1, <2>1, <2>3, WithEmptyKey
  <2> QED BY <1>12, <1>13, <1>14, <2>4 DEF SlotsWhole, next, prev, key
<1>17. Shrunk(m, n)
  BY <1>10, <1>13, <1>14 DEF Shrunk
<1>18. \A i \in Linked(n) : Slot(n.pool[i].producer) # s
  BY <1>12, <1>14, <1>17 DEF M, Shrunk
<1> QED BY <1>1, <1>15, <1>16, <1>17, <1>18 DEF Whole

LEMMA ShrunkTwice ==
  ASSUME NEW m, NEW n, NEW x, Shrunk(m, n), Shrunk(n, x)
  PROVE  Shrunk(m, x)
BY DEF Shrunk

(* A sweep leaves only entries whose producers are not retired.             *)
Swept(m, n, alive) ==
  /\ n.last_alive = m.last_alive /\ n.last_cleanup = alive
  /\ \A i \in Linked(n) :
       /\ i \in Linked(m) /\ n.pool[i].producer = m.pool[i].producer
       /\ n.pool[i].producer \notin m.last_cleanup .. alive - 1

LEMMA CleanupWhole ==
  ASSUME NEW T, "none" \in T, NEW m \in MapType(T), Whole(m), NEW alive \in Nat,
         m.last_cleanup <= alive, NEW n, n = tm_cleanup_retired(m, alive)
  PROVE  n \in MapType(T) /\ Whole(n) /\ Swept(m, n, alive)
<1> DEFINE lc == m.last_cleanup
           z == alive - lc
           q == Retired(m, alive)
<1>1. lc \in Nat /\ z \in Nat
  BY DEF MapType
<1>2. PICK f : Sweeping(f, m, q, z, MapType(T)) /\ n = [f[z] EXCEPT !.last_cleanup = alive]
  BY CleanupWalk
<1>3. \A k \in 1 .. z : q[k] = lc + k - 1
  BY <1>1 DEF Retired
<1> HIDE DEF q, z, lc
<1> DEFINE J(x, k) == /\ Whole(x) /\ Shrunk(m, x)
                      /\ \A i \in Linked(x) : \A j \in 0 .. k - 1 :
                           Slot(x.pool[i].producer) # Slot(lc + j)
           S == { k \in 0 .. z : J(f[k], k) }
<1>4. 0 \in S
  <2>1. f[0] = m /\ 0 \in 0 .. z /\ 0 .. 0 - 1 = {}
    BY <1>1, <1>2 DEF Sweeping
  <2>2. Shrunk(m, m)
    BY DEF Shrunk
  <2> QED BY <2>1, <2>2
<1>5. ASSUME NEW k \in 1 .. z, k - 1 \in S
      PROVE  k \in S
  <2> DEFINE x == f[k - 1]
             y == f[k]
  <2>1. k - 1 \in 0 .. z /\ k \in 0 .. z
    BY <1>1
  <2>2. x \in MapType(T) /\ y = FreeSlot(x, q[k])
    BY <1>2, <2>1 DEF Sweeping
  <2>3. J(x, k - 1)
    BY <1>5
  <2>4. q[k] = lc + (k - 1) /\ q[k] \in Int
    BY <1>1, <1>3, <2>1
  <2> HIDE DEF x, y
  <2>5. /\ Whole(y) /\ Shrunk(x, y)
        /\ \A i \in Linked(y) : Slot(y.pool[i].producer) # Slot(q[k])
    BY <2>2, <2>3, <2>4, FreeSlotWhole
  <2>6. Shrunk(m, y)
    BY <2>3, <2>5, ShrunkTwice
  <2>7. ASSUME NEW i \in Linked(y), NEW j \in 0 .. k - 1
        PROVE  Slot(y.pool[i].producer) # Slot(lc + j)
    <3>1. CASE j = k - 1
      BY <2>4, <2>5, <3>1
    <3>2. CASE j # k - 1
      <4>1. j \in 0 .. k - 1 - 1
        BY <3>2
      <4>2. i \in Linked(x) /\ y.pool[i].producer = x.pool[i].producer
        BY <2>5 DEF Shrunk
      <4> QED BY <2>3, <4>1, <4>2
    <3> QED BY <3>1, <3>2
  <2>8. J(y, k)
    BY <2>5, <2>6, <2>7
  <2> QED BY <2>1, <2>8 DEF y
<1> DEFINE x == f[z]
<1>6. J(x, z)
  <2> HIDE DEF S
  <2>1. 0 .. z \subseteq S
    BY <1>1, <1>4, <1>5, UpTo
  <2>2. z \in S
    BY <1>1, <2>1
  <2> QED BY <2>2 DEF S
<1>7. x \in MapType(T) /\ n = [x EXCEPT !.last_cleanup = alive]
  <2>1. z \in 0 .. z
    BY <1>1
  <2> QED BY <1>2, <2>1 DEF Sweeping
<1> HIDE DEF x
<1>8. /\ n.pool = x.pool /\ n.buckets = x.buckets /\ n.free_list = x.free_list
      /\ n.next_entry_idx = x.next_entry_idx /\ n.task_heads = x.task_heads
      /\ n.last_alive = x.last_alive /\ n.last_cleanup = alive /\ n \in MapType(T)
  BY <1>7 DEF MapType
<1>9. Linked(n) = Linked(x)
  BY <1>8 DEF Linked
<1>10. Whole(n)
  <2>1. BucketsWhole(n)
    BY <1>6, <1>8, <1>9 DEF Whole, BucketsWhole
  <2>2. FreeWhole(n)
    BY <1>6, <1>8, <1>9 DEF Whole, FreeWhole
  <2>3. SlotsWhole(n, Slots, Linked(n))
    BY <1>6, <1>8, <1>9 DEF Whole, SlotsWhole
  <2> QED BY <2>1, <2>2, <2>3 DEF Whole
<1>11. ASSUME NEW i \in Linked(n)
       PROVE  /\ i \in Linked(m) /\ n.pool[i].producer = m.pool[i].producer
              /\ n.pool[i].producer \notin lc .. alive - 1
  <2>1. i \in Linked(x) /\ i \in Linked(m) /\ n.pool[i].producer = m.pool[i].producer
    BY <1>6, <1>8, <1>9 DEF Shrunk
  <2>2. ASSUME n.pool[i].producer \in lc .. alive - 1
        PROVE  FALSE
    <3> DEFINE j == n.pool[i].producer - lc
    <3>1. j \in 0 .. z - 1 /\ lc + j = n.pool[i].producer
      BY <1>1, <2>2 DEF z
    <3>2. Slot(x.pool[i].producer) # Slot(lc + j)
      BY <1>6, <2>1, <3>1
    <3> QED BY <1>8, <3>1, <3>2
  <2> QED BY <2>1, <2>2
<1>12. n.last_alive = m.last_alive
  BY <1>6, <1>8 DEF Shrunk
<1> QED BY <1>8, <1>10, <1>11, <1>12 DEF Swept, lc

(* The synchronisation with the watermark: the map stays whole, and either  *)
(* nothing is swept or everything retired is.                               *)
LEMMA SyncWhole ==
  ASSUME NEW T, "none" \in T, NEW m \in MapType(T), Whole(m), NEW alive \in Nat,
         m.last_cleanup <= alive, NEW task \in Int, NEW n, n = tm_sync_tensormap(m, alive, task)
  PROVE  /\ n \in MapType(T) /\ Whole(n) /\ n.last_alive = alive
         /\ \/ /\ Slot(task) # Slot(m.last_cleanup) /\ n.last_cleanup = m.last_cleanup
               /\ n.pool = m.pool
            \/ /\ n.last_cleanup = alive
               /\ \A i \in Linked(n) :
                    /\ i \in Linked(m) /\ n.pool[i].producer = m.pool[i].producer
                    /\ n.pool[i].producer \notin m.last_cleanup .. alive - 1
<1> DEFINE u == [m EXCEPT !.last_alive = alive]
<1>1. /\ u.pool = m.pool /\ u.buckets = m.buckets /\ u.free_list = m.free_list
      /\ u.next_entry_idx = m.next_entry_idx /\ u.task_heads = m.task_heads
      /\ u.last_alive = alive /\ u.last_cleanup = m.last_cleanup /\ u \in MapType(T)
  BY DEF MapType
<1>2. \/ n = tm_cleanup_retired(u, alive)
      \/ n = u /\ Slot(task) # Slot(m.last_cleanup)
  BY DEF tm_sync_tensormap, SlotOverlap
<1> HIDE DEF u
<1>3. Linked(u) = Linked(m)
  BY <1>1 DEF Linked
<1>4. Whole(u)
  <2>1. BucketsWhole(u)
    BY <1>1, <1>3 DEF Whole, BucketsWhole
  <2>2. FreeWhole(u)
    BY <1>1, <1>3 DEF Whole, FreeWhole
  <2>3. SlotsWhole(u, Slots, Linked(u))
    BY <1>1, <1>3 DEF Whole, SlotsWhole
  <2> QED BY <2>1, <2>2, <2>3 DEF Whole
<1>5. CASE n = tm_cleanup_retired(u, alive)
  <2>1. n \in MapType(T) /\ Whole(n) /\ Swept(u, n, alive)
    BY <1>1, <1>4, <1>5, CleanupWhole
  <2> QED BY <1>1, <1>3, <2>1 DEF Swept
<1>6. CASE n = u /\ Slot(task) # Slot(m.last_cleanup)
  BY <1>1, <1>4, <1>6
<1> QED BY <1>2, <1>5, <1>6

(* A visit may take the visited entry out, and no other.                    *)
LEMMA VisitWhole ==
  ASSUME NEW T, NEW s \in FindType(T), Whole(s.map), NEW access,
         NEW i \in Linked(s.map), NEW r, r = Visit(s, access, i)
  PROVE  Whole(r.map) /\ Shrunk(s.map, r.map) /\ Linked(s.map) \ {i} \subseteq Linked(r.map)
<1>1. r.map = s.map \/ r.map = tm_remove(s.map, i)
  BY DEF Visit, tm_collect_on_match
<1>2. CASE r.map = s.map
  BY <1>2 DEF Shrunk
<1>3. CASE r.map = tm_remove(s.map, i)
  <2>1. s.map \in MapType(T)
    BY DEF FindType
  <2> QED BY <1>3, <2>1, RemoveWhole
<1> QED BY <1>1, <1>2, <1>3

(* The walk of a lookup only meets entries that are still linked.           *)
LEMMA LookupTensorWhole ==
  ASSUME NEW T, "none" \in T, NEW s \in FindType(T), Whole(s.map), NEW access, Found(access),
         NEW r, r = tm_lookup_tensor(s, access)
  PROVE  Whole(r.map) /\ Shrunk(s.map, r.map)
<1> DEFINE b == Hash[access[1].addr]
<1>1. b \in Buckets /\ s.map \in MapType(T)
  BY MapConstants DEF Found, Buckets, FindType
<1>2. PICK q : q = BucketChain(s.map, b)
  OBVIOUS
<1>3. Len(q) \in Nat
  BY <1>2, LookupWalk
<1>4. PICK f : Visiting(f, s, q, Len(q), access, FindType(T))
  BY <1>2, LookupWalk
<1>5. /\ \A j, k \in 1 .. Len(q) : q[j] = q[k] => j = k
      /\ \A k \in 1 .. Len(q) : q[k] \in Linked(s.map)
  <2> HIDE DEF b
  <2>1. BucketsWhole(s.map)
    BY DEF Whole
  <2>2. /\ \A j, k \in 1 .. Len(q) : q[j] = q[k] => j = k
        /\ { q[k] : k \in 1 .. Len(q) } = { i \in Linked(s.map) : s.map.pool[i].bucket = b }
    BY <1>1, <1>2, <2>1, WholeBucket
  <2> QED BY <2>2
<1> HIDE DEF b
<1> DEFINE J(x, k) == /\ Whole(x.map) /\ Shrunk(s.map, x.map)
                      /\ \A j \in k + 1 .. Len(q) : q[j] \in Linked(x.map)
           S == { k \in 0 .. Len(q) : J(f[k], k) }
<1>6. 0 \in S
  <2>1. f[0] = s /\ 0 \in 0 .. Len(q) /\ 0 + 1 = 1
    BY <1>3, <1>4 DEF Visiting
  <2>2. Shrunk(s.map, s.map)
    BY DEF Shrunk
  <2>3. J(s, 0)
    BY <1>5, <2>1, <2>2
  <2> QED BY <2>1, <2>3
<1>7. ASSUME NEW k \in 1 .. Len(q), k - 1 \in S
      PROVE  k \in S
  <2> DEFINE x == f[k - 1]
             y == f[k]
  <2>1. k - 1 \in 0 .. Len(q) /\ k \in 0 .. Len(q) /\ k \in k - 1 + 1 .. Len(q)
    BY <1>3
  <2>2. x \in FindType(T) /\ y = Visit(x, access, q[k])
    BY <1>4, <2>1 DEF Visiting
  <2>3. J(x, k - 1)
    BY <1>7
  <2> HIDE DEF x, y
  <2>4. q[k] \in Linked(x.map)
    BY <2>1, <2>3
  <2>5. Whole(y.map) /\ Shrunk(x.map, y.map) /\ Linked(x.map) \ {q[k]} \subseteq Linked(y.map)
    BY <2>2, <2>3, <2>4, VisitWhole
  <2>6. Shrunk(s.map, y.map)
    BY <2>3, <2>5, ShrunkTwice
  <2>7. ASSUME NEW j \in k + 1 .. Len(q)
        PROVE  q[j] \in Linked(y.map)
    <3>1. j \in k - 1 + 1 .. Len(q) /\ j \in 1 .. Len(q) /\ j # k
      BY <1>3
    <3> QED BY <1>5, <2>3, <2>5, <3>1
  <2>8. J(y, k)
    BY <2>5, <2>6, <2>7
  <2> QED BY <2>1, <2>8 DEF y
<1>8. Len(q) \in S
  <2> HIDE DEF S
  <2>1. 0 .. Len(q) \subseteq S
    BY <1>3, <1>6, <1>7, UpTo
  <2> QED BY <1>3, <2>1
<1>9. r = f[Len(q)]
  BY <1>4 DEF Visiting
<1> QED BY <1>8, <1>9

(* The lookups of a task.                                                   *)
LEMMA LookupAllWhole ==
  ASSUME NEW T, "none" \in T, NEW m \in MapType(T), Whole(m), NEW q, Accesses(q),
         NEW r, r = LookupAll(m, q)
  PROVE  Whole(r.map) /\ Shrunk(m, r.map)
<1> DEFINE b == [map |-> m, found |-> <<>>, lost |-> FALSE]
<1>1. PICK f : LookingUp(f, b, q, Len(q), m, FindType(T))
  BY LookupLoop
<1>2. Len(q) \in Nat /\ \A k \in 1 .. Len(q) : Found(q[k])
  BY DEF Accesses
<1>3. b.map = m
  OBVIOUS
<1> HIDE DEF b
<1> DEFINE J(x) == Whole(x.map) /\ Shrunk(m, x.map)
           S == { k \in 0 .. Len(q) : J(f[k]) }
<1>4. 0 \in S
  <2>1. f[0] = b /\ 0 \in 0 .. Len(q)
    BY <1>1, <1>2 DEF LookingUp
  <2> QED BY <1>3, <2>1 DEF Shrunk
<1>5. ASSUME NEW k \in 1 .. Len(q), k - 1 \in S
      PROVE  k \in S
  <2> DEFINE x == f[k - 1]
             y == f[k]
  <2>1. k - 1 \in 0 .. Len(q) /\ k \in 0 .. Len(q)
    BY <1>2
  <2>2. x \in FindType(T) /\ y = LookupOne(x, q[k])
    BY <1>1, <2>1 DEF LookingUp
  <2>3. J(x)
    BY <1>5
  <2> HIDE DEF x, y
  <2>4. CASE y = x
    BY <2>1, <2>3, <2>4 DEF y
  <2>5. CASE y = tm_lookup_tensor(x, q[k])
    <3>1. Whole(y.map) /\ Shrunk(x.map, y.map)
      BY <1>2, <2>2, <2>3, <2>5, LookupTensorWhole
    <3>2. Shrunk(m, y.map)
      BY <2>3, <3>1, ShrunkTwice
    <3> QED BY <2>1, <3>1, <3>2 DEF y
  <2> QED BY <2>2, <2>4, <2>5 DEF LookupOne
<1>6. Len(q) \in S
  <2> HIDE DEF S
  <2>1. 0 .. Len(q) \subseteq S
    BY <1>2, <1>4, <1>5, UpTo
  <2> QED BY <1>2, <2>1
<1>7. r = f[Len(q)]
  BY <1>1 DEF LookingUp
<1> QED BY <1>6, <1>7

(* The insertions of a task.                                                *)
Grown(m, n, task) ==
  /\ n.last_alive = m.last_alive /\ n.last_cleanup = m.last_cleanup
  /\ \A i \in Linked(n) :
       n.pool[i].producer = task \/ (i \in Linked(m) /\ n.pool[i].producer = m.pool[i].producer)

LEMMA InsertAllWhole ==
  ASSUME NEW T, NEW m \in MapType(T), Whole(m), NEW q, Len(q) \in Nat, DOMAIN q = 1 .. Len(q),
         \A k \in 1 .. Len(q) : Fits(q[k][1], T), NEW task \in Int, NEW n, n = InsertAll(m, q, task)
  PROVE  Whole(n) /\ Grown(m, n, task)
<1>1. \A a \in MapType(T) : \A k \in 1 .. Len(q) : InsertOne(a, q[k], task) \in MapType(T)
  BY InsertType
<1>2. PICK f : Inserting(f, m, q, Len(q), task, MapType(T))
  BY <1>1, InsertFold
<1> DEFINE J(x) == Whole(x) /\ Grown(m, x, task)
           S == { k \in 0 .. Len(q) : J(f[k]) }
<1>3. 0 \in S
  <2>1. f[0] = m /\ 0 \in 0 .. Len(q)
    BY <1>2 DEF Inserting
  <2> QED BY <2>1 DEF Grown
<1>4. ASSUME NEW k \in 1 .. Len(q), k - 1 \in S
      PROVE  k \in S
  <2> DEFINE x == f[k - 1]
             y == f[k]
  <2>1. k - 1 \in 0 .. Len(q) /\ k \in 0 .. Len(q)
    BY <1>2
  <2>2. x \in MapType(T) /\ y = InsertOne(x, q[k], task)
    BY <1>2, <2>1 DEF Inserting
  <2>3. J(x)
    BY <1>4
  <2> HIDE DEF x, y
  <2>4. CASE y = x
    BY <2>1, <2>3, <2>4 DEF y
  <2>5. CASE NewEntry(x) # NoEntry /\ y = tm_insert_tensor(x, q[k][1], task)
    <3>1. /\ Whole(y) /\ y.last_alive = x.last_alive /\ y.last_cleanup = x.last_cleanup
          /\ \A i \in Linked(y) :
               y.pool[i].producer = task \/ (i \in Linked(x) /\ y.pool[i].producer = x.pool[i].producer)
      BY <2>2, <2>3, <2>5, InsertTensorWhole
    <3>2. Grown(m, y, task)
      BY <2>3, <3>1 DEF Grown
    <3> QED BY <2>1, <3>1, <3>2 DEF y
  <2> QED BY <2>2, <2>4, <2>5 DEF InsertOne, tm_insert_tensor
<1>5. Len(q) \in S
  <2> HIDE DEF S
  <2>1. 0 .. Len(q) \subseteq S
    BY <1>3, <1>4, UpTo
  <2> QED BY <2>1
<1>6. n = f[Len(q)]
  BY <1>2 DEF Inserting
<1> QED BY <1>5, <1>6

(* Tasks fewer than the window apart have slots of their own; a window apart *)
(* they share one.                                                         *)
LEMMA SlotDistinct ==
  ASSUME NEW s \in Nat, NEW t \in Nat, s < t, t - s < TaskWindow
  PROVE  Slot(s) # Slot(t)
<1> DEFINE R == TaskWindow
           a == s \div R
           b == t \div R
<1>1. R \in Nat /\ R > 0
  BY MapConstants
<1> HIDE DEF R
<1>2. /\ s = R * a + (s % R) /\ t = R * b + (t % R)
      /\ a \in Int /\ b \in Int /\ s % R \in Int /\ t % R \in Int
  BY <1>1
<1> HIDE DEF a, b
<1>3. ASSUME s % R = t % R
      PROVE  FALSE
  <2>1. t - s = R * (b - a)
    BY <1>1, <1>2, <1>3
  <2>2. b - a > 0
    <3>1. CASE b - a <= 0
      <4>1. R * (b - a) <= 0
        BY <1>1, <1>2, <3>1
      <4> QED BY <2>1, <4>1
    <3> QED BY <1>2, <3>1
  <2>3. R * (b - a) >= R
    BY <1>1, <1>2, <2>2
  <2> QED BY <1>1, <2>1, <2>3 DEF R
<1> QED BY <1>3 DEF Slot, R

LEMMA SlotWraps ==
  ASSUME NEW s \in Nat
  PROVE  Slot(s + TaskWindow) = Slot(s)
<1> DEFINE R == TaskWindow
           t == s + R
           a == s \div R
           b == t \div R
           c == s % R
           d == t % R
<1>1. R \in Nat /\ R > 0
  BY MapConstants
<1> HIDE DEF R
<1>2. t = s + R /\ t \in Nat
  BY <1>1
<1>3. Slot(s + TaskWindow) = d /\ Slot(s) = c
  BY DEF Slot, R
<1> HIDE DEF t
<1>4. /\ s = R * a + c /\ t = R * b + d
      /\ a \in Int /\ b \in Int /\ c \in 0 .. R - 1 /\ d \in 0 .. R - 1
  BY <1>1, <1>2
<1> HIDE DEF a, b, c, d
<1>5. d - c = R * (a + 1 - b)
  BY <1>1, <1>2, <1>4
<1>6. a + 1 - b = 0
  <2>1. CASE a + 1 - b >= 1
    <3>1. R * (a + 1 - b) >= R
      BY <1>1, <1>4, <2>1
    <3> QED BY <1>1, <1>4, <1>5, <3>1
  <2>2. CASE a + 1 - b <= -1
    <3>1. R * (a + 1 - b) <= -R
      <4>1. R * (b - a - 1) >= R
        BY <1>1, <1>4, <2>2
      <4>2. R * (a + 1 - b) = -(R * (b - a - 1))
        BY <1>1, <1>4
      <4> QED BY <1>1, <1>4, <4>1, <4>2
    <3> QED BY <1>1, <1>4, <1>5, <3>1
  <2> QED BY <1>4, <2>1, <2>2
<1>7. R * 0 = 0
  BY <1>1
<1> QED BY <1>3, <1>4, <1>5, <1>6, <1>7

(* The empty map is whole.                                                  *)
LEMMA InitWhole == Whole(tm_init) /\ Linked(tm_init) = {}
<1> DEFINE m == tm_init
<1>1. /\ m.pool = [i \in Entries |-> Unlinked]
      /\ m.buckets = [b \in 0 .. NumBuckets - 1 |-> NoEntry]
      /\ m.task_heads = [s \in 0 .. TaskWindow - 1 |-> NoEntry]
      /\ m.free_list = <<>> /\ m.next_entry_idx = 0
  BY DEF tm_init
<1> HIDE DEF m
<1>2. Linked(m) = {}
  <2>1. \A i \in Entries : m.pool[i].bucket = -1
    BY <1>1 DEF Unlinked
  <2> QED BY <2>1 DEF Linked
<1>3. ASSUME NEW K, NEW heads, \A b \in K : heads[b] = NoEntry,
             NEW next, NEW prev, NEW key
      PROVE  Threads(K, heads, next, prev, key, {})
  <2> DEFINE r == [i \in Entries |-> 0]
  <2>1. r \in [Entries -> 0 .. 0] /\ 0 \in Nat
    OBVIOUS
  <2> HIDE DEF r
  <2>2. Threaded(K, heads, next, prev, key, {}, r)
    BY <1>3, NoEntryOut DEF Threaded
  <2> QED BY <2>1, <2>2 DEF Threads
<1>4. \A b \in Buckets : m.buckets[b] = NoEntry
  BY <1>1 DEF Buckets
<1>5. \A s \in Slots : m.task_heads[s] = NoEntry
  BY <1>1 DEF Slots
<1>6. BucketsWhole(m)
  BY <1>2, <1>3, <1>4 DEF BucketsWhole
<1>7. SlotsWhole(m, Slots, Linked(m))
  BY <1>2, <1>3, <1>5 DEF SlotsWhole
<1>8. FreeWhole(m)
  <2>1. Len(<<>>) = 0 /\ 1 .. 0 = {} /\ 0 .. 0 - 1 = {}
    OBVIOUS
  <2> QED BY <1>1, <1>2, <2>1 DEF FreeWhole, FreeStack
<1> QED BY <1>2, <1>6, <1>7, <1>8 DEF Whole, m
=============================================================================
