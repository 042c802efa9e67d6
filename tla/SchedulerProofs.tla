-------------------------- MODULE SchedulerProofs --------------------------
(***************************************************************************)
(* The inductive invariant of the scheduler proxy holds, and what follows  *)
(* from it: no core is given a second task, no task is released or run     *)
(* twice or before its predecessors ran, and none is forgotten.  First     *)
(* come lemmas about the operators: what a painter's round, an iteration   *)
(* over lists, does to its tables.  The induction over a list is that over *)
(* the natural numbers, in the form that every non-empty set of them has a *)
(* least element.                                                          *)
(***************************************************************************)
EXTENDS SchedulerInv, FiniteSetTheorems, SequenceTheorems, WellFoundedInduction, TLAPS

----------------------------------------------------------------------------
(* Induction and recursion.                                                 *)

LessNat == { m \in Nat \X Nat : m[1] < m[2] }

\* The order of the natural numbers is well founded.
LEMMA LessNatWF == IsWellFoundedOn(LessNat, Nat)
<1>1. IsWellFoundedOn({ m \in Nat \X Nat : m[1] < m[2] }, Nat)
  BY NatLessThanWellFounded, Zenon DEF OpToRel
<1> QED
  BY <1>1 DEF LessNat

\* A set with 0 and the successor of each of its numbers holds them all.
LEMMA NatSetInduction ==
  ASSUME NEW S, 0 \in S, \A n \in Nat : n \in S => n + 1 \in S
  PROVE  Nat \subseteq S
<1> DEFINE T == Nat \ S
<1>1. SUFFICES ASSUME T # {} PROVE FALSE
  OBVIOUS
<1>2. T \subseteq Nat
  OBVIOUS
<1> HIDE DEF T
<1>3. PICK x \in T : \A y \in T : ~ (<<y, x>> \in LessNat)
  BY <1>1, LessNatWF, <1>2, WFMin
<1>4. x \in Nat /\ x \notin S /\ x # 0
  BY DEF T
<1>5. x - 1 \in Nat /\ x - 1 < x
  BY <1>4
<1>6. x - 1 \in T
  BY <1>4, <1>5 DEF T
<1>7. <<x - 1, x>> \in LessNat
  BY <1>4, <1>5 DEF LessNat
<1> QED
  BY <1>3, <1>6, <1>7

\* The steps G, taken from the sets of the family S, lead from each of them to the next.
Leads(G, S, n) == \A k \in 1 .. n : \A a \in S[k - 1] : G[k][a] \in S[k]

\* Function f runs through the steps G from b, and through the sets of S.
Runs(f, b, G, S, n) ==
    f[0] = b /\ (\A k \in 1 .. n : f[k] = G[k][f[k - 1]]) /\ (\A k \in 0 .. n : f[k] \in S[k])

\* There is such a function whenever the steps lead through the family.
LEMMA Recursion ==
  ASSUME NEW n \in Nat, NEW U, NEW S \in [0 .. n -> SUBSET U], NEW G, NEW b \in S[0],
         Leads(G, S, n)
  PROVE  \E f \in [0 .. n -> U] : Runs(f, b, G, S, n)
<1> DEFINE I == { m \in Nat : m <= n => \E f \in [0 .. m -> U] : Runs(f, b, G, S, m) }
<1>1. 0 \in I
  <2> DEFINE f == [k \in 0 .. 0 |-> b]
  <2>1. f \in [0 .. 0 -> U]
    OBVIOUS
  <2>2. Runs(f, b, G, S, 0)
    BY DEF Runs
  <2> HIDE DEF f
  <2> QED
    BY <2>1, <2>2
<1>2. ASSUME NEW m \in Nat, m \in I, m + 1 <= n
      PROVE  \E f \in [0 .. m + 1 -> U] : Runs(f, b, G, S, m + 1)
  <2>1. m <= n
    BY <1>2
  <2>2. PICK f \in [0 .. m -> U] : Runs(f, b, G, S, m)
    BY <1>2, <2>1
  <2> DEFINE g == [k \in 0 .. m + 1 |-> IF k = m + 1 THEN G[m + 1][f[m]] ELSE f[k]]
  <2>3. G[m + 1][f[m]] \in S[m + 1]
    <3>1. m + 1 \in 1 .. n /\ (m + 1) - 1 = m /\ f[m] \in S[m]
      BY <1>2, <2>2 DEF Runs
    <3> QED
      BY <3>1 DEF Leads
  <2>4. g \in [0 .. m + 1 -> U]
    BY <1>2, <2>3
  <2>5. ASSUME NEW k \in 1 .. m + 1
        PROVE  g[k] = G[k][g[k - 1]]
    <3>1. CASE k = m + 1
      BY <3>1
    <3>2. CASE k # m + 1
      <4>1. k \in 1 .. m /\ k - 1 \in 0 .. m
        BY <3>2
      <4> QED
        BY <4>1, <2>2 DEF Runs
    <3> QED
      BY <3>1, <3>2
  <2>6. \A k \in 0 .. m + 1 : g[k] \in S[k]
    BY <2>2, <2>3 DEF Runs
  <2>7. g[0] = b
    BY <2>2 DEF Runs
  <2> HIDE DEF g
  <2>8. Runs(g, b, G, S, m + 1)
    BY <2>5, <2>6, <2>7 DEF Runs
  <2> QED
    BY <2>4, <2>8
<1>3. \A m \in Nat : m \in I => m + 1 \in I
  BY <1>2
<1> HIDE DEF I
<1>4. n \in I
  BY <1>1, <1>3, NatSetInduction
<1> QED
  BY <1>4 DEF I

TableSet == [ cnt : [Tasks -> Nat], commit : Nat, done : SUBSET Tasks,
              successors : [Tasks -> Seq(Tasks)], ready : [Types -> Seq(Tasks)] ]

\* Counting down one successor after the other stays in a family of sets of tables when
\* each step does.
LEMMA IterateCountdown ==
  ASSUME NEW q \in Seq(Tasks), NEW S \in [0 .. Len(q) -> SUBSET TableSet], NEW s \in S[0],
         \A k \in 1 .. Len(q) : \A a \in S[k - 1] : Countdown(a, q[k]) \in S[k]
  PROVE  Iterate(Countdown, s, q) \in S[Len(q)]
<1> DEFINE n == Len(q)
           G == [k \in 1 .. n |-> [a \in S[k - 1] |-> Countdown(a, q[k])]]
           E(h) == h = [k \in 0 .. n |-> IF k = 0 THEN s ELSE Countdown(h[k - 1], q[k])]
<1>0. n \in Nat
  OBVIOUS
<1>1. \A k \in 1 .. n : \A a \in S[k - 1] : G[k][a] = Countdown(a, q[k])
  OBVIOUS
<1>2. PICK f \in [0 .. n -> TableSet] : Runs(f, s, G, S, n)
  <2>1. Leads(G, S, n)
    BY <1>1 DEF Leads
  <2>2. S \in [0 .. n -> SUBSET TableSet]
    OBVIOUS
  <2> HIDE DEF G, n
  <2> QED
    BY <1>0, <2>1, <2>2, Recursion
<1>3. f[0] = s /\ \A k \in 1 .. n : f[k] = Countdown(f[k - 1], q[k])
  <2>0. f[0] = s
    BY <1>2 DEF Runs
  <2> SUFFICES ASSUME NEW k \in 1 .. n PROVE f[k] = Countdown(f[k - 1], q[k])
    BY <2>0
  <2>1. f[k - 1] \in S[k - 1]
    BY <1>0, <1>2 DEF Runs
  <2> HIDE DEF G
  <2> QED
    BY <1>1, <1>2, <2>1 DEF Runs
<1>4. E(f)
  BY <1>0, <1>3
<1>5. ASSUME NEW h, E(h)
      PROVE  h[n] = f[n]
  <2> DEFINE I == { m \in Nat : m <= n => h[m] = f[m] }
  <2>1. 0 \in I
    BY <1>0, <1>3, <1>5
  <2>2. ASSUME NEW m \in Nat, m \in I, m + 1 <= n
        PROVE  h[m + 1] = f[m + 1]
    <3>1. m + 1 \in 1 .. n /\ m + 1 \in 0 .. n /\ (m + 1) - 1 = m /\ m + 1 # 0
      BY <1>0, <2>2
    <3>2. h[m] = f[m]
      BY <1>0, <2>2
    <3>3. h[m + 1] = Countdown(h[m], q[m + 1])
      BY <1>5, <3>1
    <3>4. f[m + 1] = Countdown(f[m], q[m + 1])
      BY <1>3, <3>1
    <3> QED
      BY <3>2, <3>3, <3>4
  <2>3. \A m \in Nat : m \in I => m + 1 \in I
    BY <1>0, <2>2
  <2> HIDE DEF I
  <2>4. n \in I
    BY <1>0, <2>1, <2>3, NatSetInduction
  <2> QED
    BY <1>0, <2>4 DEF I
<1>6. Iterate(Countdown, s, q) = (CHOOSE h : E(h))[n]
  BY Zenon DEF Iterate
<1> HIDE DEF E
<1>7. E(CHOOSE h : E(h))
  BY <1>4
<1>8. Iterate(Countdown, s, q) = f[n]
  BY <1>5, <1>6, <1>7
<1> QED
  BY <1>0, <1>2, <1>8 DEF Runs
\* So does counting down for one completed task after the other,
LEMMA IterateCountSuccessors ==
  ASSUME NEW q \in Seq(Tasks), NEW S \in [0 .. Len(q) -> SUBSET TableSet], NEW s \in S[0],
         \A k \in 1 .. Len(q) : \A a \in S[k - 1] : CountSuccessors(a, q[k]) \in S[k]
  PROVE  Iterate(CountSuccessors, s, q) \in S[Len(q)]
<1> DEFINE n == Len(q)
           G == [k \in 1 .. n |-> [a \in S[k - 1] |-> CountSuccessors(a, q[k])]]
           E(h) == h = [k \in 0 .. n |-> IF k = 0 THEN s ELSE CountSuccessors(h[k - 1], q[k])]
<1>0. n \in Nat
  OBVIOUS
<1>1. \A k \in 1 .. n : \A a \in S[k - 1] : G[k][a] = CountSuccessors(a, q[k])
  OBVIOUS
<1>2. PICK f \in [0 .. n -> TableSet] : Runs(f, s, G, S, n)
  <2>1. Leads(G, S, n)
    BY <1>1 DEF Leads
  <2>2. S \in [0 .. n -> SUBSET TableSet]
    OBVIOUS
  <2> HIDE DEF G, n
  <2> QED
    BY <1>0, <2>1, <2>2, Recursion
<1>3. f[0] = s /\ \A k \in 1 .. n : f[k] = CountSuccessors(f[k - 1], q[k])
  <2>0. f[0] = s
    BY <1>2 DEF Runs
  <2> SUFFICES ASSUME NEW k \in 1 .. n PROVE f[k] = CountSuccessors(f[k - 1], q[k])
    BY <2>0
  <2>1. f[k - 1] \in S[k - 1]
    BY <1>0, <1>2 DEF Runs
  <2> HIDE DEF G
  <2> QED
    BY <1>1, <1>2, <2>1 DEF Runs
<1>4. E(f)
  BY <1>0, <1>3
<1>5. ASSUME NEW h, E(h)
      PROVE  h[n] = f[n]
  <2> DEFINE I == { m \in Nat : m <= n => h[m] = f[m] }
  <2>1. 0 \in I
    BY <1>0, <1>3, <1>5
  <2>2. ASSUME NEW m \in Nat, m \in I, m + 1 <= n
        PROVE  h[m + 1] = f[m + 1]
    <3>1. m + 1 \in 1 .. n /\ m + 1 \in 0 .. n /\ (m + 1) - 1 = m /\ m + 1 # 0
      BY <1>0, <2>2
    <3>2. h[m] = f[m]
      BY <1>0, <2>2
    <3>3. h[m + 1] = CountSuccessors(h[m], q[m + 1])
      BY <1>5, <3>1
    <3>4. f[m + 1] = CountSuccessors(f[m], q[m + 1])
      BY <1>3, <3>1
    <3> QED
      BY <3>2, <3>3, <3>4
  <2>3. \A m \in Nat : m \in I => m + 1 \in I
    BY <1>0, <2>2
  <2> HIDE DEF I
  <2>4. n \in I
    BY <1>0, <2>1, <2>3, NatSetInduction
  <2> QED
    BY <1>0, <2>4 DEF I
<1>6. Iterate(CountSuccessors, s, q) = (CHOOSE h : E(h))[n]
  BY Zenon DEF Iterate
<1> HIDE DEF E
<1>7. E(CHOOSE h : E(h))
  BY <1>4
<1>8. Iterate(CountSuccessors, s, q) = f[n]
  BY <1>5, <1>6, <1>7
<1> QED
  BY <1>0, <1>2, <1>8 DEF Runs
\* and committing one task after the other.
LEMMA IterateCommitOne ==
  ASSUME NEW q \in Seq(Records), NEW S \in [0 .. Len(q) -> SUBSET TableSet], NEW s \in S[0],
         \A k \in 1 .. Len(q) : \A a \in S[k - 1] : CommitOne(a, q[k]) \in S[k]
  PROVE  Iterate(CommitOne, s, q) \in S[Len(q)]
<1> DEFINE n == Len(q)
           G == [k \in 1 .. n |-> [a \in S[k - 1] |-> CommitOne(a, q[k])]]
           E(h) == h = [k \in 0 .. n |-> IF k = 0 THEN s ELSE CommitOne(h[k - 1], q[k])]
<1>0. n \in Nat
  OBVIOUS
<1>1. \A k \in 1 .. n : \A a \in S[k - 1] : G[k][a] = CommitOne(a, q[k])
  OBVIOUS
<1>2. PICK f \in [0 .. n -> TableSet] : Runs(f, s, G, S, n)
  <2>1. Leads(G, S, n)
    BY <1>1 DEF Leads
  <2>2. S \in [0 .. n -> SUBSET TableSet]
    OBVIOUS
  <2> HIDE DEF G, n
  <2> QED
    BY <1>0, <2>1, <2>2, Recursion
<1>3. f[0] = s /\ \A k \in 1 .. n : f[k] = CommitOne(f[k - 1], q[k])
  <2>0. f[0] = s
    BY <1>2 DEF Runs
  <2> SUFFICES ASSUME NEW k \in 1 .. n PROVE f[k] = CommitOne(f[k - 1], q[k])
    BY <2>0
  <2>1. f[k - 1] \in S[k - 1]
    BY <1>0, <1>2 DEF Runs
  <2> HIDE DEF G
  <2> QED
    BY <1>1, <1>2, <2>1 DEF Runs
<1>4. E(f)
  BY <1>0, <1>3
<1>5. ASSUME NEW h, E(h)
      PROVE  h[n] = f[n]
  <2> DEFINE I == { m \in Nat : m <= n => h[m] = f[m] }
  <2>1. 0 \in I
    BY <1>0, <1>3, <1>5
  <2>2. ASSUME NEW m \in Nat, m \in I, m + 1 <= n
        PROVE  h[m + 1] = f[m + 1]
    <3>1. m + 1 \in 1 .. n /\ m + 1 \in 0 .. n /\ (m + 1) - 1 = m /\ m + 1 # 0
      BY <1>0, <2>2
    <3>2. h[m] = f[m]
      BY <1>0, <2>2
    <3>3. h[m + 1] = CommitOne(h[m], q[m + 1])
      BY <1>5, <3>1
    <3>4. f[m + 1] = CommitOne(f[m], q[m + 1])
      BY <1>3, <3>1
    <3> QED
      BY <3>2, <3>3, <3>4
  <2>3. \A m \in Nat : m \in I => m + 1 \in I
    BY <1>0, <2>2
  <2> HIDE DEF I
  <2>4. n \in I
    BY <1>0, <2>1, <2>3, NatSetInduction
  <2> QED
    BY <1>0, <2>4 DEF I
<1>6. Iterate(CommitOne, s, q) = (CHOOSE h : E(h))[n]
  BY Zenon DEF Iterate
<1> HIDE DEF E
<1>7. E(CHOOSE h : E(h))
  BY <1>4
<1>8. Iterate(CommitOne, s, q) = f[n]
  BY <1>5, <1>6, <1>7
<1> QED
  BY <1>0, <1>2, <1>8 DEF Runs
----------------------------------------------------------------------------
(* Lists and the task graph.                                                *)

\* Appending a new element keeps the elements of a list different.
LEMMA AppendFacts ==
  ASSUME NEW T, NEW q \in Seq(T), NEW t \in T
  PROVE  /\ Append(q, t) \in Seq(T)
         /\ Range(Append(q, t)) = Range(q) \cup {t}
         /\ IsInjective(q) /\ t \notin Range(q) => IsInjective(Append(q, t))
<1> DEFINE n == Len(q)
           a == Append(q, t)
<1>1. a \in Seq(T) /\ Len(a) = n + 1 /\ DOMAIN a = 1 .. n + 1 /\ DOMAIN q = 1 .. n /\ n \in Nat
  OBVIOUS
<1>2. a[n + 1] = t /\ \A k \in 1 .. n : a[k] = q[k]
  OBVIOUS
<1> HIDE DEF a, n
<1>3. Range(a) = Range(q) \cup {t}
  <2>1. ASSUME NEW x \in Range(a)
        PROVE  x \in Range(q) \cup {t}
    <3>1. PICK k \in 1 .. n + 1 : x = a[k]
      BY <1>1, <2>1 DEF Range
    <3> QED
      BY <1>1, <1>2, <3>1 DEF Range
  <2>2. ASSUME NEW x \in Range(q)
        PROVE  x \in Range(a)
    <3>1. PICK k \in 1 .. n : x = q[k]
      BY <1>1, <2>2 DEF Range
    <3> QED
      BY <1>1, <1>2, <3>1 DEF Range
  <2>3. t \in Range(a)
    <3>1. n + 1 \in 1 .. n + 1
      BY <1>1
    <3> QED
      BY <1>1, <1>2, <3>1 DEF Range
  <2> QED
    BY <2>1, <2>2, <2>3
<1>4. ASSUME IsInjective(q), t \notin Range(q)
      PROVE  IsInjective(a)
  <2> SUFFICES ASSUME NEW j \in 1 .. n + 1, NEW k \in 1 .. n + 1, a[j] = a[k]
               PROVE  j = k
    BY <1>1 DEF IsInjective
  <2>1. \A i \in 1 .. n : q[i] # t
    BY <1>1, <1>4 DEF Range
  <2> QED
    BY <1>1, <1>2, <1>4, <2>1 DEF IsInjective
<1> QED
  BY <1>1, <1>3, <1>4 DEF a

\* The image of a finite set is finite and not larger.
LEMMA ImageFacts ==
  ASSUME NEW S, IsFiniteSet(S), NEW f
  PROVE  IsFiniteSet({ f[x] : x \in S }) /\ Cardinality({ f[x] : x \in S }) <= Cardinality(S)
<1> DEFINE T == { f[x] : x \in S }
           g == [x \in S |-> f[x]]
<1>1. g \in Surjection(S, T)
  BY DEF Surjection
<1> QED
  BY <1>1, FS_Surjection

\* A record names its task, and the tables over tasks repeat what it says.
LEMMA RecordFacts ==
  ASSUME NEW p \in Painters, NEW k \in 1 .. Len(test_graph[p])
  PROVE  LET r == test_graph[p][k]
         IN /\ r \in Records /\ r.id \in Nat \cap Tasks /\ r.type \in Types
            /\ r.predecessors \in Seq(Nat)
            /\ TypeOf[r.id] = r.type /\ PredsOf[r.id] = Range(r.predecessors)
            /\ Range(r.predecessors) \subseteq Tasks
<1> DEFINE r == test_graph[p][k]
           T == [id : Nat, type : Types, predecessors : Seq(Nat)]
<1>1. test_graph[p] \in Seq(T)
  BY GraphAssumption
<1>2. k \in DOMAIN test_graph[p] /\ r \in T
  <2> HIDE DEF T
  <2> QED
    BY <1>1
<1>3. r \in Records
  BY <1>2 DEF Records, Range
<1>4. r.id \in Tasks
  BY <1>3 DEF Tasks
<1>5. ASSUME NEW q \in Records, q.id = r.id
      PROVE  q = r
  <2>1. PICK o \in Painters : q \in Range(test_graph[o])
    BY DEF Records
  <2>2. PICK j \in DOMAIN test_graph[o] : q = test_graph[o][j]
    BY <2>1 DEF Range
  <2>3. \A j1 \in DOMAIN test_graph[o], k1 \in DOMAIN test_graph[p] :
          test_graph[o][j1].id = test_graph[p][k1].id => o = p /\ j1 = k1
    BY GraphAssumption
  <2> HIDE DEF T
  <2> QED
    BY <1>2, <1>5, <2>2, <2>3
<1>6. (CHOOSE q \in Records : q.id = r.id) = r
  BY <1>3, <1>5
<1>7. TypeOf[r.id] = r.type
  BY <1>4, <1>6 DEF TypeOf
<1>8. PredsOf[r.id] = Range(r.predecessors)
  BY <1>4, <1>6 DEF PredsOf
<1> QED
  BY <1>2, <1>3, <1>4, <1>7, <1>8, GraphAssumption

\* Every task is in one subgraph, and there are finitely many.
LEMMA TaskFacts ==
  /\ Tasks \subseteq Nat /\ 0 \in Tasks /\ IsFiniteSet(Tasks)
  /\ TypeOf \in [Tasks -> Types] /\ PredsOf \in [Tasks -> SUBSET Tasks]
  /\ CntWidth \in Nat \ {0}
  /\ \A t \in Tasks : \E p \in Painters : t \in Own(p)
<1>1. \A p \in Painters : test_graph[p] \in Seq([id : Nat, type : Types, predecessors : Seq(Nat)])
  BY GraphAssumption
<1>2. ASSUME NEW t \in Tasks
      PROVE  \E p \in Painters : \E k \in 1 .. Len(test_graph[p]) : test_graph[p][k].id = t
  <2>1. PICK r \in Records : r.id = t
    BY DEF Tasks
  <2>2. PICK p \in Painters : r \in Range(test_graph[p])
    BY DEF Records
  <2>3. DOMAIN test_graph[p] = 1 .. Len(test_graph[p])
    BY <1>1
  <2> QED
    BY <2>1, <2>2, <2>3 DEF Range
<1>3. ASSUME NEW t \in Tasks
      PROVE  t \in Nat /\ TypeOf[t] \in Types /\ PredsOf[t] \subseteq Tasks
  <2>0. PICK p \in Painters : \E k \in 1 .. Len(test_graph[p]) : test_graph[p][k].id = t
    BY <1>2
  <2>1. PICK k \in 1 .. Len(test_graph[p]) : test_graph[p][k].id = t
    BY <2>0
  <2>2. t \in Nat
    BY <2>1, RecordFacts
  <2> QED
    BY <2>1, <2>2, RecordFacts
<1>4. TypeOf \in [Tasks -> Types]
  BY <1>3 DEF TypeOf
<1>5. PredsOf \in [Tasks -> SUBSET Tasks]
  BY <1>3 DEF PredsOf
<1>6. IsFiniteSet(Tasks)
  <2>1. IsFiniteSet(Painters)
    BY SchedulerAssumption, FS_Interval DEF Painters
  <2> DEFINE All == { Own(p) : p \in Painters }
  <2>2. IsFiniteSet(All)
    <3> DEFINE f == [p \in Painters |-> Own(p)]
    <3>1. All = { f[p] : p \in Painters }
      OBVIOUS
    <3> HIDE DEF f, All
    <3> QED
      BY <2>1, <3>1, ImageFacts
  <2>3. ASSUME NEW p \in Painters
        PROVE  IsFiniteSet(Own(p))
    <3> DEFINE f == [k \in 1 .. Len(test_graph[p]) |-> test_graph[p][k].id]
    <3>0. DOMAIN test_graph[p] = 1 .. Len(test_graph[p])
      BY <1>1
    <3>1. Own(p) = { f[k] : k \in 1 .. Len(test_graph[p]) }
      BY <3>0 DEF Own
    <3>2. IsFiniteSet(1 .. Len(test_graph[p]))
      BY <1>1, FS_Interval
    <3> HIDE DEF f
    <3> QED
      BY <3>1, <3>2, ImageFacts
  <2>4. IsFiniteSet(UNION All)
    BY <2>2, <2>3, FS_UNION
  <2>5. Tasks \subseteq UNION All
    <3> SUFFICES ASSUME NEW t \in Tasks PROVE t \in UNION All
      OBVIOUS
    <3>0. PICK p \in Painters : \E k \in 1 .. Len(test_graph[p]) : test_graph[p][k].id = t
      BY <1>2
    <3>1. PICK k \in 1 .. Len(test_graph[p]) : test_graph[p][k].id = t
      BY <3>0
    <3>2. t \in Own(p)
      BY <1>1, <3>1 DEF Own
    <3> QED
      BY <3>2
  <2> QED
    BY <2>4, <2>5, FS_Subset
<1>7. ASSUME NEW t \in Tasks
      PROVE  \E p \in Painters : t \in Own(p)
  <2>0. PICK p \in Painters : \E k \in 1 .. Len(test_graph[p]) : test_graph[p][k].id = t
    BY <1>2
  <2>1. PICK k \in 1 .. Len(test_graph[p]) : test_graph[p][k].id = t
    BY <2>0
  <2>2. t \in Own(p)
    BY <1>1, <2>1 DEF Own
  <2> QED
    BY <2>2
<1> QED
  BY <1>3, <1>4, <1>5, <1>6, <1>7, GraphAssumption, SchedulerAssumption

----------------------------------------------------------------------------
(* Counting down.                                                           *)

Left(c) == (c - 1) % CntWidth

\* An unsigned counter counts down from zero to its largest value.
LEMMA LeftFacts ==
  ASSUME NEW c \in 0 .. CntWidth - 1
  PROVE  /\ Left(c) \in 0 .. CntWidth - 1
         /\ Left(c) = IF c = 0 THEN CntWidth - 1 ELSE c - 1
BY TaskFacts DEF Left

\* A ready task is put at the end of the batch of its type.
LEMMA PushReadyFacts ==
  ASSUME NEW s \in TableSet, NEW t \in Tasks
  PROVE  LET g == PushReady(s, t)
         IN /\ g \in TableSet /\ g.commit = s.commit /\ g.done = s.done
            /\ g.successors = s.successors /\ g.cnt = s.cnt
            /\ g.ready = [s.ready EXCEPT ![TypeOf[t]] = Append(s.ready[TypeOf[t]], t)]
<1> DEFINE r == [s.ready EXCEPT ![TypeOf[t]] = Append(s.ready[TypeOf[t]], t)]
<1>1. TypeOf[t] \in Types /\ s.ready \in [Types -> Seq(Tasks)]
  BY TaskFacts DEF TableSet
<1>2. Append(s.ready[TypeOf[t]], t) \in Seq(Tasks)
  BY <1>1
<1>3. r \in [Types -> Seq(Tasks)]
  BY <1>1, <1>2
<1>4. PushReady(s, t) = [s EXCEPT !.ready = r]
  BY DEF PushReady, TableSet
<1> HIDE DEF r
<1> QED
  BY <1>3, <1>4 DEF TableSet, r

\* One successor counted down.
LEMMA CountdownOne ==
  ASSUME NEW s \in TableSet, NEW t \in Tasks, s.cnt[t] \in 0 .. CntWidth - 1
  PROVE  LET e == Countdown(s, t)
         IN /\ e \in TableSet
            /\ e.commit = s.commit /\ e.done = s.done /\ e.successors = s.successors
            /\ e.cnt = [s.cnt EXCEPT ![t] = Left(s.cnt[t])]
            /\ e.ready = IF Left(s.cnt[t]) = 0
                         THEN [s.ready EXCEPT ![TypeOf[t]] = Append(s.ready[TypeOf[t]], t)]
                         ELSE s.ready
<1> DEFINE c == [s EXCEPT !.cnt[t] = Left(s.cnt[t])]
           e == Countdown(s, t)
<1>1. TypeOf[t] \in Types /\ Left(s.cnt[t]) \in Nat /\ (Left(s.cnt[t]) < 1 <=> Left(s.cnt[t]) = 0)
  BY TaskFacts, LeftFacts
<1>2. /\ c \in TableSet /\ c.commit = s.commit /\ c.done = s.done /\ c.successors = s.successors
      /\ c.cnt = [s.cnt EXCEPT ![t] = Left(s.cnt[t])] /\ c.ready = s.ready
  BY <1>1 DEF TableSet
<1>3. e = IF Left(s.cnt[t]) = 0 THEN PushReady(c, t) ELSE c
  BY <1>1 DEF Countdown, Left
<1> HIDE DEF c, e
<1>4. LET g == PushReady(c, t)
      IN /\ g \in TableSet /\ g.commit = c.commit /\ g.done = c.done
         /\ g.successors = c.successors /\ g.cnt = c.cnt
         /\ g.ready = [c.ready EXCEPT ![TypeOf[t]] = Append(c.ready[TypeOf[t]], t)]
  BY <1>2, PushReadyFacts
<1> QED
  BY <1>2, <1>3, <1>4 DEF e

\* The successors of a list whose counter comes to zero.
Pushed(s, q, y) == { t \in Range(q) : TypeOf[t] = y /\ Left(s.cnt[t]) = 0 }

\* The list counted down: each counter once, and pushed are those that come to zero.
LEMMA CountdownAll ==
  ASSUME NEW s \in TableSet, NEW q \in Seq(Tasks), IsInjective(q),
         \A t \in Range(q) : s.cnt[t] \in 0 .. CntWidth - 1,
         \A y \in Types : IsInjective(s.ready[y]) /\ Pushed(s, q, y) \cap Range(s.ready[y]) = {}
  PROVE  LET e == Iterate(Countdown, s, q)
         IN /\ e \in TableSet
            /\ e.commit = s.commit /\ e.done = s.done /\ e.successors = s.successors
            /\ \A t \in Tasks : e.cnt[t] = IF t \in Range(q) THEN Left(s.cnt[t]) ELSE s.cnt[t]
            /\ \A y \in Types : /\ IsInjective(e.ready[y])
                                /\ Range(e.ready[y]) = Range(s.ready[y]) \cup Pushed(s, q, y)
<1> DEFINE n == Len(q)
           First(k) == { q[j] : j \in 1 .. k }
           Good(k, e) ==
             /\ e.commit = s.commit /\ e.done = s.done /\ e.successors = s.successors
             /\ \A t \in Tasks : e.cnt[t] = IF t \in First(k) THEN Left(s.cnt[t]) ELSE s.cnt[t]
             /\ \A y \in Types :
                  /\ IsInjective(e.ready[y])
                  /\ Range(e.ready[y]) = Range(s.ready[y])
                       \cup { t \in First(k) : TypeOf[t] = y /\ Left(s.cnt[t]) = 0 }
           S == [k \in 0 .. n |-> { e \in TableSet : Good(k, e) }]
<1>0. n \in Nat /\ DOMAIN q = 1 .. n /\ \A k \in 1 .. n : q[k] \in Tasks /\ q[k] \in Range(q)
  BY DEF Range
<1>1. S \in [0 .. n -> SUBSET TableSet]
  OBVIOUS
<1>2. s \in S[0]
  <2>1. First(0) = {}
    OBVIOUS
  <2> HIDE DEF First
  <2>2. Good(0, s)
    BY <2>1
  <2> QED
    BY <1>0, <2>2
<1>3. ASSUME NEW k \in 1 .. n, NEW a \in S[k - 1]
      PROVE  Countdown(a, q[k]) \in S[k]
  <2> DEFINE t == q[k]
             e == Countdown(a, t)
  <2>1. a \in TableSet /\ Good(k - 1, a) /\ k - 1 \in 0 .. n /\ k \in 0 .. n
    <3> HIDE DEF Good
    <3> QED
      BY <1>0, <1>3
  <2>2. First(k) = First(k - 1) \cup {t}
    BY <1>0
  <2>3. t \notin First(k - 1)
    BY <1>0 DEF IsInjective
  <2>4. t \in Tasks /\ t \in Range(q) /\ TypeOf[t] \in Types
    BY <1>0, TaskFacts
  <2> HIDE DEF First, t
  <2>5. a.cnt[t] = s.cnt[t] /\ a.cnt[t] \in 0 .. CntWidth - 1
    BY <2>1, <2>3, <2>4
  <2>6. /\ e \in TableSet
        /\ e.commit = a.commit /\ e.done = a.done /\ e.successors = a.successors
        /\ e.cnt = [a.cnt EXCEPT ![t] = Left(a.cnt[t])]
        /\ e.ready = IF Left(a.cnt[t]) = 0
                     THEN [a.ready EXCEPT ![TypeOf[t]] = Append(a.ready[TypeOf[t]], t)]
                     ELSE a.ready
    BY <2>1, <2>4, <2>5, CountdownOne
  <2> HIDE DEF e
  <2>7. a.cnt \in [Tasks -> Nat] /\ a.ready \in [Types -> Seq(Tasks)]
    BY <2>1 DEF TableSet
  <2>8. \A u \in Tasks : e.cnt[u] = IF u \in First(k) THEN Left(s.cnt[u]) ELSE s.cnt[u]
    BY <2>1, <2>2, <2>5, <2>6, <2>7
  <2>9. ASSUME NEW y \in Types
        PROVE  /\ IsInjective(e.ready[y])
               /\ Range(e.ready[y]) = Range(s.ready[y])
                       \cup { u \in First(k) : TypeOf[u] = y /\ Left(s.cnt[u]) = 0 }
    <3>1. /\ IsInjective(a.ready[y]) /\ a.ready[y] \in Seq(Tasks)
          /\ Range(a.ready[y]) = Range(s.ready[y])
                       \cup { u \in First(k - 1) : TypeOf[u] = y /\ Left(s.cnt[u]) = 0 }
      BY <2>1, <2>7
    <3>2. CASE TypeOf[t] = y /\ Left(s.cnt[t]) = 0
      <4>1. e.ready[y] = Append(a.ready[y], t)
        BY <2>5, <2>6, <2>7, <3>2
      <4>2. t \in Pushed(s, q, y)
        BY <2>4, <3>2 DEF Pushed
      <4>3. t \notin Range(a.ready[y])
        BY <2>3, <3>1, <4>2
      <4>4. IsInjective(e.ready[y]) /\ Range(e.ready[y]) = Range(a.ready[y]) \cup {t}
        BY <2>4, <3>1, <4>1, <4>3, AppendFacts
      <4> QED
        BY <2>2, <3>1, <3>2, <4>4
    <3>3. CASE ~ (TypeOf[t] = y /\ Left(s.cnt[t]) = 0)
      <4>1. e.ready[y] = a.ready[y]
        BY <2>4, <2>5, <2>6, <2>7, <3>3
      <4> QED
        BY <2>2, <3>1, <3>3, <4>1
    <3> QED
      BY <3>2, <3>3
  <2>10. Good(k, e)
    BY <2>1, <2>6, <2>8, <2>9
  <2> HIDE DEF Good
  <2> QED
    BY <2>1, <2>6, <2>10 DEF e, t
<1> DEFINE e == Iterate(Countdown, s, q)
<1>4. e \in S[n]
  <2> HIDE DEF S
  <2> QED
    BY <1>1, <1>2, <1>3, IterateCountdown
<1>5. e \in TableSet /\ Good(n, e)
  <2> HIDE DEF Good, e
  <2> QED
    BY <1>0, <1>4
<1>6. First(n) = Range(q)
  BY <1>0 DEF Range
<1> HIDE DEF First, e
<1>7. \A y \in Types : Range(e.ready[y]) = Range(s.ready[y]) \cup Pushed(s, q, y)
  BY <1>5, <1>6 DEF Pushed
<1> QED
  BY <1>5, <1>6, <1>7 DEF e

----------------------------------------------------------------------------
(* Committing.                                                              *)

\* One task committed: what the tables hold then.
LEMMA CommitOneFacts ==
  ASSUME NEW s \in TableSet, NEW p \in Painters, NEW k \in 1 .. Len(test_graph[p])
  PROVE  LET r == test_graph[p][k]
             t == r.id
             w == PredsOf[t] \ s.done
             e == CommitOne(s, r)
         IN /\ e \in TableSet /\ e.commit = s.commit + 1 /\ e.done = s.done
            /\ e.cnt = [s.cnt EXCEPT ![t] = Cardinality(w)]
            /\ e.successors = [q \in Tasks |->
                 IF q \in w THEN Append(s.successors[q], t) ELSE s.successors[q]]
            /\ e.ready = IF w = {} THEN [s.ready EXCEPT ![TypeOf[t]] = Append(s.ready[TypeOf[t]], t)]
                                   ELSE s.ready
<1> DEFINE r == test_graph[p][k]
           t == r.id
           w == PredsOf[t] \ s.done
           l == [q \in Tasks |-> IF q \in w THEN Append(s.successors[q], t) ELSE s.successors[q]]
           c == [s.cnt EXCEPT ![t] = Cardinality(w)]
           held == [s EXCEPT !.cnt = c, !.commit = s.commit + 1, !.successors = l]
           e == CommitOne(s, r)
<1>1. t \in Tasks /\ PredsOf[t] = Range(r.predecessors) /\ PredsOf[t] \subseteq Tasks
  BY RecordFacts
<1>2. w \subseteq Tasks /\ Cardinality(w) \in Nat
  BY <1>1, TaskFacts, FS_Subset, FS_CardinalityType
<1>3. { q \in Range(r.predecessors) : Survives(s, q) } = w
  BY <1>1 DEF Survives
<1>4. s.successors \in [Tasks -> Seq(Tasks)] /\ s.cnt \in [Tasks -> Nat]
  BY DEF TableSet
<1> HIDE DEF w, t
<1>5. l \in [Tasks -> Seq(Tasks)]
  <2>1. \A q \in Tasks : Append(s.successors[q], t) \in Seq(Tasks)
    BY <1>1, <1>4
  <2> QED
    BY <2>1, <1>4
<1>6. c \in [Tasks -> Nat]
  BY <1>2, <1>4
<1>7. e = IF w = {} THEN PushReady(held, t) ELSE held
  <2> DEFINE waits == { q \in Range(r.predecessors) : Survives(s, q) }
             h == [s EXCEPT !.cnt[r.id] = Cardinality(waits), !.commit = @ + 1,
                            !.successors = [q \in Tasks |->
                              IF q \in waits THEN Append(@[q], r.id) ELSE @[q]]]
  <2>1. e = IF waits = {} THEN PushReady(h, r.id) ELSE h
    BY Zenon DEF CommitOne
  <2> HIDE DEF waits, e
  <2>2. waits = w
    BY <1>3 DEF waits
  <2> DEFINE c2 == [s.cnt EXCEPT ![r.id] = Cardinality(waits)]
             l2 == [q \in Tasks |-> IF q \in waits THEN Append(s.successors[q], r.id)
                                                  ELSE s.successors[q]]
  <2>3. h = [s EXCEPT !.cnt = c2, !.commit = s.commit + 1, !.successors = l2]
    BY DEF TableSet
  <2>4. c = c2 /\ l = l2
    BY <2>2 DEF t
  <2> HIDE DEF h, c, l, c2, l2
  <2>5. h = held
    BY <2>3, <2>4
  <2> HIDE DEF h, held
  <2> QED
    BY <2>1, <2>2, <2>5 DEF t
<1> HIDE DEF l, c
<1>8. /\ held \in TableSet /\ held.commit = s.commit + 1 /\ held.done = s.done
      /\ held.cnt = c /\ held.successors = l /\ held.ready = s.ready
  <2> DEFINE A == [Tasks -> Nat]
             B == SUBSET Tasks
             C == [Tasks -> Seq(Tasks)]
             D == [Types -> Seq(Tasks)]
  <2>1. s \in [cnt : A, commit : Nat, done : B, successors : C, ready : D]
    BY DEF TableSet
  <2>2. TableSet = [cnt : A, commit : Nat, done : B, successors : C, ready : D]
    BY DEF TableSet
  <2>3. c \in A /\ l \in C /\ s.commit + 1 \in Nat
    BY <1>5, <1>6, <2>1
  <2> HIDE DEF A, B, C, D
  <2>4. held \in [cnt : A, commit : Nat, done : B, successors : C, ready : D]
    BY <2>1, <2>3
  <2>5. /\ held.commit = s.commit + 1 /\ held.done = s.done
        /\ held.cnt = c /\ held.successors = l /\ held.ready = s.ready
    BY <2>1, <2>3
  <2> QED
    BY <2>2, <2>4, <2>5
<1> HIDE DEF held, e
<1>9. /\ e \in TableSet /\ e.commit = s.commit + 1 /\ e.done = s.done
      /\ e.cnt = c /\ e.successors = l
      /\ e.ready = IF w = {} THEN [s.ready EXCEPT ![TypeOf[t]] = Append(s.ready[TypeOf[t]], t)]
                             ELSE s.ready
  BY <1>1, <1>7, <1>8, PushReadyFacts
<1> QED
  BY <1>9 DEF e, c, l, w, t

\* The number of predecessors a committed task waits for, and of answers it got.
LEMMA CountsAreNumbers ==
  ASSUME NEW s, NEW H, IsFiniteSet(H), NEW t
  PROVE  /\ IsFiniteSet(Waits(s, t)) /\ Cardinality(Waits(s, t)) \in Nat
         /\ IsFiniteSet(Answers(s, H, t)) /\ Cardinality(Answers(s, H, t)) \in Nat
<1>1. Waits(s, t) \subseteq Tasks
  BY DEF Waits
<1>2. Answers(s, H, t) \subseteq H
  BY DEF Answers
<1> QED
  BY <1>1, <1>2, TaskFacts, FS_Subset, FS_CardinalityType

\* Committing the next task keeps the painter's tables sound: the completions that were
\* heard before leave no predecessor to wait for, the others will each count once.
LEMMA CommitOneSound ==
  ASSUME NEW p \in Painters, NEW s \in TableSet, NEW H, IsFiniteSet(H),
         PainterSound(p, s, H), \A x \in H : Told(x) \in s.done,
         s.commit < Len(test_graph[p])
  PROVE  LET r == test_graph[p][s.commit + 1]
             e == CommitOne(s, r)
         IN /\ e \in TableSet /\ e.commit = s.commit + 1 /\ e.done = s.done
            /\ PainterSound(p, e, H)
            /\ \A u \in Tasks \ Own(p) : e.cnt[u] = s.cnt[u]
<1> DEFINE k == s.commit + 1
           r == test_graph[p][k]
           t == r.id
           w == PredsOf[t] \ s.done
           e == CommitOne(s, r)
<1>0. s.commit \in Nat /\ Len(test_graph[p]) \in Nat /\ DOMAIN test_graph[p] = 1 .. Len(test_graph[p])
  <2>1. test_graph[p] \in Seq([id : Nat, type : Types, predecessors : Seq(Nat)])
    BY GraphAssumption
  <2> QED
    BY <2>1 DEF TableSet
<1>1. k \in 1 .. Len(test_graph[p])
  BY <1>0
<1>2. t \in Tasks /\ PredsOf[t] \subseteq Tasks /\ TypeOf[t] \in Types
  BY <1>1, RecordFacts
<1>3. /\ e \in TableSet /\ e.commit = k /\ e.done = s.done
      /\ e.cnt = [s.cnt EXCEPT ![t] = Cardinality(w)]
      /\ e.successors = [q \in Tasks |->
           IF q \in w THEN Append(s.successors[q], t) ELSE s.successors[q]]
      /\ e.ready = IF w = {} THEN [s.ready EXCEPT ![TypeOf[t]] = Append(s.ready[TypeOf[t]], t)]
                             ELSE s.ready
  BY <1>1, CommitOneFacts
<1>4. CommittedBy(p, e) = CommittedBy(p, s) \cup {t}
  <2>0. e.commit = s.commit + 1
    BY <1>3
  <2> HIDE DEF e, r, t, w
  <2>1. 1 .. e.commit = (1 .. s.commit) \cup {k}
    BY <1>0, <2>0
  <2> HIDE DEF k
  <2> QED
    BY <2>1 DEF CommittedBy, r, t
<1>5. t \in Own(p) /\ t \notin CommittedBy(p, s)
  <2>1. t \in Own(p)
    BY <1>0, <1>1 DEF Own
  <2>2. ASSUME NEW j \in 1 .. s.commit
        PROVE  test_graph[p][j].id # t
    <3>1. j \in DOMAIN test_graph[p] /\ k \in DOMAIN test_graph[p] /\ j # k
      BY <1>0, <1>1
    <3> QED
      BY <3>1, GraphAssumption
  <2> QED
    BY <2>1, <2>2 DEF CommittedBy
<1>6. s.successors \in [Tasks -> Seq(Tasks)] /\ s.cnt \in [Tasks -> Nat] /\ s.ready \in [Types -> Seq(Tasks)]
  BY DEF TableSet
<1>7. w \subseteq Tasks
  BY <1>2
<1> HIDE DEF w, e, t, k
<1>8. \A q \in Tasks : /\ t \notin Range(s.successors[q])
                       /\ IsInjective(s.successors[q])
                       /\ Range(s.successors[q]) \subseteq CommittedBy(p, s)
  BY <1>5 DEF PainterSound, ListsSound
<1>9. \A q \in w : /\ IsInjective(e.successors[q])
                   /\ Range(e.successors[q]) = Range(s.successors[q]) \cup {t}
  <2> SUFFICES ASSUME NEW q \in w
               PROVE  /\ IsInjective(e.successors[q])
                      /\ Range(e.successors[q]) = Range(s.successors[q]) \cup {t}
    OBVIOUS
  <2>1. q \in Tasks /\ e.successors[q] = Append(s.successors[q], t)
    BY <1>3, <1>7
  <2>2. s.successors[q] \in Seq(Tasks)
    BY <1>6, <2>1
  <2> QED
    BY <1>2, <1>8, <2>1, <2>2, AppendFacts
<1>10. \A q \in Tasks \ w : e.successors[q] = s.successors[q]
  BY <1>3
<1>11. ~ LeftPainter(t) /\ \A y \in Types : t \notin Range(s.ready[y])
  BY <1>5 DEF PainterSound, ListsSound
<1>12. \A y \in Types :
         /\ IsInjective(e.ready[y])
         /\ Range(e.ready[y]) = IF w = {} /\ y = TypeOf[t] THEN Range(s.ready[y]) \cup {t}
                                                         ELSE Range(s.ready[y])
  <2> TAKE y \in Types
  <2>1. IsInjective(s.ready[y]) /\ s.ready[y] \in Seq(Tasks)
    BY <1>6 DEF PainterSound, ListsSound
  <2>2. CASE w = {} /\ y = TypeOf[t]
    <3>1. e.ready[y] = Append(s.ready[y], t)
      BY <1>3, <1>6, <2>2
    <3> QED
      BY <1>2, <1>11, <2>1, <2>2, <3>1, AppendFacts
  <2>3. CASE ~ (w = {} /\ y = TypeOf[t])
    <3>1. e.ready[y] = s.ready[y]
      BY <1>3, <1>6, <2>3
    <3> QED
      BY <2>1, <2>3, <3>1
  <2> QED
    BY <2>2, <2>3
<1>13. ListsSound(p, e)
  <2>1. ASSUME NEW q \in Tasks
        PROVE  IsInjective(e.successors[q]) /\ Range(e.successors[q]) \subseteq CommittedBy(p, e)
    BY <1>4, <1>8, <1>9, <1>10
  <2>2. ASSUME NEW y \in Types
        PROVE  /\ IsInjective(e.ready[y])
               /\ \A u \in Range(e.ready[y]) : u \in CommittedBy(p, e) /\ TypeOf[u] = y /\ ~ LeftPainter(u)
    <3>1. \A u \in Range(s.ready[y]) : u \in CommittedBy(p, s) /\ TypeOf[u] = y /\ ~ LeftPainter(u)
      BY DEF PainterSound, ListsSound
    <3> QED
      BY <1>4, <1>11, <1>12, <3>1
  <2>3. \A u \in Own(p) \ CommittedBy(p, e) : ~ LeftPainter(u)
    BY <1>4 DEF PainterSound, ListsSound
  <2> QED
    BY <2>1, <2>2, <2>3 DEF ListsSound
<1>14. \A u \in CommittedBy(p, s) : /\ u # t /\ u \in Tasks /\ Waits(e, u) = Waits(s, u)
                                    /\ Answers(e, H, u) = Answers(s, H, u)
                                    /\ e.cnt[u] = s.cnt[u]
                                    /\ (MadeReady(e, u) <=> MadeReady(s, u))
  <2> SUFFICES ASSUME NEW u \in CommittedBy(p, s)
               PROVE  /\ u # t /\ u \in Tasks /\ Waits(e, u) = Waits(s, u)
                      /\ Answers(e, H, u) = Answers(s, H, u)
                      /\ e.cnt[u] = s.cnt[u]
                      /\ (MadeReady(e, u) <=> MadeReady(s, u))
    OBVIOUS
  <2>1. u # t
    BY <1>5
  <2>2. u \in Tasks
    <3>1. PICK j \in 1 .. s.commit : u = test_graph[p][j].id
      BY DEF CommittedBy
    <3>2. j \in 1 .. Len(test_graph[p])
      BY <1>0, <3>1
    <3> QED
      BY <3>1, <3>2, RecordFacts
  <2>3. Waits(e, u) = Waits(s, u)
    BY <1>9, <1>10, <2>1 DEF Waits
  <2>4. Answers(e, H, u) = Answers(s, H, u)
    BY <2>3 DEF Answers
  <2>5. e.cnt[u] = s.cnt[u]
    BY <1>3, <1>6, <2>1, <2>2
  <2>6. TypeOf[u] \in Types
    BY <2>2, TaskFacts
  <2>7. u \in Range(e.ready[TypeOf[u]]) <=> u \in Range(s.ready[TypeOf[u]])
    BY <1>12, <2>1, <2>6
  <2> QED
    BY <2>1, <2>2, <2>3, <2>4, <2>5, <2>7 DEF MadeReady
<1>15. /\ Waits(e, t) = w /\ Answers(e, H, t) = {} /\ e.cnt[t] = Cardinality(w)
       /\ (MadeReady(e, t) <=> w = {})
  <2>1. Waits(e, t) = w
    BY <1>7, <1>8, <1>9, <1>10 DEF Waits
  <2>2. Answers(e, H, t) = {}
    BY <2>1 DEF Answers, w
  <2>3. e.cnt[t] = Cardinality(w)
    BY <1>2, <1>3, <1>6
  <2>4. t \in Range(e.ready[TypeOf[t]]) <=> w = {}
    BY <1>2, <1>11, <1>12
  <2> QED
    BY <1>11, <2>1, <2>2, <2>3, <2>4 DEF MadeReady
<1>16. CountedSound(p, e, H)
  <2> SUFFICES ASSUME NEW u \in CommittedBy(p, e)
               PROVE  /\ Waits(e, u) \subseteq PredsOf[u]
                      /\ PredsOf[u] \ Waits(e, u) \subseteq e.done
                      /\ e.cnt[u] = CountAfter(Cardinality(Waits(e, u)), Cardinality(Answers(e, H, u)))
                      /\ MadeReady(e, u) => Cardinality(Answers(e, H, u)) >= Cardinality(Waits(e, u))
                      /\ QueuesDeep => (Cardinality(Answers(e, H, u)) >= Cardinality(Waits(e, u)) => MadeReady(e, u))
    BY DEF CountedSound
  <2>1. CASE u \in CommittedBy(p, s)
    <3>1. /\ Waits(s, u) \subseteq PredsOf[u]
          /\ PredsOf[u] \ Waits(s, u) \subseteq s.done
          /\ s.cnt[u] = CountAfter(Cardinality(Waits(s, u)), Cardinality(Answers(s, H, u)))
          /\ MadeReady(s, u) => Cardinality(Answers(s, H, u)) >= Cardinality(Waits(s, u))
          /\ QueuesDeep => (Cardinality(Answers(s, H, u)) >= Cardinality(Waits(s, u)) => MadeReady(s, u))
      BY <2>1 DEF PainterSound, CountedSound
    <3> QED
      BY <1>3, <1>14, <2>1, <3>1
  <2>2. CASE u = t
    <3>1. Cardinality(w) \in Nat /\ (w = {} <=> Cardinality(w) = 0) /\ Cardinality({}) = 0
      BY <1>7, TaskFacts, FS_Subset, FS_CardinalityType, FS_EmptySet
    <3>2. CountAfter(Cardinality(w), 0) = Cardinality(w)
      BY <3>1 DEF CountAfter
    <3>3. w \subseteq PredsOf[t] /\ PredsOf[t] \ w \subseteq s.done
      BY DEF w
    <3>4. Cardinality(Answers(e, H, t)) = 0 /\ Cardinality(Waits(e, t)) = Cardinality(w)
      BY <1>15, <3>1
    <3>5. Cardinality(Answers(e, H, t)) >= Cardinality(Waits(e, t)) <=> w = {}
      BY <3>1, <3>4
    <3>6. e.cnt[t] = CountAfter(Cardinality(Waits(e, t)), Cardinality(Answers(e, H, t)))
      BY <1>15, <3>2, <3>4
    <3>7. Waits(e, t) \subseteq PredsOf[t] /\ PredsOf[t] \ Waits(e, t) \subseteq e.done
      BY <1>3, <1>15, <3>3
    <3> QED
      BY <1>15, <2>2, <3>5, <3>6, <3>7
  <2> QED
    BY <1>4, <2>1, <2>2
<1>17. \A u \in Tasks \ Own(p) : e.cnt[u] = s.cnt[u]
  BY <1>3, <1>5, <1>6
<1> QED
  BY <1>3, <1>13, <1>16, <1>17 DEF PainterSound, e, k

\* The smaller of two numbers.
LEMMA MinFacts ==
  ASSUME NEW a \in Int, NEW b \in Int
  PROVE  Min({a, b}) = IF a <= b THEN a ELSE b
<1> DEFINE m == IF a <= b THEN a ELSE b
           P(x) == x \in {a, b} /\ \A y \in {a, b} : x <= y
<1>1. P(m)
  OBVIOUS
<1>2. \A x : P(x) => x = m
  OBVIOUS
<1>3. Min({a, b}) = CHOOSE x \in {a, b} : \A y \in {a, b} : x <= y
  BY Zenon DEF Min
<1>4. (CHOOSE x \in {a, b} : \A y \in {a, b} : x <= y) = m
  BY <1>1, <1>2
<1> QED
  BY <1>3, <1>4

\* The commit window holds the next tasks of the subgraph and ends with it.
LEMMA WindowFacts ==
  ASSUME NEW p \in Painters, NEW c \in 0 .. Len(test_graph[p])
  PROVE  /\ Window(p, c) \in Seq(Records) /\ c + Len(Window(p, c)) <= Len(test_graph[p])
         /\ \A k \in 1 .. Len(Window(p, c)) : Window(p, c)[k] = test_graph[p][c + k]
<1> DEFINE g == test_graph[p]
           m == Min({c + PRE_BATCH_SIZE + 1, Len(g)})
           w == Window(p, c)
<1>1. g \in Seq([id : Nat, type : Types, predecessors : Seq(Nat)])
  BY GraphAssumption
<1>2. Len(g) \in Nat /\ DOMAIN g = 1 .. Len(g)
  BY <1>1
<1>3. \A k \in 1 .. Len(g) : g[k] \in Records
  BY RecordFacts
<1>4. PRE_BATCH_SIZE \in Nat /\ c \in Nat /\ c <= Len(g)
  BY <1>2, SchedulerAssumption
<1> HIDE DEF g
<1>5. m \in Nat /\ c <= m /\ m <= Len(g)
  <2> DEFINE o == c + PRE_BATCH_SIZE + 1
  <2>1. o \in Nat /\ c <= o
    BY <1>4
  <2> HIDE DEF o
  <2>2. Min({o, Len(g)}) = IF o <= Len(g) THEN o ELSE Len(g)
    BY <1>2, <2>1, MinFacts
  <2>3. m = Min({o, Len(g)})
    BY DEF o
  <2> HIDE DEF m
  <2> QED
    BY <1>2, <1>4, <2>1, <2>2, <2>3
<1>6. w = SubSeq(g, c + 1, m)
  BY DEF Window, g
<1> HIDE DEF m, w
<1>7. /\ w \in Seq(Records) /\ Len(w) = m - c
      /\ \A k \in 1 .. m - c : w[k] = g[c + k]
  <2>1. c + 1 \in Int /\ m \in Int /\ \A i \in c + 1 .. m : g[i] \in Records
    BY <1>2, <1>3, <1>4, <1>5 DEF g
  <2>2. /\ w \in Seq(Records)
        /\ Len(w) = IF c + 1 <= m THEN m - (c + 1) + 1 ELSE 0
        /\ \A i \in 1 .. m - (c + 1) + 1 : w[i] = g[c + 1 + i - 1]
    BY <1>6, <2>1, SubSeqProperties
  <2> QED
    BY <1>4, <1>5, <2>2
<1> QED
  BY <1>2, <1>5, <1>7 DEF g, w

\* A round's commits keep the painter's tables sound.
LEMMA AddSuccessorsSound ==
  ASSUME NEW p \in Painters, NEW s \in TableSet, NEW H, IsFiniteSet(H),
         PainterSound(p, s, H), \A x \in H : Told(x) \in s.done,
         s.commit <= Len(test_graph[p])
  PROVE  LET e == add_successors(p, s)
         IN /\ e \in TableSet /\ e.commit <= Len(test_graph[p]) /\ e.done = s.done
            /\ PainterSound(p, e, H)
            /\ \A u \in Tasks \ Own(p) : e.cnt[u] = s.cnt[u]
<1> DEFINE w == Window(p, s.commit)
           n == Len(w)
           Good(k, e) == /\ e.commit = s.commit + k /\ e.done = s.done
                         /\ PainterSound(p, e, H)
                         /\ \A u \in Tasks \ Own(p) : e.cnt[u] = s.cnt[u]
           S == [k \in 0 .. n |-> { e \in TableSet : Good(k, e) }]
           e == add_successors(p, s)
<1>0. s.commit \in Nat /\ Len(test_graph[p]) \in Nat
  <2>1. test_graph[p] \in Seq([id : Nat, type : Types, predecessors : Seq(Nat)])
    BY GraphAssumption
  <2> QED
    BY <2>1 DEF TableSet
<1>1. /\ w \in Seq(Records) /\ n \in Nat /\ s.commit + n <= Len(test_graph[p])
      /\ \A k \in 1 .. n : w[k] = test_graph[p][s.commit + k]
  BY <1>0, WindowFacts
<1> HIDE DEF w
<1>2. S \in [0 .. n -> SUBSET TableSet]
  OBVIOUS
<1>3. s \in S[0]
  <2>1. Good(0, s)
    BY <1>0
  <2> HIDE DEF Good
  <2> QED
    BY <1>1, <2>1
<1>4. ASSUME NEW k \in 1 .. n, NEW a \in S[k - 1]
      PROVE  CommitOne(a, w[k]) \in S[k]
  <2> DEFINE c == CommitOne(a, w[k])
  <2>1. a \in TableSet /\ Good(k - 1, a)
    <3>1. k - 1 \in 0 .. n
      BY <1>1
    <3> HIDE DEF Good
    <3> QED
      BY <1>4, <3>1
  <2>2. a.commit + 1 = s.commit + k /\ a.commit < Len(test_graph[p])
    BY <1>0, <1>1, <2>1
  <2>3. w[k] = test_graph[p][a.commit + 1]
    BY <1>1, <2>2
  <2>4. \A x \in H : Told(x) \in a.done
    BY <2>1
  <2>5. /\ c \in TableSet /\ c.commit = a.commit + 1 /\ c.done = a.done
        /\ PainterSound(p, c, H)
        /\ \A u \in Tasks \ Own(p) : c.cnt[u] = a.cnt[u]
    BY <2>1, <2>2, <2>3, <2>4, CommitOneSound
  <2> HIDE DEF c
  <2>6. Good(k, c)
    BY <2>1, <2>2, <2>5
  <2> HIDE DEF Good
  <2> QED
    BY <1>1, <2>5, <2>6 DEF c
<1>5. e \in S[n]
  <2>1. e = Iterate(CommitOne, s, w)
    BY Zenon DEF add_successors, w
  <2> HIDE DEF S, e
  <2> QED
    BY <1>1, <1>2, <1>3, <1>4, <2>1, IterateCommitOne
<1>6. e \in TableSet /\ Good(n, e)
  <2> HIDE DEF Good, e
  <2> QED
    BY <1>1, <1>5
<1> HIDE DEF e
<1> QED
  BY <1>1, <1>6 DEF e

----------------------------------------------------------------------------
(* Resolving.                                                               *)

\* One more answer counts a counter down, and brings it to zero when it is the last.
LEMMA CountAfterStep ==
  ASSUME NEW w \in Nat, NEW a \in Nat, w < CntWidth, a + 1 <= w + CntWidth - 1
  PROVE  /\ CountAfter(w, a) \in 0 .. CntWidth - 1
         /\ Left(CountAfter(w, a)) = CountAfter(w, a + 1)
         /\ Left(CountAfter(w, a)) = 0 <=> a + 1 = w
<1>1. CountAfter(w, a) \in 0 .. CntWidth - 1
  BY TaskFacts DEF CountAfter
<1>2. Left(CountAfter(w, a)) = IF CountAfter(w, a) = 0 THEN CntWidth - 1 ELSE CountAfter(w, a) - 1
  BY <1>1, LeftFacts
<1> QED
  BY <1>1, <1>2, TaskFacts DEF CountAfter

\* No task gets so many answers that its counter comes back to zero.
Bounded(p, s, H) ==
    \A t \in CommittedBy(p, s) :
      /\ Cardinality(Waits(s, t)) < CntWidth
      /\ Cardinality(Answers(s, H, t)) <= Cardinality(Waits(s, t)) + CntWidth - 1

\* Counting down the successors of one completion keeps the painter's tables sound, with
\* that completion among those that answered.
LEMMA CountSuccessorsSound ==
  ASSUME NEW p \in Painters, NEW s \in TableSet, NEW H, IsFiniteSet(H),
         PainterSound(p, s, H), s.commit <= Len(test_graph[p]),
         NEW x, x \notin H, Told(x) \in Tasks, Bounded(p, s, H \cup {x})
  PROVE  LET e == CountSuccessors(s, Told(x))
         IN /\ e \in TableSet /\ e.commit = s.commit /\ e.done = s.done
            /\ e.successors = s.successors
            /\ PainterSound(p, e, H \cup {x})
            /\ \A u \in Tasks \ Own(p) : e.cnt[u] = s.cnt[u]
<1> DEFINE b == Told(x)
           q == s.successors[b]
           e == CountSuccessors(s, b)
           W(t) == Cardinality(Waits(s, t))
           A(t) == Cardinality(Answers(s, H, t))
<1>1. q \in Seq(Tasks) /\ IsInjective(q) /\ Range(q) \subseteq CommittedBy(p, s)
  BY DEF TableSet, PainterSound, ListsSound
<1>2. CommittedBy(p, s) \subseteq Own(p) /\ CommittedBy(p, s) \subseteq Tasks
  <2> SUFFICES ASSUME NEW t \in CommittedBy(p, s)
               PROVE  t \in Own(p) /\ t \in Tasks
    OBVIOUS
  <2>1. PICK j \in 1 .. s.commit : t = test_graph[p][j].id
    BY DEF CommittedBy
  <2>2. Len(test_graph[p]) \in Nat /\ DOMAIN test_graph[p] = 1 .. Len(test_graph[p])
    <3>1. test_graph[p] \in Seq([id : Nat, type : Types, predecessors : Seq(Nat)])
      BY GraphAssumption
    <3> QED
      BY <3>1
  <2>3. s.commit \in Nat
    BY DEF TableSet
  <2>4. j \in 1 .. Len(test_graph[p])
    BY <2>2, <2>3
  <2> QED
    BY <2>1, <2>2, <2>4, RecordFacts DEF Own
<1>3. \A t : t \in Range(q) <=> b \in Waits(s, t)
  BY DEF Waits
<1> HIDE DEF b, q, e
<1>4. ASSUME NEW t \in CommittedBy(p, s)
      PROVE  /\ W(t) \in Nat /\ A(t) \in Nat
             /\ Cardinality(Answers(s, H \cup {x}, t)) = IF t \in Range(q) THEN A(t) + 1 ELSE A(t)
  <2>1. IsFiniteSet(Answers(s, H, t)) /\ W(t) \in Nat /\ A(t) \in Nat
    BY CountsAreNumbers
  <2>2. x \notin Answers(s, H, t)
    BY DEF Answers
  <2>3. CASE t \in Range(q)
    <3>1. Answers(s, H \cup {x}, t) = Answers(s, H, t) \cup {x}
      BY <1>3, <2>3 DEF Answers, b
    <3> QED
      BY <2>1, <2>2, <2>3, <3>1, FS_AddElement
  <2>4. CASE t \notin Range(q)
    <3>1. Answers(s, H \cup {x}, t) = Answers(s, H, t)
      BY <1>3, <2>4 DEF Answers, b
    <3> QED
      BY <2>1, <2>4, <3>1
  <2> QED
    BY <2>3, <2>4
<1>5. ASSUME NEW t \in CommittedBy(p, s)
      PROVE  /\ Waits(s, t) \subseteq PredsOf[t]
             /\ PredsOf[t] \ Waits(s, t) \subseteq s.done
             /\ s.cnt[t] = CountAfter(W(t), A(t))
             /\ MadeReady(s, t) => A(t) >= W(t)
             /\ QueuesDeep => (A(t) >= W(t) => MadeReady(s, t))
  BY DEF PainterSound, CountedSound
<1>6. ASSUME NEW t \in Range(q)
      PROVE  /\ s.cnt[t] \in 0 .. CntWidth - 1
             /\ Left(s.cnt[t]) = CountAfter(W(t), A(t) + 1)
             /\ Left(s.cnt[t]) = 0 <=> A(t) + 1 = W(t)
  <2>1. t \in CommittedBy(p, s)
    BY <1>1
  <2>2. W(t) < CntWidth /\ A(t) + 1 <= W(t) + CntWidth - 1
    BY <1>4, <2>1 DEF Bounded
  <2>3. W(t) \in Nat /\ A(t) \in Nat /\ s.cnt[t] = CountAfter(W(t), A(t))
    BY <1>4, <1>5, <2>1
  <2> HIDE DEF W, A
  <2> QED
    BY <2>2, <2>3, CountAfterStep
<1>7. ASSUME NEW t \in Range(q), Left(s.cnt[t]) = 0
      PROVE  ~ MadeReady(s, t)
  <2>1. t \in CommittedBy(p, s) /\ A(t) + 1 = W(t)
    BY <1>1, <1>6, <1>7
  <2>2. A(t) \in Nat /\ W(t) \in Nat /\ (MadeReady(s, t) => A(t) >= W(t))
    BY <1>4, <1>5, <2>1
  <2> HIDE DEF W, A
  <2> QED
    BY <2>1, <2>2
<1>8. /\ e \in TableSet
      /\ e.commit = s.commit /\ e.done = s.done /\ e.successors = s.successors
      /\ \A t \in Tasks : e.cnt[t] = IF t \in Range(q) THEN Left(s.cnt[t]) ELSE s.cnt[t]
      /\ \A y \in Types : /\ IsInjective(e.ready[y])
                          /\ Range(e.ready[y]) = Range(s.ready[y]) \cup Pushed(s, q, y)
  <2>1. \A t \in Range(q) : s.cnt[t] \in 0 .. CntWidth - 1
    BY <1>6
  <2>2. \A y \in Types : IsInjective(s.ready[y]) /\ Pushed(s, q, y) \cap Range(s.ready[y]) = {}
    BY <1>7 DEF PainterSound, ListsSound, Pushed, MadeReady
  <2>3. e = Iterate(Countdown, s, q)
    BY Zenon DEF CountSuccessors, e, q
  <2> DEFINE i == Iterate(Countdown, s, q)
  <2>4. /\ i \in TableSet
        /\ i.commit = s.commit /\ i.done = s.done /\ i.successors = s.successors
        /\ \A t \in Tasks : i.cnt[t] = IF t \in Range(q) THEN Left(s.cnt[t]) ELSE s.cnt[t]
        /\ \A y \in Types : /\ IsInjective(i.ready[y])
                            /\ Range(i.ready[y]) = Range(s.ready[y]) \cup Pushed(s, q, y)
    BY <1>1, <2>1, <2>2, CountdownAll
  <2> HIDE DEF i
  <2> QED
    BY <2>3, <2>4 DEF i
<1>9. CommittedBy(p, e) = CommittedBy(p, s) /\ \A t : Waits(e, t) = Waits(s, t)
  BY <1>8 DEF CommittedBy, Waits
<1>10. \A t : Answers(e, H \cup {x}, t) = Answers(s, H \cup {x}, t)
  BY <1>9 DEF Answers
<1>11. \A t \in CommittedBy(p, s) :
         MadeReady(e, t) <=> MadeReady(s, t) \/ (t \in Range(q) /\ Left(s.cnt[t]) = 0)
  <2> TAKE t \in CommittedBy(p, s)
  <2>1. TypeOf[t] \in Types
    BY <1>2, TaskFacts
  <2> QED
    BY <1>8, <2>1 DEF MadeReady, Pushed
<1>12. ListsSound(p, e)
  <2>1. ASSUME NEW y \in Types, NEW t \in Range(e.ready[y])
        PROVE  t \in CommittedBy(p, e) /\ TypeOf[t] = y /\ ~ LeftPainter(t)
    <3>1. CASE t \in Range(s.ready[y])
      BY <1>9, <3>1 DEF PainterSound, ListsSound
    <3>2. CASE t \in Pushed(s, q, y)
      BY <1>1, <1>7, <1>9, <3>2 DEF Pushed, MadeReady
    <3> QED
      BY <1>8, <2>1, <3>1, <3>2
  <2>2. \A y \in Types : IsInjective(e.ready[y])
    BY <1>8
  <2>3. \A c \in Tasks : IsInjective(e.successors[c]) /\ Range(e.successors[c]) \subseteq CommittedBy(p, e)
    BY <1>8, <1>9 DEF PainterSound, ListsSound
  <2>4. \A t \in Own(p) \ CommittedBy(p, e) : ~ LeftPainter(t)
    BY <1>9 DEF PainterSound, ListsSound
  <2> QED
    BY <2>1, <2>2, <2>3, <2>4 DEF ListsSound
<1>13. CountedSound(p, e, H \cup {x})
  <2> DEFINE N(t) == Cardinality(Answers(s, H \cup {x}, t))
  <2> SUFFICES ASSUME NEW t \in CommittedBy(p, s)
               PROVE  /\ Waits(s, t) \subseteq PredsOf[t]
                      /\ PredsOf[t] \ Waits(s, t) \subseteq s.done
                      /\ e.cnt[t] = CountAfter(W(t), N(t))
                      /\ MadeReady(e, t) => N(t) >= W(t)
                      /\ QueuesDeep => (N(t) >= W(t) => MadeReady(e, t))
    BY <1>8, <1>9, <1>10 DEF CountedSound
  <2>1. W(t) \in Nat /\ A(t) \in Nat /\ N(t) = IF t \in Range(q) THEN A(t) + 1 ELSE A(t)
    BY <1>4
  <2>2. s.cnt[t] = CountAfter(W(t), A(t)) /\ (MadeReady(s, t) => A(t) >= W(t))
        /\ (QueuesDeep => (A(t) >= W(t) => MadeReady(s, t)))
    BY <1>5
  <2>3. t \in Tasks
    BY <1>2
  <2> HIDE DEF W, A, N
  <2>4. CASE t \in Range(q)
    <3>1. Left(s.cnt[t]) = CountAfter(W(t), A(t) + 1) /\ (Left(s.cnt[t]) = 0 <=> A(t) + 1 = W(t))
      BY <1>6, <2>4
    <3>2. e.cnt[t] = CountAfter(W(t), N(t))
      BY <1>8, <2>1, <2>3, <2>4, <3>1
    <3>3. MadeReady(e, t) <=> MadeReady(s, t) \/ A(t) + 1 = W(t)
      BY <1>11, <2>4, <3>1
    <3> QED
      BY <1>5, <2>1, <2>2, <2>4, <3>2, <3>3
  <2>5. CASE t \notin Range(q)
    <3>1. e.cnt[t] = s.cnt[t] /\ (MadeReady(e, t) <=> MadeReady(s, t))
      BY <1>8, <1>11, <2>3, <2>5
    <3> QED
      BY <1>5, <2>1, <2>2, <2>5, <3>1
  <2> QED
    BY <2>4, <2>5
<1>14. \A u \in Tasks \ Own(p) : e.cnt[u] = s.cnt[u]
  BY <1>1, <1>2, <1>8
<1> QED
  BY <1>8, <1>12, <1>13, <1>14 DEF PainterSound, e, b

\* Fewer completions give fewer answers.
LEMMA BoundedFewer ==
  ASSUME NEW p, NEW s, NEW a, a.commit = s.commit, a.successors = s.successors,
         NEW H, IsFiniteSet(H), NEW J \in SUBSET H, Bounded(p, s, H)
  PROVE  Bounded(p, a, J)
<1>1. CommittedBy(p, a) = CommittedBy(p, s) /\ \A t : Waits(a, t) = Waits(s, t)
  BY DEF CommittedBy, Waits
<1> SUFFICES ASSUME NEW t \in CommittedBy(p, s)
             PROVE  Cardinality(Answers(a, J, t)) <= Cardinality(Waits(s, t)) + CntWidth - 1
  BY <1>1 DEF Bounded
<1>2. Answers(a, J, t) \subseteq Answers(s, H, t)
  BY <1>1 DEF Answers
<1>3. IsFiniteSet(Answers(s, H, t)) /\ Cardinality(Waits(s, t)) \in Nat
  BY CountsAreNumbers
<1>4. /\ Cardinality(Answers(a, J, t)) \in Nat /\ Cardinality(Answers(s, H, t)) \in Nat
      /\ Cardinality(Answers(a, J, t)) <= Cardinality(Answers(s, H, t))
  BY <1>2, <1>3, FS_Subset, FS_CardinalityType
<1>5. Cardinality(Answers(s, H, t)) <= Cardinality(Waits(s, t)) + CntWidth - 1
  BY DEF Bounded
<1> QED
  BY <1>3, <1>4, <1>5, TaskFacts

\* Counting down for a batch of completions, at places x, keeps the painter's tables
\* sound, with the batch among those that answered.
LEMMA ResolveSound ==
  ASSUME NEW p \in Painters, NEW s \in TableSet, s.commit <= Len(test_graph[p]),
         NEW H, IsFiniteSet(H), PainterSound(p, s, H),
         NEW batch \in Seq(Tasks), NEW x,
         \A k \in 1 .. Len(batch) : Told(x[k]) = batch[k] /\ x[k] \notin H,
         \A j, k \in 1 .. Len(batch) : x[j] = x[k] => j = k,
         NEW I, I = H \cup { x[k] : k \in 1 .. Len(batch) }, Bounded(p, s, I)
  PROVE  LET e == resolve_dep(s, batch)
         IN /\ e \in TableSet /\ e.commit = s.commit /\ e.done = s.done
            /\ PainterSound(p, e, I)
            /\ \A u \in Tasks \ Own(p) : e.cnt[u] = s.cnt[u]
<1> DEFINE n == Len(batch)
           J(k) == H \cup { x[j] : j \in 1 .. k }
           Good(k, e) == /\ e.commit = s.commit /\ e.done = s.done /\ e.successors = s.successors
                         /\ PainterSound(p, e, J(k))
                         /\ \A u \in Tasks \ Own(p) : e.cnt[u] = s.cnt[u]
           S == [k \in 0 .. n |-> { e \in TableSet : Good(k, e) }]
           e == resolve_dep(s, batch)
<1>0. n \in Nat /\ \A k \in 1 .. n : batch[k] \in Tasks
  OBVIOUS
<1>1. \A k \in 0 .. n : IsFiniteSet(J(k)) /\ J(k) \subseteq J(n)
  <2> TAKE k \in 0 .. n
  <2>1. IsFiniteSet(1 .. k)
    BY <1>0, FS_Interval
  <2>2. IsFiniteSet({ x[j] : j \in 1 .. k })
    BY <2>1, ImageFacts
  <2>3. 1 .. k \subseteq 1 .. n
    BY <1>0
  <2>4. J(k) \subseteq J(n)
    BY <2>3
  <2> QED
    BY <2>2, <2>4, FS_Union
<1>2. S \in [0 .. n -> SUBSET TableSet]
  OBVIOUS
<1>3. s \in S[0]
  <2>1. J(0) = H
    OBVIOUS
  <2> HIDE DEF J
  <2>2. Good(0, s)
    BY <2>1
  <2> HIDE DEF Good
  <2> QED
    BY <1>0, <2>2
<1>4. ASSUME NEW k \in 1 .. n, NEW a \in S[k - 1]
      PROVE  CountSuccessors(a, batch[k]) \in S[k]
  <2> DEFINE c == CountSuccessors(a, batch[k])
  <2>1. a \in TableSet /\ Good(k - 1, a) /\ k - 1 \in 0 .. n /\ k \in 0 .. n
    <3>1. k - 1 \in 0 .. n /\ k \in 0 .. n
      BY <1>0
    <3> HIDE DEF Good
    <3> QED
      BY <1>4, <3>1
  <2>2. J(k) = J(k - 1) \cup {x[k]}
    <3>1. 1 .. k = (1 .. k - 1) \cup {k}
      BY <1>0
    <3> QED
      BY <3>1
  <2>3. x[k] \notin J(k - 1)
    <3>1. \A j \in 1 .. k - 1 : j \in 1 .. n /\ j # k
      BY <1>0
    <3> QED
      BY <1>0, <3>1
  <2>4. IsFiniteSet(J(k - 1))
    BY <1>1, <2>1
  <2>5. Bounded(p, a, J(k))
    <3>1. IsFiniteSet(J(n)) /\ J(k) \in SUBSET J(n)
      <4> HIDE DEF J, Good
      <4>1. n \in 0 .. n /\ k \in 0 .. n
        BY <1>0
      <4> QED
        BY <1>1, <4>1
    <3>2. Bounded(p, s, J(n))
      OBVIOUS
    <3>3. a.commit = s.commit /\ a.successors = s.successors
      BY <2>1
    <3> HIDE DEF J, Good, n
    <3> QED
      BY <3>1, <3>2, <3>3, BoundedFewer
  <2>6. Told(x[k]) = batch[k] /\ batch[k] \in Tasks
    BY <1>0
  <2>7. PainterSound(p, a, J(k - 1)) /\ a.commit <= Len(test_graph[p])
    BY <2>1
  <2> HIDE DEF J, c
  <2>8. /\ c \in TableSet /\ c.commit = a.commit /\ c.done = a.done
        /\ c.successors = a.successors
        /\ PainterSound(p, c, J(k))
        /\ \A u \in Tasks \ Own(p) : c.cnt[u] = a.cnt[u]
    <3>1. c = CountSuccessors(a, Told(x[k]))
      BY <2>6 DEF c
    <3> DEFINE K == J(k - 1)
               y == x[k]
    <3>2. a \in TableSet
      BY <2>1
    <3>3. /\ J(k) = K \cup {y} /\ y \notin K /\ IsFiniteSet(K) /\ Bounded(p, a, K \cup {y})
          /\ PainterSound(p, a, K) /\ Told(y) \in Tasks /\ c = CountSuccessors(a, Told(y))
      BY <2>2, <2>3, <2>4, <2>5, <2>6, <2>7, <3>1
    <3> HIDE DEF Good, K, y
    <3> QED
      BY <2>7, <3>2, <3>3, CountSuccessorsSound, SMTT(30)
  <2>9. Good(k, c)
    BY <2>1, <2>8
  <2> HIDE DEF Good
  <2> QED
    BY <2>1, <2>8, <2>9 DEF c
<1>5. e \in S[n]
  <2>1. e = Iterate(CountSuccessors, s, batch)
    BY Zenon DEF resolve_dep
  <2> HIDE DEF S, e
  <2> QED
    BY <1>2, <1>3, <1>4, <2>1, IterateCountSuccessors
<1>6. e \in TableSet /\ Good(n, e)
  <2> HIDE DEF Good, e
  <2> QED
    BY <1>0, <1>5
<1> HIDE DEF e
<1> QED
  BY <1>6 DEF e

----------------------------------------------------------------------------
(* Types of a round.                                                        *)

\* Counting down leaves tables tables, whatever the counters hold.
LEMMA CountdownTyped ==
  ASSUME NEW s \in TableSet, NEW t \in Tasks
  PROVE  /\ Countdown(s, t) \in TableSet
         /\ Countdown(s, t).commit = s.commit /\ Countdown(s, t).done = s.done
         /\ Countdown(s, t).successors = s.successors
<1> DEFINE c == [s EXCEPT !.cnt[t] = Left(s.cnt[t])]
           e == Countdown(s, t)
<1>1. s.cnt \in [Tasks -> Nat]
  BY DEF TableSet
<1>2. Left(s.cnt[t]) \in Nat
  BY <1>1, TaskFacts DEF Left
<1>3. c \in TableSet /\ c.commit = s.commit /\ c.done = s.done /\ c.successors = s.successors
  BY <1>2 DEF TableSet
<1>4. e = PushReady(c, t) \/ e = c
  BY DEF Countdown, Left
<1> HIDE DEF c, e
<1>5. CASE e = c
  BY <1>3, <1>5 DEF e
<1>6. CASE e = PushReady(c, t)
  <2> DEFINE g == PushReady(c, t)
  <2>1. g \in TableSet /\ g.commit = c.commit /\ g.done = c.done /\ g.successors = c.successors
    BY <1>3, PushReadyFacts
  <2> HIDE DEF g
  <2> QED
    BY <1>3, <1>6, <2>1 DEF e, g
<1> QED
  BY <1>4, <1>5, <1>6

\* So does counting down for one completion,
LEMMA CountSuccessorsTyped ==
  ASSUME NEW s \in TableSet, NEW b \in Tasks
  PROVE  /\ CountSuccessors(s, b) \in TableSet
         /\ CountSuccessors(s, b).commit = s.commit /\ CountSuccessors(s, b).done = s.done
<1> DEFINE q == s.successors[b]
           Good(e) == e.commit = s.commit /\ e.done = s.done
           S == [k \in 0 .. Len(q) |-> { e \in TableSet : Good(e) }]
           e == CountSuccessors(s, b)
<1>1. q \in Seq(Tasks)
  BY DEF TableSet
<1>2. e = Iterate(Countdown, s, q)
  BY Zenon DEF CountSuccessors
<1> HIDE DEF q, e
<1>3. Len(q) \in Nat /\ \A k \in 1 .. Len(q) : q[k] \in Tasks
  BY <1>1
<1>4. S \in [0 .. Len(q) -> SUBSET TableSet] /\ s \in S[0]
  BY <1>3
<1>5. ASSUME NEW k \in 1 .. Len(q), NEW a \in S[k - 1]
      PROVE  Countdown(a, q[k]) \in S[k]
  <2>1. k \in 0 .. Len(q) /\ k - 1 \in 0 .. Len(q) /\ q[k] \in Tasks
    BY <1>3
  <2>2. a \in TableSet /\ Good(a)
    BY <1>5, <2>1
  <2>3. Countdown(a, q[k]) \in TableSet /\ Good(Countdown(a, q[k]))
    BY <2>1, <2>2, CountdownTyped
  <2> HIDE DEF Good
  <2> QED
    BY <2>1, <2>3
<1>6. e \in S[Len(q)]
  <2> HIDE DEF S
  <2> QED
    BY <1>1, <1>2, <1>4, <1>5, IterateCountdown
<1> QED
  BY <1>3, <1>6 DEF e

\* committing one task after the other,
LEMMA AddSuccessorsTyped ==
  ASSUME NEW p \in Painters, NEW s \in TableSet, s.commit <= Len(test_graph[p])
  PROVE  /\ add_successors(p, s) \in TableSet
         /\ add_successors(p, s).commit <= Len(test_graph[p])
         /\ add_successors(p, s).done = s.done
<1> DEFINE w == Window(p, s.commit)
           Good(k, e) == e.commit = s.commit + k /\ e.done = s.done
           S == [k \in 0 .. Len(w) |-> { e \in TableSet : Good(k, e) }]
           e == add_successors(p, s)
<1>0. s.commit \in Nat /\ Len(test_graph[p]) \in Nat
  <2>1. test_graph[p] \in Seq([id : Nat, type : Types, predecessors : Seq(Nat)])
    BY GraphAssumption
  <2> QED
    BY <2>1 DEF TableSet
<1>1. /\ w \in Seq(Records) /\ Len(w) \in Nat /\ s.commit + Len(w) <= Len(test_graph[p])
      /\ \A k \in 1 .. Len(w) : w[k] = test_graph[p][s.commit + k]
  BY <1>0, WindowFacts
<1>2. e = Iterate(CommitOne, s, w)
  BY Zenon DEF add_successors
<1> HIDE DEF w, e
<1>3. S \in [0 .. Len(w) -> SUBSET TableSet] /\ s \in S[0]
  BY <1>0, <1>1
<1>4. ASSUME NEW k \in 1 .. Len(w), NEW a \in S[k - 1]
      PROVE  CommitOne(a, w[k]) \in S[k]
  <2>1. k \in 0 .. Len(w) /\ k - 1 \in 0 .. Len(w) /\ s.commit + k \in 1 .. Len(test_graph[p])
    BY <1>0, <1>1
  <2>2. a \in TableSet /\ Good(k - 1, a)
    BY <1>4, <2>1
  <2> DEFINE g == CommitOne(a, w[k])
  <2>3. w[k] = test_graph[p][s.commit + k]
    BY <1>1
  <2>4. g \in TableSet /\ g.commit = a.commit + 1 /\ g.done = a.done
    <3> DEFINE j == s.commit + k
    <3>1. j \in 1 .. Len(test_graph[p]) /\ g = CommitOne(a, test_graph[p][j]) /\ a \in TableSet
      BY <2>1, <2>2, <2>3
    <3> HIDE DEF j, g
    <3> QED
      BY <3>1, CommitOneFacts, ZenonT(40)
  <2> HIDE DEF g
  <2>5. g \in TableSet /\ Good(k, g)
    BY <1>0, <2>1, <2>2, <2>4
  <2> HIDE DEF Good
  <2> QED
    BY <2>1, <2>5 DEF g
<1>5. e \in S[Len(w)]
  <2> HIDE DEF S
  <2> QED
    BY <1>1, <1>2, <1>3, <1>4, IterateCommitOne
<1>6. e \in TableSet /\ Good(Len(w), e)
  BY <1>1, <1>5
<1> QED
  BY <1>1, <1>6 DEF e

\* and counting down for a batch.
LEMMA ResolveTyped ==
  ASSUME NEW s \in TableSet, NEW batch \in Seq(Tasks)
  PROVE  /\ resolve_dep(s, batch) \in TableSet
         /\ resolve_dep(s, batch).commit = s.commit /\ resolve_dep(s, batch).done = s.done
<1> DEFINE Good(e) == e.commit = s.commit /\ e.done = s.done
           S == [k \in 0 .. Len(batch) |-> { e \in TableSet : Good(e) }]
           e == resolve_dep(s, batch)
<1>1. Len(batch) \in Nat /\ \A k \in 1 .. Len(batch) : batch[k] \in Tasks
  OBVIOUS
<1>2. S \in [0 .. Len(batch) -> SUBSET TableSet] /\ s \in S[0]
  BY <1>1
<1>3. ASSUME NEW k \in 1 .. Len(batch), NEW a \in S[k - 1]
      PROVE  CountSuccessors(a, batch[k]) \in S[k]
  <2>1. k \in 0 .. Len(batch) /\ k - 1 \in 0 .. Len(batch) /\ batch[k] \in Tasks
    BY <1>1
  <2>2. a \in TableSet /\ Good(a)
    BY <1>3, <2>1
  <2>3. CountSuccessors(a, batch[k]) \in TableSet /\ Good(CountSuccessors(a, batch[k]))
    BY <2>1, <2>2, CountSuccessorsTyped
  <2> HIDE DEF Good
  <2> QED
    BY <2>1, <2>3
<1>4. e = Iterate(CountSuccessors, s, batch)
  BY Zenon DEF resolve_dep
<1> HIDE DEF e
<1>5. e \in S[Len(batch)]
  <2> HIDE DEF S
  <2> QED
    BY <1>2, <1>3, <1>4, IterateCountSuccessors
<1> QED
  BY <1>1, <1>5 DEF e


----------------------------------------------------------------------------
(* The constants, and what each step does to a record.                      *)

DispPcs  == {"msgq", "remote", "mix", "vector", "cube", "left"}
PaintPcs == {"deal", "cube", "vector", "left"}

\* There is a dispatcher 0 and a painter 0; there are finitely many units and cores.
LEMMA ConstantFacts ==
  /\ 0 \in Dispatchers /\ 0 \in Painters /\ Dispatchers \subseteq Nat
  /\ QUEUE_DEPTH \in Nat /\ CQ_BATCH_SIZE \in Nat \ {0}
  /\ IsFiniteSet(Dispatchers) /\ IsFiniteSet(Units) /\ IsFiniteSet(Cores)
  /\ Cores \subseteq Nat /\ AIC_CNT_PER_THREAD \in Nat \ {0}
<1>1. /\ PAINTER_THREAD_CNT \in Nat \ {0} /\ DISPATCH_THREAD_CNT \in Nat \ {0}
      /\ AIC_CNT_PER_THREAD \in Nat \ {0} /\ QUEUE_DEPTH \in Nat /\ CQ_BATCH_SIZE \in Nat \ {0}
  BY SchedulerAssumption
<1>2. IsFiniteSet(Dispatchers) /\ IsFiniteSet(Cores) /\ IsFiniteSet(0 .. 1)
  <2>1. \A a, b \in Int : IsFiniteSet(a .. b)
    BY FS_Interval
  <2>2. DISPATCH_THREAD_CNT - 1 \in Int /\ AIC_CNT_PER_THREAD - 1 \in Int /\ 0 \in Int /\ 1 \in Int
    BY <1>1
  <2> QED
    BY <2>1, <2>2, Zenon DEF Dispatchers, Cores
<1>3. IsFiniteSet((0 .. 1) \X (Cores \X (0 .. 1)))
  <2>1. IsFiniteSet(Cores \X (0 .. 1))
    BY <1>2, FS_Product
  <2> QED
    BY <1>2, <2>1, FS_Product
<1>4. IsFiniteSet(Units)
  <2> DEFINE P == (0 .. 1) \X (Cores \X (0 .. 1))
             f == [x \in P |-> <<x[1], x[2][1], x[2][2]>>]
             F == { f[x] : x \in P }
  <2>1. IsFiniteSet(F)
    <3> HIDE DEF P, f
    <3> QED
      BY <1>3, ImageFacts DEF P
  <2>2. ASSUME NEW u \in Units
        PROVE  u \in F
    <3>1. u[1] \in 0 .. 1 /\ u[2] \in Cores /\ u[3] \in 0 .. 1 /\ u = <<u[1], u[2], u[3]>>
      BY DEF Units, Types, CUBE, VECTOR
    <3>2. <<u[1], <<u[2], u[3]>>>> \in P
      BY <3>1
    <3>3. f[<<u[1], <<u[2], u[3]>>>>] = u
      BY <3>1, <3>2
    <3> QED
      BY <3>2, <3>3
  <2> HIDE DEF F
  <2> QED
    BY <2>1, <2>2, FS_Subset
<1> QED
  BY <1>1, <1>2, <1>4 DEF Dispatchers, Painters, Cores

PaintSet ==
    [ pc : PaintPcs, turn : Dispatchers, read : [Dispatchers -> Nat], commit : Nat,
      done : SUBSET Tasks, successors : [Tasks -> Seq(Tasks)], ready : [Types -> Seq(Tasks)] ]

\* Going on to the next turn, or to send what is ready, moves the painter's counter alone.
LEMMA TurnFacts ==
  ASSUME NEW s \in PaintSet, NEW e \in {NextTurn(s), ToSend(s)}
  PROVE  /\ e \in PaintSet /\ e.read = s.read /\ e.commit = s.commit /\ e.done = s.done
         /\ e.successors = s.successors /\ e.ready = s.ready
<1> DEFINE R == [Dispatchers -> Nat]
           D == SUBSET Tasks
           C == [Tasks -> Seq(Tasks)]
           Y == [Types -> Seq(Tasks)]
           Like(f) == /\ f \in PaintSet /\ f.read = s.read /\ f.commit = s.commit
                      /\ f.done = s.done /\ f.successors = s.successors /\ f.ready = s.ready
<1>0. PaintSet = [ pc : PaintPcs, turn : Dispatchers, read : R, commit : Nat,
                   done : D, successors : C, ready : Y ]
  BY DEF PaintSet
<1> HIDE DEF R, D, C, Y
<1>1. ASSUME NEW t \in Dispatchers, NEW c \in PaintPcs
      PROVE  Like([s EXCEPT !.turn = t, !.pc = c])
  BY <1>0
<1>2. ASSUME NEW c \in PaintPcs
      PROVE  Like([s EXCEPT !.pc = c])
  BY <1>0
<1> HIDE DEF Like
<1>3. Like(NextTurn(s))
  <2>1. s.turn \in Dispatchers
    BY <1>0
  <2>2. s.turn + 1 < DISPATCH_THREAD_CNT => s.turn + 1 \in Dispatchers
    BY <2>1, SchedulerAssumption DEF Dispatchers
  <2>3. "deal" \in PaintPcs /\ Again("deal") \in PaintPcs
    BY DEF PaintPcs, Again
  <2> QED
    BY <1>1, <2>2, <2>3, ConstantFacts DEF NextTurn
<1>4. Like(ToSend(s))
  <2>1. "cube" \in PaintPcs /\ "vector" \in PaintPcs
    BY DEF PaintPcs
  <2>2. ToSend(s) \in {[s EXCEPT !.pc = "cube"], [s EXCEPT !.pc = "vector"], NextTurn(s)}
    BY DEF ToSend
  <2> QED
    BY <1>2, <1>3, <2>1, <2>2
<1> QED
  BY <1>3, <1>4 DEF Like

DispSet == [ pc : DispPcs, free : SUBSET Units, map : [Units -> Tasks] ]
CqSet   == [ log : Seq(Tasks), spsc : Nat, remote : Nat ]
CoreSet == [ runs : [Units -> Tasks \cup {NoTask}], msg : SUBSET Units ]

\* The parts of the type invariant, by their names.
LEMMA TypeFacts ==
  ASSUME TypeOK
  PROVE  /\ disp \in [Dispatchers -> DispSet] /\ cq \in [Dispatchers -> CqSet]
         /\ cores \in [Dispatchers -> CoreSet] /\ paint \in [Painters -> PaintSet]
         /\ ready_queue \in [Dispatchers -> [Types -> Seq(Tasks)]]
         /\ \A d \in Dispatchers : cq[d].remote <= Len(cq[d].log) /\ cq[d].spsc = Len(cq[d].log)
         /\ \A p \in Painters : paint[p].commit <= Len(test_graph[p])
                                 /\ \A d \in Dispatchers : paint[p].read[d] <= Visible(p, d)
         /\ g_predecessor_cnt \in [Tasks -> Nat] /\ launched \in [Tasks -> Nat]
         /\ completed_task_cnt \in Nat /\ g_is_done \in BOOLEAN /\ ran \subseteq Tasks
  BY DEF TypeOK, DispSet, CqSet, CoreSet, PaintSet, DispPcs, PaintPcs

\* What a painter takes of a dispatcher's completions are the next ones it may see.
LEMMA BatchFacts ==
  ASSUME TypeOK, NEW p \in Painters, NEW d \in Dispatchers
  PROVE  /\ Batch(p, d) \in Seq(Tasks) /\ paint[p].read[d] \in Nat
         /\ paint[p].read[d] + Len(Batch(p, d)) <= Visible(p, d)
         /\ Visible(p, d) <= Len(cq[d].log)
         /\ \A k \in 1 .. Len(Batch(p, d)) :
              /\ paint[p].read[d] + k \in DOMAIN cq[d].log
              /\ Batch(p, d)[k] = cq[d].log[paint[p].read[d] + k]
<1> DEFINE l == cq[d].log
           r == paint[p].read[d]
           v == Visible(p, d)
           n == Min({v, r + CQ_BATCH_SIZE})
           b == Batch(p, d)
<1>1. l \in Seq(Tasks) /\ r \in Nat /\ v \in Nat /\ r <= v /\ v <= Len(l)
  <2>1. cq[d] \in CqSet /\ paint[p] \in PaintSet
    BY TypeFacts
  <2>2. l \in Seq(Tasks) /\ cq[d].remote \in Nat /\ r \in Nat /\ cq[d].spsc \in Nat
    BY <2>1 DEF CqSet, PaintSet
  <2> QED
    BY <2>2, TypeFacts DEF Visible
<1>2. n \in Nat /\ r <= n /\ n <= v
  <2>1. v \in Int /\ r + CQ_BATCH_SIZE \in Int /\ CQ_BATCH_SIZE \in Nat
    BY <1>1, ConstantFacts
  <2> DEFINE c == r + CQ_BATCH_SIZE
  <2> HIDE DEF v, c, r
  <2>2. n = IF v <= c THEN v ELSE c
    BY <2>1, MinFacts DEF c
  <2> HIDE DEF n
  <2> QED
    BY <1>1, <2>1, <2>2 DEF c
<1>3. b = SubSeq(l, r + 1, n)
  BY DEF Batch
<1> HIDE DEF l, r, n, v, b
<1>4. \A i \in r + 1 .. n : i \in 1 .. Len(l) /\ l[i] \in Tasks
  BY <1>1, <1>2
<1>9. r + 1 \in Int /\ n \in Int
  BY <1>1, <1>2
<1>5. /\ b \in Seq(Tasks) /\ Len(b) = IF r + 1 <= n THEN n - (r + 1) + 1 ELSE 0
      /\ \A k \in 1 .. n - (r + 1) + 1 : b[k] = l[r + 1 + k - 1]
  BY <1>3, <1>4, <1>9, SubSeqProperties
<1>6. Len(b) = n - r /\ r + Len(b) <= v
  BY <1>1, <1>2, <1>5
<1>7. \A k \in 1 .. Len(b) : r + k \in 1 .. Len(l) /\ b[k] = l[r + k]
  BY <1>1, <1>2, <1>4, <1>5, <1>6
<1>8. DOMAIN l = 1 .. Len(l)
  BY <1>1
<1> QED
  BY <1>1, <1>5, <1>6, <1>7, <1>8 DEF l, r, v, b

\* Dispatcher d tells of the tasks of the units with a message, which it takes in an order.
Reads(d, n, units, tasks) ==
    /\ n \in Nat /\ units \in [1 .. n -> Units] /\ tasks \in Seq(Tasks)
    /\ \A j, k \in 1 .. n : units[j] = units[k] => j = k
    /\ cores[d].msg = { units[k] : k \in 1 .. n }
    /\ Len(tasks) = n /\ \A k \in 1 .. n : tasks[k] = disp[d].map[units[k]]
    /\ cq'[d].log = cq[d].log \o tasks

\* Reading the messages tells of each unit's task once and frees no other unit.
LEMMA ReadFacts ==
  ASSUME TypeOK, NEW d \in Dispatchers, read_msgq(d)
  PROVE  /\ disp[d].pc = "msgq"
         /\ \E n, units, tasks : Reads(d, n, units, tasks)
         /\ cq' \in [Dispatchers -> CqSet] /\ cq'[d].spsc = Len(cq'[d].log)
         /\ cq'[d].remote = cq[d].remote /\ Len(cq[d].log) <= Len(cq'[d].log)
         /\ disp' \in [Dispatchers -> DispSet] /\ disp'[d].map = disp[d].map
         /\ disp'[d].free \subseteq disp[d].free \cup cores[d].msg
         /\ cores' \in [Dispatchers -> CoreSet]
         /\ cores'[d].runs = cores[d].runs /\ cores'[d].msg = {}
         /\ \A e \in Dispatchers \ {d} : disp'[e] = disp[e] /\ cq'[e] = cq[e] /\ cores'[e] = cores[e]
         /\ UNCHANGED <<ready_queue, paint, g_predecessor_cnt, completed_task_cnt, g_is_done,
                        ran, launched>>
<1> DEFINE S == cores[d].msg
           n == Cardinality(S)
           F == set_mix(Freed(d))
<1>1. /\ disp[d] \in DispSet /\ cq[d] \in CqSet /\ cores[d] \in CoreSet
      /\ disp \in [Dispatchers -> DispSet] /\ cq \in [Dispatchers -> CqSet]
      /\ cores \in [Dispatchers -> CoreSet] /\ cq[d].spsc = Len(cq[d].log)
  BY TypeFacts
<1>2. /\ disp[d].map \in [Units -> Tasks] /\ disp[d].free \subseteq Units /\ S \subseteq Units
      /\ cq[d].log \in Seq(Tasks) /\ cq[d].remote \in Nat
  BY <1>1 DEF DispSet, CqSet, CoreSet
<1>3. n \in Nat
  BY <1>2, ConstantFacts, FS_Subset, FS_CardinalityType
<1>4. F \subseteq disp[d].free \cup S
  BY DEF set_mix, Freed
<1>5. PICK units \in InOrder(S, Before) :
        LET tasks == [k \in DOMAIN units |-> disp[d].map[units[k]]]
        IN /\ disp' = [disp EXCEPT ![d].free = F,
                                   ![d].pc = IF units = <<>> THEN "mix" ELSE "remote"]
           /\ cq' = [cq EXCEPT ![d].log = @ \o tasks, ![d].spsc = @ + Len(tasks)]
  BY DEF read_msgq
<1>6. units \in [1 .. n -> S] /\ Range(units) = S /\ \A j, k \in 1 .. n : j < k => Before(units[j], units[k])
  BY <1>5 DEF InOrder
<1>7. \A j, k \in 1 .. n : units[j] = units[k] => j = k
  <2>2. ASSUME NEW x \in S
        PROVE  ~ Before(x, x)
    <3>1. x[1] \in Int /\ x[2] \in Int /\ x[3] \in Int /\ AIC_CNT_PER_THREAD \in Int
      <4>1. x \in Types \X Cores \X {0, 1}
        BY <1>2 DEF Units
      <4>2. x[1] \in Types /\ x[2] \in Cores /\ x[3] \in {0, 1}
        BY <4>1
      <4>3. x[1] \in {0, 1}
        BY <4>2 DEF Types, CUBE, VECTOR
      <4>4. AIC_CNT_PER_THREAD \in Int /\ Cores \subseteq Int
        BY ConstantFacts
      <4> DEFINE a == x[1]
                 b == x[2]
                 c == x[3]
      <4>5. a \in {0, 1} /\ b \in Int /\ c \in {0, 1}
        BY <4>2, <4>3, <4>4
      <4> HIDE DEF a, b, c
      <4>6. a \in Int /\ b \in Int /\ c \in Int
        BY <4>5
      <4> QED
        BY <4>4, <4>6 DEF a, b, c
    <3> DEFINE i == x[1] * 2 * AIC_CNT_PER_THREAD + x[3] * AIC_CNT_PER_THREAD + x[2]
    <3>2. i \in Int
      BY <3>1
    <3>3. ~ (i < i)
      <4> HIDE DEF i
      <4> QED
        BY <3>2
    <3> QED
      BY <3>3 DEF Before
  <2>3. ASSUME NEW j \in 1 .. n, NEW k \in 1 .. n, units[j] = units[k]
        PROVE  ~ (j < k)
    <3>1. units[j] \in S /\ (j < k => Before(units[j], units[k]))
      BY <1>6
    <3> QED
      BY <2>2, <2>3, <3>1
  <2> HIDE DEF S, n
  <2> QED
    BY <1>3, <2>3
<1> DEFINE tasks == [k \in DOMAIN units |-> disp[d].map[units[k]]]
           c == IF units = <<>> THEN "mix" ELSE "remote"
<1> HIDE DEF S, n, F
<1>8. /\ tasks \in Seq(Tasks) /\ Len(tasks) = n
      /\ \A k \in 1 .. n : tasks[k] = disp[d].map[units[k]]
  BY <1>2, <1>3, <1>6
<1>9. /\ disp' = [disp EXCEPT ![d].free = F, ![d].pc = c]
      /\ cq' = [cq EXCEPT ![d].log = cq[d].log \o tasks, ![d].spsc = cq[d].spsc + Len(tasks)]
      /\ cores' = [cores EXCEPT ![d].msg = {}]
  BY <1>1, <1>5 DEF read_msgq, Acknowledged
<1>10. S = { units[k] : k \in 1 .. n } /\ units \in [1 .. n -> Units]
  BY <1>2, <1>6 DEF Range
<1> HIDE DEF tasks, c
<1>11. /\ cq[d].log \o tasks \in Seq(Tasks) /\ Len(cq[d].log \o tasks) = cq[d].spsc + Len(tasks)
       /\ cq[d].spsc + Len(tasks) \in Nat /\ Len(cq[d].log) <= Len(cq[d].log \o tasks)
  <2> DEFINE l == cq[d].log
  <2>1. l \in Seq(Tasks) /\ cq[d].spsc = Len(l) /\ tasks \in Seq(Tasks)
    BY <1>1, <1>2, <1>8
  <2> HIDE DEF l
  <2>2. l \o tasks \in Seq(Tasks) /\ Len(l \o tasks) = Len(l) + Len(tasks)
    BY <2>1, ConcatProperties
  <2>3. Len(l) \in Nat /\ Len(tasks) \in Nat
    BY <2>1
  <2> HIDE DEF l
  <2> QED
    BY <2>1, <2>2, <2>3 DEF l
<1>12. /\ cq' \in [Dispatchers -> CqSet] /\ cq'[d].log = cq[d].log \o tasks
       /\ cq'[d].spsc = cq[d].spsc + Len(tasks) /\ cq'[d].remote = cq[d].remote
       /\ \A e \in Dispatchers \ {d} : cq'[e] = cq[e]
  <2> DEFINE L == Seq(Tasks)
             l == cq[d].log \o tasks
             m == cq[d].spsc + Len(tasks)
  <2>1. CqSet = [log : L, spsc : Nat, remote : Nat] /\ l \in L /\ m \in Nat
    BY <1>11 DEF CqSet
  <2>2. cq' = [cq EXCEPT ![d].log = l, ![d].spsc = m]
    BY <1>9
  <2> HIDE DEF L, l, m
  <2>3. /\ cq' \in [Dispatchers -> CqSet] /\ cq'[d].log = l /\ cq'[d].spsc = m
        /\ cq'[d].remote = cq[d].remote /\ \A e \in Dispatchers \ {d} : cq'[e] = cq[e]
    BY <1>1, <2>1, <2>2
  <2> QED
    BY <2>3 DEF l, m
<1>13. /\ disp' \in [Dispatchers -> DispSet] /\ disp'[d].map = disp[d].map /\ disp'[d].free = F
       /\ \A e \in Dispatchers \ {d} : disp'[e] = disp[e]
  <2>1. c \in DispPcs
    BY DEF c, DispPcs
  <2>2. F \in SUBSET Units
    BY <1>2, <1>4
  <2> DEFINE P == SUBSET Units
             M == [Units -> Tasks]
  <2>3. DispSet = [pc : DispPcs, free : P, map : M] /\ F \in P
    BY <2>2 DEF DispSet
  <2> HIDE DEF P, M
  <2> QED
    BY <1>1, <1>9, <2>1, <2>3
<1>14. /\ cores' \in [Dispatchers -> CoreSet] /\ cores'[d].runs = cores[d].runs /\ cores'[d].msg = {}
       /\ \A e \in Dispatchers \ {d} : cores'[e] = cores[e]
  <2> DEFINE R == [Units -> Tasks \cup {NoTask}]
             M == SUBSET Units
  <2>1. CoreSet = [runs : R, msg : M] /\ {} \in M
    BY DEF CoreSet
  <2> HIDE DEF R, M
  <2> QED
    BY <1>1, <1>9, <2>1
<1>15. /\ disp[d].pc = "msgq"
       /\ UNCHANGED <<ready_queue, paint, g_predecessor_cnt, completed_task_cnt, g_is_done,
                      ran, launched>>
  BY DEF read_msgq
<1>16. Reads(d, n, units, tasks)
  BY <1>3, <1>7, <1>8, <1>10, <1>12 DEF Reads, S
<1> QED
  BY <1>4, <1>11, <1>12, <1>13, <1>14, <1>15, <1>16 DEF S

\* Dispatcher d gives the first tasks of queue v, as many as got, to the free units given.
Sends(d, v, got, given) ==
    LET y == TypeServed(d)
        q == ready_queue[v][y]
    IN /\ got \in Nat \ {0} /\ got <= Len(q)
       /\ given \in [1 .. got -> disp[d].free]
       /\ \A j, k \in 1 .. got : given[j] = given[k] => j = k
       /\ ready_queue' = [ready_queue EXCEPT ![v][y] = SubSeq(@, got + 1, Len(@))]
       /\ disp'[d].free = disp[d].free \ { given[k] : k \in 1 .. got }
       /\ \A k \in 1 .. got : disp'[d].map[given[k]] = q[k] /\ cores'[d].runs[given[k]] = q[k]
       /\ \A u \in Units : (\A k \in 1 .. got : given[k] # u) =>
            disp'[d].map[u] = disp[d].map[u] /\ cores'[d].runs[u] = cores[d].runs[u]
       /\ launched' = [t \in Tasks |-> launched[t] + Cardinality({ k \in 1 .. got : q[k] = t })]

\* Sending does no more than that.
LEMMA SendFacts ==
  ASSUME TypeOK, NEW d \in Dispatchers, send_task(d)
  PROVE  /\ TypeServed(d) \in Types /\ disp[d].pc # "msgq"
         /\ \E v \in Dispatchers : \E got, given : Sends(d, v, got, given)
         /\ disp' \in [Dispatchers -> DispSet]
         /\ cores' \in [Dispatchers -> CoreSet] /\ cores'[d].msg = cores[d].msg
         /\ \A e \in Dispatchers \ {d} : disp'[e] = disp[e] /\ cores'[e] = cores[e]
         /\ UNCHANGED <<cq, paint, g_predecessor_cnt, completed_task_cnt, g_is_done, ran>>
<1> DEFINE y == TypeServed(d)
           S == FreeCores(d)
           n == Cardinality(S)
           q(v) == ready_queue[v][y]
<1>1. /\ disp[d] \in DispSet /\ cores[d] \in CoreSet
      /\ disp \in [Dispatchers -> DispSet] /\ cores \in [Dispatchers -> CoreSet]
      /\ ready_queue \in [Dispatchers -> [Types -> Seq(Tasks)]]
  BY TypeFacts
<1>2. /\ disp[d].map \in [Units -> Tasks] /\ disp[d].free \subseteq Units
      /\ cores[d].runs \in [Units -> Tasks \cup {NoTask}] /\ y \in Types
  BY <1>1 DEF DispSet, CoreSet, TypeServed, Types
<1>3. n \in Nat /\ S \subseteq Cores
  BY ConstantFacts, FS_Subset, FS_CardinalityType DEF FreeCores
<1>4. PICK v \in Victims(d), free \in InOrder(FreeCores(d), Lower) :
      LET z == TypeServed(d)
          got == Min({Len(free), Len(ready_queue[v][z])})
          tasks == SubSeq(ready_queue[v][z], 1, got)
          given == [k \in 1 .. got |->
                      <<z, free[k], IF <<z, free[k], 0>> \in disp[d].free THEN 0 ELSE 1>>]
          Given(u) == CHOOSE k \in 1 .. got : given[k] = u
          Filled(f) == [u \in Units |-> IF u \in Range(given) THEN tasks[Given(u)] ELSE f[u]]
      IN /\ disp[d].pc \in {"mix", "vector", "cube"}
         /\ got > 0
         /\ UNCHANGED <<cq, paint, g_predecessor_cnt, completed_task_cnt, g_is_done, ran>>
         /\ ready_queue' = [ready_queue EXCEPT ![v][z] = SubSeq(@, got + 1, Len(@))]
         /\ disp' = [disp EXCEPT ![d].free = @ \ Range(given), ![d].map = Filled(@),
                                 ![d].pc = AfterSend(d, TRUE)]
         /\ cores' = [cores EXCEPT ![d].runs = Filled(@)]
         /\ launched' = [t \in Tasks |-> launched[t] + Cardinality({ k \in 1 .. got : tasks[k] = t })]
  BY ZenonT(40) DEF send_task
<1> DEFINE got == Min({Len(free), Len(q(v))})
           tasks == SubSeq(q(v), 1, got)
           given == [k \in 1 .. got |->
                      <<y, free[k], IF <<y, free[k], 0>> \in disp[d].free THEN 0 ELSE 1>>]
           Given(u) == CHOOSE k \in 1 .. got : given[k] = u
           Filled(f) == [u \in Units |-> IF u \in Range(given) THEN tasks[Given(u)] ELSE f[u]]
<1>5. free \in [1 .. n -> S] /\ \A j, k \in 1 .. n : j < k => free[j] < free[k]
  BY <1>4 DEF InOrder, Lower
<1>6. v \in Dispatchers /\ q(v) \in Seq(Tasks)
  <2>1. v \in Dispatchers
    BY <1>4 DEF Victims
  <2> QED
    BY <1>1, <1>2, <2>1
<1>7. Len(free) = n
  BY <1>3, <1>5
<1>8. got \in Nat \ {0} /\ got <= n /\ got <= Len(q(v))
  <2>1. got > 0
    BY <1>4
  <2> DEFINE m == Len(q(v))
  <2>2. m \in Nat
    BY <1>6
  <2>3. got = Min({n, m})
    BY <1>7
  <2> HIDE DEF n, m, got
  <2>4. got = IF n <= m THEN n ELSE m
    BY <1>3, <2>2, <2>3, MinFacts
  <2> QED
    BY <1>3, <2>1, <2>2, <2>4 DEF m
<1>9. /\ disp[d].pc \in {"mix", "vector", "cube"}
      /\ ready_queue' = [ready_queue EXCEPT ![v][y] = SubSeq(@, got + 1, Len(@))]
      /\ disp' = [disp EXCEPT ![d].free = disp[d].free \ Range(given),
                              ![d].map = Filled(disp[d].map), ![d].pc = AfterSend(d, TRUE)]
      /\ cores' = [cores EXCEPT ![d].runs = Filled(cores[d].runs)]
      /\ launched' = [t \in Tasks |-> launched[t] + Cardinality({ k \in 1 .. got : tasks[k] = t })]
  BY <1>1, <1>4
<1>10. /\ tasks \in Seq(Tasks) /\ Len(tasks) = got
       /\ \A k \in 1 .. got : tasks[k] = q(v)[k] /\ tasks[k] \in Tasks
  <2> DEFINE l == q(v)
  <2>1. \A i \in 1 .. got : l[i] \in Tasks
    BY <1>6, <1>8
  <2>2. got \in Int /\ 1 \in Int /\ l \in Seq(Tasks)
    BY <1>6, <1>8
  <2> HIDE DEF got, l
  <2>3. /\ SubSeq(l, 1, got) \in Seq(Tasks)
        /\ Len(SubSeq(l, 1, got)) = IF 1 <= got THEN got - 1 + 1 ELSE 0
        /\ \A i \in 1 .. got - 1 + 1 : SubSeq(l, 1, got)[i] = l[1 + i - 1]
    BY <2>1, <2>2, SubSeqProperties
  <2>4. Len(SubSeq(l, 1, got)) = got /\ \A i \in 1 .. got : SubSeq(l, 1, got)[i] = l[i]
    BY <1>8, <2>3
  <2> QED
    BY <2>1, <2>3, <2>4 DEF l
<1> HIDE DEF got, tasks
<1>11. ASSUME NEW k \in 1 .. got
       PROVE  given[k] \in disp[d].free /\ given[k][2] = free[k]
  <2>1. k \in 1 .. n /\ free[k] \in S
    BY <1>3, <1>5, <1>8
  <2>2. {<<y, free[k], 0>>, <<y, free[k], 1>>} \subseteq disp[d].free
    BY <2>1 DEF FreeCores
  <2> QED
    BY <2>2
<1>12. \A j, k \in 1 .. got : given[j] = given[k] => j = k
  <2> SUFFICES ASSUME NEW j \in 1 .. got, NEW k \in 1 .. got, given[j] = given[k] PROVE j = k
    OBVIOUS
  <2>1. free[j] = free[k]
    BY <1>11
  <2>2. j \in 1 .. n /\ k \in 1 .. n
    BY <1>3, <1>8
  <2>3. free[j] \in Nat /\ free[k] \in Nat
    BY <1>3, <1>5, <2>2, ConstantFacts
  <2> QED
    BY <1>3, <1>5, <2>1, <2>2, <2>3
<1>13. given \in [1 .. got -> disp[d].free]
  <2>1. DOMAIN given = 1 .. got /\ given = [k \in 1 .. got |-> given[k]]
    OBVIOUS
  <2> HIDE DEF given
  <2> QED
    BY <1>11, <2>1
<1> HIDE DEF given
<1>14. Range(given) = { given[k] : k \in 1 .. got } /\ Range(given) \subseteq disp[d].free
  BY <1>13 DEF Range
<1>15. ASSUME NEW k \in 1 .. got
       PROVE  Given(given[k]) = k
  BY <1>12
<1>16. ASSUME NEW f, NEW T, f \in [Units -> Tasks \cup T]
       PROVE  /\ Filled(f) \in [Units -> Tasks \cup T]
              /\ \A k \in 1 .. got : Filled(f)[given[k]] = q(v)[k]
              /\ \A u \in Units : (\A k \in 1 .. got : given[k] # u) => Filled(f)[u] = f[u]
  <2>1. ASSUME NEW u \in Units, u \in Range(given)
        PROVE  tasks[Given(u)] \in Tasks
    BY <1>10, <1>14, <1>15, <2>1
  <2>2. \A k \in 1 .. got : given[k] \in Units /\ given[k] \in Range(given)
    BY <1>2, <1>11, <1>14
  <2> HIDE DEF Given
  <2>3. Filled(f) \in [Units -> Tasks \cup T]
    BY <1>16, <2>1
  <2>4. \A k \in 1 .. got : Filled(f)[given[k]] = q(v)[k]
    BY <1>10, <1>15, <2>2
  <2>5. \A u \in Units : (\A k \in 1 .. got : given[k] # u) => Filled(f)[u] = f[u]
    BY <1>14
  <2> QED
    BY <2>3, <2>4, <2>5
<1> DEFINE A == Filled(disp[d].map)
           C == Filled(cores[d].runs)
           F == disp[d].free \ Range(given)
           c == AfterSend(d, TRUE)
<1>17. /\ A \in [Units -> Tasks]
       /\ \A k \in 1 .. got : A[given[k]] = q(v)[k]
       /\ \A u \in Units : (\A k \in 1 .. got : given[k] # u) => A[u] = disp[d].map[u]
  <2>1. disp[d].map \in [Units -> Tasks \cup {}] /\ Tasks \cup {} = Tasks
    BY <1>2
  <2> HIDE DEF Filled
  <2> QED
    BY <1>16, <2>1
<1>18. /\ C \in [Units -> Tasks \cup {NoTask}]
       /\ \A k \in 1 .. got : C[given[k]] = q(v)[k]
       /\ \A u \in Units : (\A k \in 1 .. got : given[k] # u) => C[u] = cores[d].runs[u]
  <2> HIDE DEF Filled
  <2> QED
    BY <1>2, <1>16
<1>19. disp' = [disp EXCEPT ![d].free = F, ![d].map = A, ![d].pc = c]
       /\ cores' = [cores EXCEPT ![d].runs = C]
  BY <1>9
<1>20. F \in SUBSET Units /\ c \in DispPcs
  BY <1>2 DEF AfterSend, Again, DispPcs
<1> HIDE DEF Filled, A, C, F, c
<1>21. /\ disp' \in [Dispatchers -> DispSet] /\ disp'[d].map = A /\ disp'[d].free = F
       /\ \A e \in Dispatchers \ {d} : disp'[e] = disp[e]
  <2> DEFINE P == SUBSET Units
             M == [Units -> Tasks]
  <2>3. DispSet = [pc : DispPcs, free : P, map : M] /\ F \in P /\ A \in M
    BY <1>17, <1>20 DEF DispSet
  <2> HIDE DEF P, M
  <2> QED
    BY <1>1, <1>19, <1>20, <2>3
<1>22. /\ cores' \in [Dispatchers -> CoreSet] /\ cores'[d].runs = C /\ cores'[d].msg = cores[d].msg
       /\ \A e \in Dispatchers \ {d} : cores'[e] = cores[e]
  <2> DEFINE R == [Units -> Tasks \cup {NoTask}]
             M == SUBSET Units
  <2>1. CoreSet = [runs : R, msg : M] /\ C \in R
    BY <1>18 DEF CoreSet
  <2> HIDE DEF R, M
  <2> QED
    BY <1>1, <1>19, <2>1
<1>23. launched' = [t \in Tasks |-> launched[t] + Cardinality({ k \in 1 .. got : q(v)[k] = t })]
  <2>1. \A t : { k \in 1 .. got : tasks[k] = t } = { k \in 1 .. got : q(v)[k] = t }
    BY <1>10
  <2> QED
    BY <1>9, <2>1
<1>24. Sends(d, v, got, given)
  BY <1>8, <1>9, <1>12, <1>13, <1>14, <1>17, <1>18, <1>21, <1>22, <1>23 DEF Sends, F
<1>25. UNCHANGED <<cq, paint, g_predecessor_cnt, completed_task_cnt, g_is_done, ran>>
  BY ZenonT(40) DEF send_task
<1> QED
  BY <1>2, <1>6, <1>9, <1>21, <1>22, <1>24, <1>25

\* A painter's tables are tables, and those of its next round are what its round makes.
LEMMA TablesFacts ==
  ASSUME TypeOK, NEW p \in Painters
  PROVE  /\ Tables(p) \in TableSet /\ Tables(p).commit <= Len(test_graph[p])
         /\ \A batch \in Seq(Tasks) :
              LET u == update_task_state(Tables(p), batch)
              IN /\ u \in TableSet /\ u.commit = Tables(p).commit
                 /\ u.done = Tables(p).done \cup Range(batch)
                 /\ u.cnt = Tables(p).cnt /\ u.successors = Tables(p).successors
                 /\ u.ready = Tables(p).ready
<1> DEFINE A == [Tasks -> Nat]
           B == SUBSET Tasks
           C == [Tasks -> Seq(Tasks)]
           D == [Types -> Seq(Tasks)]
           E == [Dispatchers -> Nat]
           s == Tables(p)
<1>1. TableSet = [cnt : A, commit : Nat, done : B, successors : C, ready : D]
  BY DEF TableSet
<1>2. PaintSet = [ pc : PaintPcs, turn : Dispatchers, read : E, commit : Nat,
                   done : B, successors : C, ready : D ]
  BY DEF PaintSet
<1>3. paint[p] \in PaintSet /\ g_predecessor_cnt \in A /\ paint[p].commit <= Len(test_graph[p])
  BY TypeFacts
<1>4. ASSUME NEW batch \in Seq(Tasks)
      PROVE  s.done \cup Range(batch) \in B
  <2>1. Range(batch) \subseteq Tasks
    BY DEF Range
  <2>2. s.done \in B
    <3> HIDE DEF A, B, C, D, E
    <3> QED
      BY <1>2, <1>3 DEF Tables
  <2> QED
    BY <2>1, <2>2
<1> HIDE DEF A, B, C, D, E
<1>5. s \in TableSet /\ s.commit <= Len(test_graph[p])
  BY <1>1, <1>2, <1>3 DEF Tables
<1> HIDE DEF s
<1>6. ASSUME NEW batch \in Seq(Tasks)
      PROVE  LET u == update_task_state(s, batch)
              IN /\ u \in TableSet /\ u.commit = s.commit
                 /\ u.done = s.done \cup Range(batch)
                 /\ u.cnt = s.cnt /\ u.successors = s.successors
                 /\ u.ready = s.ready
  BY <1>1, <1>4, <1>5 DEF update_task_state
<1> QED
  BY <1>5, <1>6 DEF s

\* The tables after the round that takes batch from dispatcher d.
Round(p, batch) == resolve_dep(add_successors(p, update_task_state(Tables(p), batch)), batch)

\* A round with completions does no more to the painters than that.
LEMMA DealFacts ==
  ASSUME TypeOK, NEW p \in Painters, deal_completed_queue(p)
  PROVE  LET d == paint[p].turn
             batch == Batch(p, d)
             e == Round(p, batch)
         IN /\ d \in Dispatchers /\ batch \in Seq(Tasks)
            /\ e \in TableSet /\ e.commit <= Len(test_graph[p])
            /\ paint' \in [Painters -> PaintSet]
            /\ paint'[p].read = [paint[p].read EXCEPT ![d] = @ + Len(batch)]
            /\ Tables(p)' = e /\ g_predecessor_cnt' = e.cnt
            /\ \A o \in Painters \ {p} : paint'[o] = paint[o]
            /\ completed_task_cnt' \in Nat /\ g_is_done' \in BOOLEAN
            /\ UNCHANGED <<disp, ready_queue, cq, cores, ran, launched>>
<1> DEFINE d == paint[p].turn
           batch == Batch(p, d)
           u == update_task_state(Tables(p), batch)
           a == add_successors(p, u)
           e == resolve_dep(a, batch)
           r == paint[p].read[d] + Len(batch)
           heard == [paint[p] EXCEPT !.read[d] = r, !.commit = e.commit,
                        !.done = e.done, !.successors = e.successors, !.ready = e.ready]
<1>1. d \in Dispatchers /\ paint \in [Painters -> PaintSet] /\ completed_task_cnt \in Nat
      /\ g_is_done \in BOOLEAN /\ paint[p].read \in [Dispatchers -> Nat]
  BY TypeFacts DEF PaintSet
<1>2. batch \in Seq(Tasks) /\ Len(batch) \in Nat /\ r \in Nat
  <2>1. batch \in Seq(Tasks) /\ paint[p].read[d] \in Nat
    BY <1>1, BatchFacts
  <2> HIDE DEF batch
  <2> QED
    BY <2>1
<1>3. e = Round(p, batch)
  BY DEF Round
<1>4. /\ g_predecessor_cnt' = e.cnt
      /\ completed_task_cnt' = completed_task_cnt + (IF p = 0 THEN Len(batch) ELSE 0)
      /\ g_is_done' = (g_is_done \/ completed_task_cnt' >= total_task_cnt)
      /\ paint' = [paint EXCEPT ![p] = ToSend(heard)]
      /\ UNCHANGED <<disp, ready_queue, cq, cores, ran, launched>>
  BY Zenon DEF deal_completed_queue
<1> HIDE DEF d, batch
<1>5. u \in TableSet /\ u.commit <= Len(test_graph[p])
  BY <1>2, TablesFacts
<1> HIDE DEF u
<1>6. a \in TableSet /\ a.commit <= Len(test_graph[p])
  BY <1>5, AddSuccessorsTyped
<1> HIDE DEF a
<1>7. e \in TableSet /\ e.commit <= Len(test_graph[p])
  BY <1>2, <1>6, ResolveTyped
<1> HIDE DEF e, r
<1> DEFINE A == [Tasks -> Nat]
           B == SUBSET Tasks
           C == [Tasks -> Seq(Tasks)]
           D == [Types -> Seq(Tasks)]
           E == [Dispatchers -> Nat]
<1>8. TableSet = [cnt : A, commit : Nat, done : B, successors : C, ready : D]
  BY DEF TableSet
<1>9. PaintSet = [ pc : PaintPcs, turn : Dispatchers, read : E, commit : Nat,
                   done : B, successors : C, ready : D ]
  BY DEF PaintSet
<1>10. [paint[p].read EXCEPT ![d] = r] \in E
  BY <1>1, <1>2
<1> HIDE DEF A, B, C, D, E
<1>11. /\ heard \in PaintSet /\ heard.read = [paint[p].read EXCEPT ![d] = r]
       /\ heard.commit = e.commit /\ heard.done = e.done
       /\ heard.successors = e.successors /\ heard.ready = e.ready
  BY <1>1, <1>7, <1>8, <1>9, <1>10
<1> HIDE DEF heard
<1>12. /\ ToSend(heard) \in PaintSet /\ ToSend(heard).read = heard.read
       /\ ToSend(heard).commit = heard.commit /\ ToSend(heard).done = heard.done
       /\ ToSend(heard).successors = heard.successors /\ ToSend(heard).ready = heard.ready
  BY <1>11, TurnFacts
<1>13. /\ paint' \in [Painters -> PaintSet] /\ paint'[p] = ToSend(heard)
       /\ \A o \in Painters \ {p} : paint'[o] = paint[o]
  BY <1>1, <1>4, <1>12
<1>14. e = [ cnt |-> e.cnt, commit |-> e.commit, done |-> e.done,
             successors |-> e.successors, ready |-> e.ready ]
  BY <1>7, <1>8
<1>15. Tables(p)' = e
  <2>1. Tables(p)' = [ cnt |-> g_predecessor_cnt', commit |-> paint'[p].commit,
                       done |-> paint'[p].done, successors |-> paint'[p].successors,
                       ready |-> paint'[p].ready ]
    BY DEF Tables
  <2> QED
    BY <1>4, <1>11, <1>12, <1>13, <1>14, <2>1
<1>16. completed_task_cnt' \in Nat /\ g_is_done' \in BOOLEAN
  <2>1. completed_task_cnt' \in Nat
    BY <1>1, <1>2, <1>4
  <2>2. g_is_done' \in BOOLEAN
    BY <1>1, <1>4
  <2> QED
    BY <2>1, <2>2
<1> QED
  BY <1>1, <1>2, <1>3, <1>4, <1>7, <1>11, <1>12, <1>13, <1>15, <1>16 DEF d, batch, r

\* Sending hands over one batch and empties it.
LEMMA SendReadyFacts ==
  ASSUME TypeOK, NEW p \in Painters, send_2_ready_queue(p)
  PROVE  /\ \E y \in Types :
              /\ ready_queue' = [ready_queue EXCEPT ![0][y] =
                   IF HasRoom(@, paint[p].ready[y]) THEN @ \o paint[p].ready[y] ELSE @]
              /\ paint'[p].ready = [paint[p].ready EXCEPT ![y] = <<>>]
         /\ paint' \in [Painters -> PaintSet] /\ paint'[p].read = paint[p].read
         /\ paint'[p].commit = paint[p].commit /\ paint'[p].done = paint[p].done
         /\ paint'[p].successors = paint[p].successors
         /\ \A o \in Painters \ {p} : paint'[o] = paint[o]
         /\ UNCHANGED <<disp, cq, g_predecessor_cnt, completed_task_cnt, g_is_done,
                        cores, ran, launched>>
<1> DEFINE y == IF paint[p].pc = "cube" THEN CUBE ELSE VECTOR
           sent == [paint[p] EXCEPT !.ready[y] = <<>>]
<1>1. paint \in [Painters -> PaintSet] /\ y \in Types
  BY TypeFacts DEF Types
<1>2. /\ ready_queue' = [ready_queue EXCEPT ![0][y] =
             IF HasRoom(@, paint[p].ready[y]) THEN @ \o paint[p].ready[y] ELSE @]
      /\ UNCHANGED <<disp, cq, g_predecessor_cnt, completed_task_cnt, g_is_done,
                      cores, ran, launched>>
      /\ paint' = [paint EXCEPT ![p] = ToSend(sent)]
  BY Zenon DEF send_2_ready_queue
<1> HIDE DEF y
<1> DEFINE B == SUBSET Tasks
           C == [Tasks -> Seq(Tasks)]
           D == [Types -> Seq(Tasks)]
           E == [Dispatchers -> Nat]
<1>3. PaintSet = [ pc : PaintPcs, turn : Dispatchers, read : E, commit : Nat,
                   done : B, successors : C, ready : D ]
  BY DEF PaintSet
<1>4. [paint[p].ready EXCEPT ![y] = <<>>] \in D
  <2>1. paint[p].ready \in D
    BY <1>1 DEF PaintSet
  <2> QED
    BY <1>1, <2>1
<1> HIDE DEF B, C, D, E
<1>5. /\ sent \in PaintSet /\ sent.read = paint[p].read
      /\ sent.commit = paint[p].commit /\ sent.done = paint[p].done
      /\ sent.successors = paint[p].successors /\ sent.ready = [paint[p].ready EXCEPT ![y] = <<>>]
  BY <1>1, <1>3, <1>4
<1> HIDE DEF sent
<1>6. /\ ToSend(sent) \in PaintSet /\ ToSend(sent).read = sent.read
      /\ ToSend(sent).commit = sent.commit /\ ToSend(sent).done = sent.done
      /\ ToSend(sent).successors = sent.successors /\ ToSend(sent).ready = sent.ready
  BY <1>5, TurnFacts
<1>7. /\ paint' \in [Painters -> PaintSet] /\ paint'[p] = ToSend(sent)
      /\ \A o \in Painters \ {p} : paint'[o] = paint[o]
  BY <1>1, <1>2, <1>6
<1> QED
  BY <1>1, <1>2, <1>5, <1>6, <1>7

\* A turn without completions changes the painter's counter alone.
LEMMA NothingFacts ==
  ASSUME TypeOK, NEW p \in Painters, deal_nothing(p)
  PROVE  /\ paint' \in [Painters -> PaintSet] /\ paint'[p].read = paint[p].read
         /\ paint'[p].commit = paint[p].commit /\ paint'[p].done = paint[p].done
         /\ paint'[p].successors = paint[p].successors /\ paint'[p].ready = paint[p].ready
         /\ \A o \in Painters \ {p} : paint'[o] = paint[o]
         /\ UNCHANGED <<disp, ready_queue, cq, g_predecessor_cnt, completed_task_cnt, g_is_done,
                        cores, ran, launched>>
<1> DEFINE s == paint[p]
           e == NextTurn(s)
<1>1. paint \in [Painters -> PaintSet] /\ s \in PaintSet
  BY TypeFacts
<1>2. paint' = [paint EXCEPT ![p] = e]
  BY DEF deal_nothing
<1>3. /\ e \in PaintSet /\ e.read = s.read /\ e.commit = s.commit /\ e.done = s.done
      /\ e.successors = s.successors /\ e.ready = s.ready
  <2> HIDE DEF s
  <2> QED
    BY <1>1, TurnFacts
<1> HIDE DEF e
<1> QED
  BY <1>1, <1>2, <1>3 DEF deal_nothing

\* A core that finishes gives its task up and raises the message of its unit.
LEMMA FinishFacts ==
  ASSUME TypeOK, NEW d \in Dispatchers, core_finishes(d)
  PROVE  /\ \E u \in Units :
              /\ cores[d].runs[u] \in Tasks /\ cores[d].runs[u] # NoTask
              /\ cores'[d].runs = [cores[d].runs EXCEPT ![u] = NoTask]
              /\ cores'[d].msg = cores[d].msg \cup {u}
              /\ ran' = ran \cup {cores[d].runs[u]}
         /\ cores' \in [Dispatchers -> CoreSet]
         /\ \A e \in Dispatchers \ {d} : cores'[e] = cores[e]
         /\ UNCHANGED <<disp, ready_queue, cq, paint, g_predecessor_cnt, completed_task_cnt,
                        g_is_done, launched>>
<1>1. PICK u \in Units :
        /\ cores[d].runs[u] # NoTask
        /\ cores' = [cores EXCEPT ![d].runs[u] = NoTask, ![d].msg = cores[d].msg \cup {u}]
        /\ ran' = ran \cup {cores[d].runs[u]}
  <2>1. cores[d] \in CoreSet /\ cores \in [Dispatchers -> CoreSet]
    BY TypeFacts
  <2> QED
    BY <2>1 DEF core_finishes
<1> DEFINE R == [Units -> Tasks \cup {NoTask}]
           M == SUBSET Units
           r == [cores[d].runs EXCEPT ![u] = NoTask]
           m == cores[d].msg \cup {u}
<1>2. CoreSet = [runs : R, msg : M] /\ cores \in [Dispatchers -> CoreSet] /\ cores[d] \in CoreSet
  BY TypeFacts DEF CoreSet
<1>3. /\ cores[d].runs \in R /\ cores[d].msg \in M
  <2> HIDE DEF R, M
  <2> QED
    BY <1>2
<1>4. r \in R /\ m \in M /\ cores[d].runs[u] \in Tasks \cup {NoTask}
  BY <1>3
<1> HIDE DEF R, M
<1>5. /\ cores' \in [Dispatchers -> CoreSet] /\ cores'[d].runs = r /\ cores'[d].msg = m
      /\ \A e \in Dispatchers \ {d} : cores'[e] = cores[e]
  BY <1>1, <1>2, <1>4
<1>6. UNCHANGED <<disp, ready_queue, cq, paint, g_predecessor_cnt, completed_task_cnt,
                  g_is_done, launched>>
  BY DEF core_finishes
<1> QED
  BY <1>1, <1>4, <1>5, <1>6

\* The other steps of a dispatcher change its program counter, and what the painters of
\* other dispatchers may see of its completions.
LEMMA OtherFacts ==
  ASSUME TypeOK, NEW d \in Dispatchers, remote_cq_write_batch(d) \/ send_nothing(d)
  PROVE  /\ disp[d].pc # "msgq"
         /\ disp' \in [Dispatchers -> DispSet]
         /\ disp'[d].free = disp[d].free /\ disp'[d].map = disp[d].map
         /\ cq' \in [Dispatchers -> CqSet] /\ cq'[d].log = cq[d].log /\ cq'[d].spsc = cq[d].spsc
         /\ cq'[d].remote \in {cq[d].remote, Len(cq[d].log)}
         /\ \A e \in Dispatchers \ {d} : disp'[e] = disp[e] /\ cq'[e] = cq[e]
         /\ UNCHANGED <<ready_queue, paint, g_predecessor_cnt, completed_task_cnt, g_is_done,
                        cores, ran, launched>>
<1> DEFINE P == SUBSET Units
           M == [Units -> Tasks]
           L == Seq(Tasks)
           n == Len(cq[d].log)
<1>1. /\ disp \in [Dispatchers -> DispSet] /\ cq \in [Dispatchers -> CqSet]
  BY TypeFacts
<1>2. DispSet = [pc : DispPcs, free : P, map : M] /\ CqSet = [log : L, spsc : Nat, remote : Nat]
  BY DEF DispSet, CqSet
<1>3. n \in Nat
  <2>1. cq[d].log \in Seq(Tasks)
    BY <1>1 DEF CqSet
  <2> QED
    BY <2>1
<1>4. ASSUME NEW b \in DispPcs, disp' = [disp EXCEPT ![d].pc = b]
      PROVE  /\ disp' \in [Dispatchers -> DispSet]
             /\ disp'[d].free = disp[d].free /\ disp'[d].map = disp[d].map
             /\ \A e \in Dispatchers \ {d} : disp'[e] = disp[e]
  <2> HIDE DEF P, M
  <2> DEFINE r == [disp[d] EXCEPT !.pc = b]
  <2>1. disp[d] \in DispSet
    BY <1>1
  <2>2. r \in DispSet /\ r.free = disp[d].free /\ r.map = disp[d].map
    BY <1>2, <2>1
  <2>3. disp' = [disp EXCEPT ![d] = r]
    BY <1>4
  <2> HIDE DEF r
  <2> QED
    BY <1>1, <2>2, <2>3
<1>5. ASSUME cq' = [cq EXCEPT ![d].remote = n]
      PROVE  /\ cq' \in [Dispatchers -> CqSet] /\ cq'[d].log = cq[d].log /\ cq'[d].spsc = cq[d].spsc
             /\ cq'[d].remote = n /\ \A e \in Dispatchers \ {d} : cq'[e] = cq[e]
  <2> HIDE DEF L, n
  <2> DEFINE r == [cq[d] EXCEPT !.remote = n]
  <2>1. cq[d] \in CqSet
    BY <1>1
  <2>2. r \in CqSet /\ r.log = cq[d].log /\ r.spsc = cq[d].spsc /\ r.remote = n
    BY <1>2, <1>3, <2>1
  <2>3. cq' = [cq EXCEPT ![d] = r]
    BY <1>5
  <2> HIDE DEF r
  <2> QED
    BY <1>1, <2>2, <2>3
<1>6. CASE remote_cq_write_batch(d)
  <2>1. "mix" \in DispPcs
    BY DEF DispPcs
  <2> QED
    BY <1>4, <1>5, <1>6, <2>1 DEF remote_cq_write_batch
<1>7. CASE send_nothing(d)
  <2>1. AfterSend(d, FALSE) \in DispPcs
    BY DEF DispPcs, AfterSend, Again
  <2> QED
    BY <1>1, <1>4, <1>7, <2>1 DEF send_nothing
<1> QED
  BY <1>6, <1>7

----------------------------------------------------------------------------
(* Types.                                                                   *)

\* The initial states are of the types.
LEMMA TypeInit == Init => TypeOK
<1> SUFFICES ASSUME Init PROVE TypeOK
  OBVIOUS
<1>1. disp \in [Dispatchers -> [ pc : {"msgq", "remote", "mix", "vector", "cube", "left"},
                                  free : SUBSET Units, map : [Units -> Tasks] ]]
  BY TaskFacts DEF Init
<1>2. ready_queue \in [Dispatchers -> [Types -> Seq(Tasks)]]
  BY DEF Init
<1>3. /\ cq \in [Dispatchers -> [log : Seq(Tasks), spsc : Nat, remote : Nat]]
      /\ \A d \in Dispatchers : cq[d].remote <= Len(cq[d].log) /\ cq[d].spsc = Len(cq[d].log)
  BY DEF Init
<1>4. paint \in [Painters -> [ pc : {"deal", "cube", "vector", "left"}, turn : Dispatchers,
                                read : [Dispatchers -> Nat], commit : Nat, done : SUBSET Tasks,
                                successors : [Tasks -> Seq(Tasks)], ready : [Types -> Seq(Tasks)] ]]
  BY ConstantFacts DEF Init
<1>5. \A p \in Painters : /\ paint[p].commit <= Len(test_graph[p])
                          /\ \A d \in Dispatchers : paint[p].read[d] <= Visible(p, d)
  <2> SUFFICES ASSUME NEW p \in Painters
               PROVE  /\ paint[p].commit <= Len(test_graph[p])
                      /\ \A d \in Dispatchers : paint[p].read[d] <= Visible(p, d)
    OBVIOUS
  <2>1. test_graph[p] \in Seq([id : Nat, type : Types, predecessors : Seq(Nat)])
    BY GraphAssumption
  <2>2. Len(test_graph[p]) \in Nat
    BY <2>1
  <2> QED
    BY <2>2 DEF Init, Visible
<1>6. /\ g_predecessor_cnt \in [Tasks -> Nat]
      /\ completed_task_cnt \in Nat /\ g_is_done \in BOOLEAN
      /\ ran \subseteq Tasks /\ launched \in [Tasks -> Nat]
  BY DEF Init
<1>7. cores \in [Dispatchers -> [runs : [Units -> Tasks \cup {NoTask}], msg : SUBSET Units]]
  BY GraphAssumption DEF Init
<1> QED
  BY <1>1, <1>2, <1>3, <1>4, <1>5, <1>6, <1>7 DEF TypeOK

\* The parts of the type invariant after a step.
TypesKept ==
    /\ disp' \in [Dispatchers -> DispSet] /\ cq' \in [Dispatchers -> CqSet]
    /\ cores' \in [Dispatchers -> CoreSet] /\ paint' \in [Painters -> PaintSet]
    /\ ready_queue' \in [Dispatchers -> [Types -> Seq(Tasks)]]
    /\ \A d \in Dispatchers : cq'[d].remote <= Len(cq'[d].log) /\ cq'[d].spsc = Len(cq'[d].log)
    /\ \A p \in Painters :
         /\ paint'[p].commit <= Len(test_graph[p])
         /\ \A d \in Dispatchers : paint'[p].read[d] <= IF p = d THEN cq'[d].spsc ELSE cq'[d].remote
    /\ g_predecessor_cnt' \in [Tasks -> Nat] /\ launched' \in [Tasks -> Nat]
    /\ completed_task_cnt' \in Nat /\ g_is_done' \in BOOLEAN /\ ran' \subseteq Tasks

\* They make it up.
LEMMA TypesKeptSuffice ==
  ASSUME TypesKept PROVE TypeOK'
  BY DEF TypesKept, TypeOK, DispSet, CqSet, CoreSet, PaintSet, DispPcs, PaintPcs, Visible

\* A round keeps the types,
LEMMA TypeDeal ==
  ASSUME TypeOK, NEW p \in Painters, deal_completed_queue(p)
  PROVE  TypeOK'
<1> DEFINE d == paint[p].turn
           batch == Batch(p, d)
           e == Round(p, batch)
<1>1. /\ d \in Dispatchers /\ batch \in Seq(Tasks)
      /\ e \in TableSet /\ e.commit <= Len(test_graph[p])
      /\ paint' \in [Painters -> PaintSet]
      /\ paint'[p].read = [paint[p].read EXCEPT ![d] = @ + Len(batch)]
      /\ Tables(p)' = e /\ g_predecessor_cnt' = e.cnt
      /\ \A o \in Painters \ {p} : paint'[o] = paint[o]
      /\ completed_task_cnt' \in Nat /\ g_is_done' \in BOOLEAN
      /\ UNCHANGED <<disp, ready_queue, cq, cores, ran, launched>>
  BY DealFacts
<1>2. paint[p].read[d] + Len(batch) <= Visible(p, d)
  BY <1>1, BatchFacts
<1> HIDE DEF d, batch, e
<1>3. paint'[p].commit = e.commit
  <2>1. Tables(p)'.commit = paint'[p].commit
    BY DEF Tables
  <2> QED
    BY <1>1, <2>1
<1>4. \A c \in Dispatchers : paint'[p].read[c] <= IF p = c THEN cq'[c].spsc ELSE cq'[c].remote
  <2>1. paint[p].read \in [Dispatchers -> Nat]
    BY TypeFacts DEF PaintSet
  <2> QED
    BY <1>1, <1>2, <2>1, TypeFacts DEF Visible
<1>5. \A o \in Painters :
         /\ paint'[o].commit <= Len(test_graph[o])
         /\ \A c \in Dispatchers : paint'[o].read[c] <= IF o = c THEN cq'[c].spsc ELSE cq'[c].remote
  BY <1>1, <1>3, <1>4, TypeFacts DEF Visible
<1>6. g_predecessor_cnt' \in [Tasks -> Nat]
  BY <1>1 DEF TableSet
<1>7. TypesKept
  BY <1>1, <1>5, <1>6, TypeFacts DEF TypesKept
<1> QED
  BY <1>7, TypesKeptSuffice

\* so does sending to a ready queue, or having nothing to do,
LEMMA TypePainter ==
  ASSUME TypeOK, NEW p \in Painters, deal_nothing(p) \/ send_2_ready_queue(p)
  PROVE  TypeOK'
<1>1. /\ paint' \in [Painters -> PaintSet] /\ paint'[p].read = paint[p].read
      /\ paint'[p].commit = paint[p].commit
      /\ \A o \in Painters \ {p} : paint'[o] = paint[o]
      /\ UNCHANGED <<disp, cq, g_predecessor_cnt, completed_task_cnt, g_is_done, cores, ran, launched>>
  BY SendReadyFacts, NothingFacts
<1>2. ready_queue' \in [Dispatchers -> [Types -> Seq(Tasks)]]
  <2>1. CASE deal_nothing(p)
    BY <2>1, NothingFacts, TypeFacts
  <2>2. CASE send_2_ready_queue(p)
    <3>1. PICK y \in Types :
            ready_queue' = [ready_queue EXCEPT ![0][y] =
                   IF HasRoom(@, paint[p].ready[y]) THEN @ \o paint[p].ready[y] ELSE @]
      BY <2>2, SendReadyFacts
    <3>2. ready_queue[0][y] \in Seq(Tasks) /\ paint[p].ready[y] \in Seq(Tasks)
      BY ConstantFacts, TypeFacts DEF PaintSet
    <3>3. ready_queue[0][y] \o paint[p].ready[y] \in Seq(Tasks)
      BY <3>2, ConcatProperties
    <3> QED
      BY <3>1, <3>2, <3>3, TypeFacts
  <2> QED
    BY <2>1, <2>2
<1>3. \A o \in Painters :
         /\ paint'[o].commit <= Len(test_graph[o])
         /\ \A c \in Dispatchers : paint'[o].read[c] <= IF o = c THEN cq'[c].spsc ELSE cq'[c].remote
  BY <1>1, TypeFacts DEF Visible
<1>4. TypesKept
  BY <1>1, <1>2, <1>3, TypeFacts DEF TypesKept
<1> QED
  BY <1>4, TypesKeptSuffice

\* and every step of a dispatcher or a core.
LEMMA TypeDispatcher ==
  ASSUME TypeOK, NEW d \in Dispatchers, Dispatcher(d) \/ core_finishes(d)
  PROVE  TypeOK'
<1>0. /\ disp \in [Dispatchers -> DispSet] /\ cq \in [Dispatchers -> CqSet]
      /\ cores \in [Dispatchers -> CoreSet]
      /\ \A e \in Dispatchers : cq[e].log \in Seq(Tasks) /\ cq[e].remote \in Nat /\ cq[e].spsc \in Nat
      /\ \A p \in Painters, e \in Dispatchers : paint[p].read[e] \in Nat
  BY TypeFacts DEF CqSet, PaintSet
<1>1. CASE read_msgq(d)
  <2>1. \A e \in Dispatchers : Len(cq[e].log) <= Len(cq'[e].log) /\ cq'[e].spsc = Len(cq'[e].log)
                               /\ cq'[e].remote = cq[e].remote
                               /\ Len(cq[e].log) \in Nat /\ Len(cq'[e].log) \in Nat
    <3>1. \A e \in Dispatchers : cq'[e].log \in Seq(Tasks)
      BY <1>1, ReadFacts DEF CqSet
    <3>2. \A e \in Dispatchers : Len(cq[e].log) \in Nat /\ Len(cq'[e].log) \in Nat
      BY <1>0, <3>1
    <3> SUFFICES ASSUME NEW e \in Dispatchers
                 PROVE  /\ Len(cq[e].log) <= Len(cq'[e].log) /\ cq'[e].spsc = Len(cq'[e].log)
                        /\ cq'[e].remote = cq[e].remote
      BY <3>2
    <3>3. CASE e = d
      BY <1>1, <3>3, ReadFacts
    <3>4. CASE e # d
      <4>1. cq'[e] = cq[e] /\ cq[e].spsc = Len(cq[e].log)
        BY <1>1, <3>4, ReadFacts, TypeFacts
      <4>2. Len(cq[e].log) <= Len(cq[e].log)
        BY <3>2
      <4> QED
        BY <4>1, <4>2
    <3> QED
      BY <3>3, <3>4
  <2>2. \A o \in Painters, c \in Dispatchers :
           paint'[o].read[c] <= IF o = c THEN cq'[c].spsc ELSE cq'[c].remote
    <3> SUFFICES ASSUME NEW o \in Painters, NEW c \in Dispatchers
                 PROVE  paint[o].read[c] <= IF o = c THEN cq'[c].spsc ELSE cq'[c].remote
      BY <1>1, ReadFacts
    <3>1. paint[o].read[c] <= IF o = c THEN Len(cq[c].log) ELSE cq[c].remote
      BY TypeFacts DEF Visible
    <3> QED
      BY <1>0, <2>1, <3>1
  <2>3. \A c \in Dispatchers : cq'[c].remote <= Len(cq'[c].log)
    <3> SUFFICES ASSUME NEW c \in Dispatchers PROVE cq'[c].remote <= Len(cq'[c].log)
      OBVIOUS
    <3>1. cq[c].remote <= Len(cq[c].log) /\ cq[c].remote \in Nat
      BY <1>0, TypeFacts
    <3> QED
      BY <2>1, <3>1
  <2>4. TypesKept
    BY <1>1, <2>1, <2>2, <2>3, ReadFacts, TypeFacts DEF TypesKept
  <2> QED
    BY <2>4, TypesKeptSuffice
<1>2. CASE send_task(d)
  <2>s. PICK v \in Dispatchers : \E got, given : Sends(d, v, got, given)
    BY <1>2, SendFacts
  <2>0. PICK got, given : Sends(d, v, got, given)
    BY <2>s
  <2> DEFINE y == TypeServed(d)
             q == ready_queue[v][y]
  <2>1. q \in Seq(Tasks) /\ y \in Types /\ launched \in [Tasks -> Nat] /\ got \in Nat
    BY <1>2, <2>0, SendFacts, TypeFacts DEF Sends
  <2>2. SubSeq(q, got + 1, Len(q)) \in Seq(Tasks)
    <3> HIDE DEF q
    <3>1. \A i \in got + 1 .. Len(q) : q[i] \in Tasks
      BY <2>1
    <3>2. got + 1 \in Int /\ Len(q) \in Int
      BY <2>1
    <3> QED
      BY <3>1, <3>2, SubSeqProperties
  <2>3. ready_queue' \in [Dispatchers -> [Types -> Seq(Tasks)]]
    <3>1. ready_queue' = [ready_queue EXCEPT ![v][y] = SubSeq(@, got + 1, Len(@))]
      BY <2>0 DEF Sends
    <3>2. ready_queue' = [ready_queue EXCEPT ![v] = [ready_queue[v] EXCEPT ![y] = SubSeq(q, got + 1, Len(q))]]
      BY <3>1
    <3> HIDE DEF y, q
    <3>3. ready_queue \in [Dispatchers -> [Types -> Seq(Tasks)]]
      BY TypeFacts
    <3> DEFINE x == SubSeq(q, got + 1, Len(q))
    <3>4. x \in Seq(Tasks)
      BY <2>2
    <3> HIDE DEF x
    <3> QED
      BY <2>1, <3>2, <3>3, <3>4 DEF x
  <2>4. launched' \in [Tasks -> Nat]
    <3>1. launched' = [t \in Tasks |-> launched[t] + Cardinality({ k \in 1 .. got : q[k] = t })]
      BY <2>0 DEF Sends
    <3> HIDE DEF q
    <3>2. ASSUME NEW t \in Tasks
          PROVE  Cardinality({ k \in 1 .. got : q[k] = t }) \in Nat
      <4>1. IsFiniteSet(1 .. got)
        BY <2>1, FS_Interval
      <4> QED
        BY <4>1, FS_Subset, FS_CardinalityType
    <3> QED
      BY <2>1, <3>1, <3>2
  <2>5. \A o \in Painters, c \in Dispatchers :
           paint'[o].read[c] <= IF o = c THEN cq'[c].spsc ELSE cq'[c].remote
    BY <1>2, SendFacts, TypeFacts DEF Visible
  <2>6. UNCHANGED <<cq, paint, g_predecessor_cnt, completed_task_cnt, g_is_done, ran>>
        /\ disp' \in [Dispatchers -> DispSet] /\ cores' \in [Dispatchers -> CoreSet]
    BY <1>2, SendFacts
  <2>7. TypesKept
    BY <2>3, <2>4, <2>5, <2>6, TypeFacts DEF TypesKept
  <2> QED
    BY <2>7, TypesKeptSuffice
<1>3. CASE remote_cq_write_batch(d) \/ send_nothing(d)
  <2>1. /\ \A e \in Dispatchers : cq'[e].log = cq[e].log /\ cq'[e].spsc = cq[e].spsc
                                  /\ cq'[e].remote \in {cq[e].remote, Len(cq[e].log)}
        /\ disp' \in [Dispatchers -> DispSet] /\ cq' \in [Dispatchers -> CqSet]
        /\ UNCHANGED <<ready_queue, paint, g_predecessor_cnt, completed_task_cnt, g_is_done,
                        cores, ran, launched>>
    BY <1>3, OtherFacts
  <2>2. \A e \in Dispatchers : Len(cq[e].log) \in Nat
    BY <1>0
  <2>3. \A c \in Dispatchers : cq'[c].remote <= Len(cq'[c].log) /\ cq'[c].spsc = Len(cq'[c].log)
    <3> SUFFICES ASSUME NEW c \in Dispatchers
                 PROVE  cq'[c].remote <= Len(cq'[c].log) /\ cq'[c].spsc = Len(cq'[c].log)
      OBVIOUS
    <3>1. cq[c].remote <= Len(cq[c].log) /\ cq[c].spsc = Len(cq[c].log)
      BY TypeFacts
    <3>2. Len(cq[c].log) <= Len(cq[c].log)
      BY <2>2
    <3> QED
      BY <2>1, <3>1, <3>2
  <2>4. \A o \in Painters, c \in Dispatchers :
           paint'[o].read[c] <= IF o = c THEN cq'[c].spsc ELSE cq'[c].remote
    <3> SUFFICES ASSUME NEW o \in Painters, NEW c \in Dispatchers
                 PROVE  paint[o].read[c] <= IF o = c THEN cq'[c].spsc ELSE cq'[c].remote
      BY <2>1
    <3>1. paint[o].read[c] <= IF o = c THEN Len(cq[c].log) ELSE cq[c].remote
      BY TypeFacts DEF Visible
    <3>2. cq[c].remote <= Len(cq[c].log) /\ cq[c].spsc = Len(cq[c].log)
      BY TypeFacts
    <3> QED
      BY <1>0, <2>1, <2>2, <3>1, <3>2
  <2>5. TypesKept
    BY <2>1, <2>3, <2>4, TypeFacts DEF TypesKept
  <2> QED
    BY <2>5, TypesKeptSuffice
<1>4. CASE core_finishes(d)
  <2>1. /\ cores' \in [Dispatchers -> CoreSet] /\ ran' \subseteq Tasks
        /\ UNCHANGED <<disp, ready_queue, cq, paint, g_predecessor_cnt, completed_task_cnt,
                        g_is_done, launched>>
    BY <1>4, FinishFacts, TypeFacts
  <2>2. \A o \in Painters, c \in Dispatchers :
           paint'[o].read[c] <= IF o = c THEN cq'[c].spsc ELSE cq'[c].remote
    BY <2>1, TypeFacts DEF Visible
  <2>3. TypesKept
    BY <2>1, <2>2, TypeFacts DEF TypesKept
  <2> QED
    BY <2>3, TypesKeptSuffice
<1> QED
  BY <1>1, <1>2, <1>3, <1>4 DEF Dispatcher

\* Stuttering, and returning, keep them.
LEMMA TypeStutter ==
  ASSUME TypeOK, UNCHANGED vars
  PROVE  TypeOK'
<1>1. \A o \in Painters, c \in Dispatchers :
         paint'[o].read[c] <= IF o = c THEN cq'[c].spsc ELSE cq'[c].remote
  BY TypeFacts DEF Visible, vars
<1>2. TypesKept
  BY <1>1, TypeFacts DEF TypesKept, vars
<1> QED
  BY <1>2, TypesKeptSuffice

\* Every step keeps the types.
LEMMA TypeNext ==
  ASSUME TypeOK, [Next]_vars
  PROVE  TypeOK'
  BY TypeDeal, TypePainter, TypeDispatcher, TypeStutter DEF Next, Painter, Returned

\* No cursor of the scheduler proxy passes what was written, and no thread names a task,
\* a unit or a turn that is not there, whatever the graph, the counters and the queues.
THEOREM SchedTypeCorrect == Spec => []TypeOK
<1>1. Init => TypeOK
  BY TypeInit
<1>2. TypeOK /\ [Next]_vars => TypeOK'
  BY TypeNext
<1> QED
  BY <1>1, <1>2, PTL DEF Spec

----------------------------------------------------------------------------
(* Cores and completions.                                                   *)

\* At first no core runs, and the messages are the replies to the handshake.
LEMMA CoresInit ==
  ASSUME Init
  PROVE  CoresKept
<1>1. TypeOK
  BY TypeInit
<1>2. \A d \in Dispatchers, u \in Units : cores[d].runs[u] = NoTask /\ disp[d].map[u] = 0
  BY DEF Init
<1>3. \A d \in Dispatchers : disp[d].pc = "msgq" /\ cq[d].log = <<>>
  BY DEF Init
<1>4. \A d \in Dispatchers : Range(cq[d].log) = {}
  BY <1>3 DEF Range
<1> QED
  BY <1>2, <1>3, <1>4 DEF CoresKept, CoresHandedOver

\* Reading the messages tells of tasks that ran.
LEMMA CoresRead ==
  ASSUME TypeOK, CoresKept, NEW d \in Dispatchers, read_msgq(d)
  PROVE  CoresKept'
<1>1. /\ disp'[d].map = disp[d].map /\ disp'[d].free \subseteq disp[d].free \cup cores[d].msg
      /\ cores'[d].runs = cores[d].runs /\ cores'[d].msg = {} /\ ran' = ran
      /\ \A e \in Dispatchers \ {d} : disp'[e] = disp[e] /\ cq'[e] = cq[e] /\ cores'[e] = cores[e]
      /\ cq'[d] \in CqSet
  BY ReadFacts
<1>2. CoresHandedOver'
  <2> SUFFICES ASSUME NEW e \in Dispatchers, NEW u \in Units
               PROVE  /\ cores'[e].runs[u] # NoTask =>
                           u \notin disp'[e].free \cup cores'[e].msg /\ disp'[e].map[u] = cores'[e].runs[u]
                      /\ u \in cores'[e].msg => disp'[e].map[u] \in ran' \cup {0}
    BY DEF CoresHandedOver
  <2> QED
    BY <1>1 DEF CoresKept, CoresHandedOver
<1>3. ASSUME NEW e \in Dispatchers
      PROVE  disp'[e].pc # "msgq" => disp'[e].free \cap cores'[e].msg = {}
  BY <1>1 DEF CoresKept
<1>4. Range(cq'[d].log) \subseteq ran \cup {0}
  <2>1. PICK n, units, tasks : Reads(d, n, units, tasks)
    BY ReadFacts
  <2>2. /\ n \in Nat /\ units \in [1 .. n -> Units] /\ tasks \in Seq(Tasks)
        /\ cores[d].msg = { units[k] : k \in 1 .. n }
        /\ Len(tasks) = n /\ \A k \in 1 .. n : tasks[k] = disp[d].map[units[k]]
        /\ cq'[d].log = cq[d].log \o tasks
    BY <2>1 DEF Reads
  <2> DEFINE l == cq[d].log
             m == cq'[d].log
  <2>3. l \in Seq(Tasks) /\ Len(l) \in Nat /\ DOMAIN l = 1 .. Len(l)
    BY TypeFacts DEF CqSet
  <2>4. /\ Len(m) = Len(l) + n /\ m \in Seq(Tasks)
        /\ \A i \in 1 .. Len(l) + n : m[i] = IF i <= Len(l) THEN l[i] ELSE tasks[i - Len(l)]
    <3>1. m = l \o tasks /\ l \in Seq(Tasks) /\ tasks \in Seq(Tasks) /\ Len(tasks) = n
      BY <2>2, <2>3
    <3> HIDE DEF l, m
    <3> QED
      BY <3>1, ConcatProperties
  <2>5. DOMAIN m = 1 .. Len(l) + n
    BY <2>4
  <2>6. ASSUME NEW i \in 1 .. Len(l) + n
        PROVE  m[i] \in ran \cup {0}
    <3>1. CASE i <= Len(l)
      <4>1. i \in DOMAIN l /\ m[i] = l[i]
        BY <2>3, <2>4, <3>1
      <4>2. l[i] \in Range(l)
        BY <4>1 DEF Range
      <4> QED
        BY <4>1, <4>2 DEF CoresKept
    <3>2. CASE ~ (i <= Len(l))
      <4>1. i - Len(l) \in 1 .. n
        BY <2>2, <2>3, <3>2
      <4>2. m[i] = disp[d].map[units[i - Len(l)]] /\ units[i - Len(l)] \in cores[d].msg
        BY <2>2, <2>4, <3>2, <4>1
      <4>3. units[i - Len(l)] \in Units
        BY <2>2, <4>1
      <4> QED
        BY <4>2, <4>3 DEF CoresKept, CoresHandedOver
    <3> QED
      BY <3>1, <3>2
  <2> HIDE DEF m
  <2>7. Range(m) = { m[i] : i \in 1 .. Len(l) + n }
    BY <2>5 DEF Range
  <2> QED
    BY <2>6, <2>7 DEF m
<1>5. \A e \in Dispatchers : Range(cq'[e].log) \subseteq ran' \cup {0}
  BY <1>1, <1>4 DEF CoresKept
<1> QED
  BY <1>2, <1>3, <1>5 DEF CoresKept

\* A task is sent to free units, which neither run a task nor have a message.
LEMMA CoresSend ==
  ASSUME TypeOK, CoresKept, NEW d \in Dispatchers, send_task(d)
  PROVE  CoresKept'
<1>s. PICK v \in Dispatchers : \E got, given : Sends(d, v, got, given)
  BY SendFacts
<1>0. PICK got, given : Sends(d, v, got, given)
  BY <1>s
<1>1. /\ cores'[d].msg = cores[d].msg /\ ran' = ran /\ cq' = cq /\ disp[d].pc # "msgq"
      /\ \A e \in Dispatchers \ {d} : disp'[e] = disp[e] /\ cores'[e] = cores[e]
  BY SendFacts
<1>2. disp[d].free \cap cores[d].msg = {} /\ disp'[d].free \subseteq disp[d].free
  BY <1>0, <1>1 DEF CoresKept, Sends
<1>3. ASSUME NEW u \in Units
      PROVE  /\ cores'[d].runs[u] # NoTask =>
                  u \notin disp'[d].free \cup cores'[d].msg /\ disp'[d].map[u] = cores'[d].runs[u]
             /\ u \in cores'[d].msg => disp'[d].map[u] \in ran' \cup {0}
  <2>1. CASE \E k \in 1 .. got : given[k] = u
    <3>1. PICK k \in 1 .. got : given[k] = u
      BY <2>1
    <3>2. /\ u \in disp[d].free /\ u \notin disp'[d].free
          /\ disp'[d].map[u] = cores'[d].runs[u]
      BY <1>0, <3>1 DEF Sends
    <3> QED
      BY <1>1, <1>2, <3>2
  <2>2. CASE \A k \in 1 .. got : given[k] # u
    <3>1. disp'[d].map[u] = disp[d].map[u] /\ cores'[d].runs[u] = cores[d].runs[u]
      BY <1>0, <2>2 DEF Sends
    <3> QED
      BY <1>1, <1>2, <3>1 DEF CoresKept, CoresHandedOver
  <2> QED
    BY <2>1, <2>2
<1>4. CoresHandedOver'
  <2> SUFFICES ASSUME NEW e \in Dispatchers, NEW u \in Units
               PROVE  /\ cores'[e].runs[u] # NoTask =>
                           u \notin disp'[e].free \cup cores'[e].msg /\ disp'[e].map[u] = cores'[e].runs[u]
                      /\ u \in cores'[e].msg => disp'[e].map[u] \in ran' \cup {0}
    BY DEF CoresHandedOver
  <2> QED
    BY <1>1, <1>3 DEF CoresKept, CoresHandedOver
<1>5. ASSUME NEW e \in Dispatchers
      PROVE  /\ disp'[e].pc # "msgq" => disp'[e].free \cap cores'[e].msg = {}
             /\ Range(cq'[e].log) \subseteq ran' \cup {0}
  <2>1. CASE e = d
    BY <1>1, <1>2, <2>1 DEF CoresKept
  <2>2. CASE e # d
    BY <1>1, <2>2 DEF CoresKept
  <2> QED
    BY <2>1, <2>2
<1> QED
  BY <1>4, <1>5 DEF CoresKept

\* A core that finishes leaves its unit busy.
LEMMA CoresFinish ==
  ASSUME TypeOK, CoresKept, NEW d \in Dispatchers, core_finishes(d)
  PROVE  CoresKept'
<1>0. PICK u \in Units :
              /\ cores[d].runs[u] \in Tasks /\ cores[d].runs[u] # NoTask
              /\ cores'[d].runs = [cores[d].runs EXCEPT ![u] = NoTask]
              /\ cores'[d].msg = cores[d].msg \cup {u}
              /\ ran' = ran \cup {cores[d].runs[u]}
  BY FinishFacts
<1>1. /\ disp' = disp /\ cq' = cq
      /\ \A e \in Dispatchers \ {d} : cores'[e] = cores[e]
  BY FinishFacts
<1>2. cores[d].runs \in [Units -> Tasks \cup {NoTask}]
  BY TypeFacts DEF CoreSet
<1>3. u \notin disp[d].free /\ disp[d].map[u] = cores[d].runs[u]
  BY <1>0 DEF CoresKept, CoresHandedOver
<1>4. CoresHandedOver'
  <2> SUFFICES ASSUME NEW e \in Dispatchers, NEW x \in Units
               PROVE  /\ cores'[e].runs[x] # NoTask =>
                           x \notin disp'[e].free \cup cores'[e].msg /\ disp'[e].map[x] = cores'[e].runs[x]
                      /\ x \in cores'[e].msg => disp'[e].map[x] \in ran' \cup {0}
    BY DEF CoresHandedOver
  <2>1. CASE e = d
    BY <1>0, <1>1, <1>2, <1>3, <2>1 DEF CoresKept, CoresHandedOver
  <2>2. CASE e # d
    BY <1>0, <1>1, <2>2 DEF CoresKept, CoresHandedOver
  <2> QED
    BY <2>1, <2>2
<1>5. ASSUME NEW e \in Dispatchers
      PROVE  /\ disp'[e].pc # "msgq" => disp'[e].free \cap cores'[e].msg = {}
             /\ Range(cq'[e].log) \subseteq ran' \cup {0}
  <2>1. CASE e = d
    BY <1>0, <1>1, <1>3, <2>1 DEF CoresKept
  <2>2. CASE e # d
    BY <1>0, <1>1, <2>2 DEF CoresKept
  <2> QED
    BY <2>1, <2>2
<1> QED
  BY <1>4, <1>5 DEF CoresKept

\* The other steps change nothing it is about.
LEMMA CoresOther ==
  ASSUME TypeOK, CoresKept, cores' = cores, ran' = ran,
         \A e \in Dispatchers : /\ disp'[e].free = disp[e].free /\ disp'[e].map = disp[e].map
                                /\ disp[e].pc = "msgq" => disp'[e].pc = "msgq"
                                /\ cq'[e].log = cq[e].log
  PROVE  CoresKept'
<1>1. CoresHandedOver'
  BY DEF CoresKept, CoresHandedOver
<1> QED
  BY <1>1 DEF CoresKept

\* Every step keeps it.
LEMMA CoresNext ==
  ASSUME TypeOK, CoresKept, [Next]_vars
  PROVE  CoresKept'
<1>1. ASSUME NEW d \in Dispatchers, remote_cq_write_batch(d) \/ send_nothing(d)
      PROVE  CoresKept'
  <2>1. /\ cores' = cores /\ ran' = ran /\ disp[d].pc # "msgq"
        /\ \A e \in Dispatchers : /\ disp'[e].free = disp[e].free /\ disp'[e].map = disp[e].map
                                  /\ cq'[e].log = cq[e].log
        /\ \A e \in Dispatchers \ {d} : disp'[e] = disp[e]
    BY <1>1, OtherFacts
  <2> QED
    BY <2>1, CoresOther
<1>2. ASSUME NEW d \in Dispatchers, Dispatcher(d) \/ core_finishes(d)
      PROVE  CoresKept'
  BY <1>1, <1>2, CoresRead, CoresSend, CoresFinish DEF Dispatcher
<1>3. ASSUME NEW p \in Painters, Painter(p)
      PROVE  CoresKept'
  <2>1. UNCHANGED <<disp, cq, cores, ran>>
    BY <1>3, DealFacts, SendReadyFacts, NothingFacts DEF Painter
  <2> QED
    BY <2>1, CoresOther
<1>4. CASE UNCHANGED vars
  BY <1>4, CoresOther DEF vars
<1> QED
  BY <1>2, <1>3, <1>4 DEF Next, Returned

\* A unit runs a task only while its dispatcher holds it busy and remembers that task,
\* and the message of a busy unit is the completion of the task remembered.
THEOREM CoresAreHandedOver == Spec => []CoresHandedOver
<1> DEFINE Inv == TypeOK /\ CoresKept
<1>1. Init => Inv
  BY TypeInit, CoresInit
<1>2. Inv /\ [Next]_vars => Inv'
  BY TypeNext, CoresNext
<1>3. Inv => CoresHandedOver
  BY DEF CoresKept
<1> QED
  BY <1>1, <1>2, <1>3, PTL DEF Spec

----------------------------------------------------------------------------
(* One completion for each launch.                                          *)

\* The tokens of t where the cores are in state C, the dispatchers in D, the queues in Q.
TokensIn(C, D, Q, t) ==
    { <<"runs", x[1], x[2]>> : x \in { v \in Dispatchers \X Units : C[v[1]].runs[v[2]] = t } }
      \cup { <<"msg", x[1], x[2]>> : x \in { v \in Dispatchers \X Units :
                 v[2] \in C[v[1]].msg /\ D[v[1]].map[v[2]] = t } }
      \cup { <<"told", x[1], x[2]>> : x \in At([d \in Dispatchers |-> Q[d].log], t) }

\* What a token is.
IsToken(C, D, Q, t, z) ==
    \/ \E d \in Dispatchers, u \in Units : z = <<"runs", d, u>> /\ C[d].runs[u] = t
    \/ \E d \in Dispatchers, u \in Units :
         z = <<"msg", d, u>> /\ u \in C[d].msg /\ D[d].map[u] = t
    \/ \E d \in Dispatchers, k \in Nat :
         z = <<"told", d, k>> /\ k \in DOMAIN Q[d].log /\ Q[d].log[k] = t

\* The tokens are those,
LEMMA TokensAre ==
  ASSUME NEW C, NEW D, NEW Q, NEW t, \A d \in Dispatchers : Q[d].log \in Seq(Tasks)
  PROVE  \A z : z \in TokensIn(C, D, Q, t) <=> IsToken(C, D, Q, t, z)
<1> DEFINE L == [d \in Dispatchers |-> Q[d].log]
           R == { <<"runs", x[1], x[2]>> : x \in { v \in Dispatchers \X Units : C[v[1]].runs[v[2]] = t } }
           M == { <<"msg", x[1], x[2]>> : x \in { v \in Dispatchers \X Units :
                      v[2] \in C[v[1]].msg /\ D[v[1]].map[v[2]] = t } }
           T == { <<"told", x[1], x[2]>> : x \in At(L, t) }
<1>1. \A z : z \in R <=> \E d \in Dispatchers, u \in Units : z = <<"runs", d, u>> /\ C[d].runs[u] = t
  <2> DEFINE V == { v \in Dispatchers \X Units : C[v[1]].runs[v[2]] = t }
  <2>1. \A d \in Dispatchers, u \in Units : C[d].runs[u] = t => <<d, u>> \in V
    OBVIOUS
  <2>2. \A v \in V : v[1] \in Dispatchers /\ v[2] \in Units /\ C[v[1]].runs[v[2]] = t
    OBVIOUS
  <2> HIDE DEF V
  <2> DEFINE W == { <<"runs", x[1], x[2]>> : x \in V }
  <2>3. \A d, u : <<d, u>> \in V => <<"runs", d, u>> \in W
    OBVIOUS
  <2>4. \A z : z \in W => \E v \in V : z = <<"runs", v[1], v[2]>>
    OBVIOUS
  <2>5. R = W
    BY DEF V
  <2> HIDE DEF R, W
  <2>6. ASSUME NEW z, z \in W
        PROVE  \E d \in Dispatchers, u \in Units : z = <<"runs", d, u>> /\ C[d].runs[u] = t
    <3>1. PICK v \in V : z = <<"runs", v[1], v[2]>>
      BY <2>4, <2>6
    <3> QED
      BY <2>2, <3>1
  <2> QED
    BY <2>1, <2>3, <2>5, <2>6
<1>2. \A z : z \in M <=> \E d \in Dispatchers, u \in Units :
                           z = <<"msg", d, u>> /\ u \in C[d].msg /\ D[d].map[u] = t
  <2> DEFINE V == { v \in Dispatchers \X Units : v[2] \in C[v[1]].msg /\ D[v[1]].map[v[2]] = t }
  <2>1. \A d \in Dispatchers, u \in Units : u \in C[d].msg /\ D[d].map[u] = t => <<d, u>> \in V
    OBVIOUS
  <2>2. \A v \in V : /\ v[1] \in Dispatchers /\ v[2] \in Units
                     /\ v[2] \in C[v[1]].msg /\ D[v[1]].map[v[2]] = t
    OBVIOUS
  <2> HIDE DEF V
  <2> DEFINE W == { <<"msg", x[1], x[2]>> : x \in V }
  <2>3. \A d, u : <<d, u>> \in V => <<"msg", d, u>> \in W
    OBVIOUS
  <2>4. \A z : z \in W => \E v \in V : z = <<"msg", v[1], v[2]>>
    OBVIOUS
  <2>5. M = W
    BY DEF V
  <2> HIDE DEF M, W
  <2>6. ASSUME NEW z, z \in W
        PROVE  \E d \in Dispatchers, u \in Units : z = <<"msg", d, u>> /\ u \in C[d].msg /\ D[d].map[u] = t
    <3>1. PICK v \in V : z = <<"msg", v[1], v[2]>>
      BY <2>4, <2>6
    <3> QED
      BY <2>2, <3>1
  <2> QED
    BY <2>1, <2>3, <2>5, <2>6
<1>3. \A x : x \in At(L, t) <=> \E d \in Dispatchers, k \in Nat :
                           x = <<d, k>> /\ k \in DOMAIN Q[d].log /\ Q[d].log[k] = t
  <2>1. DOMAIN L = Dispatchers /\ \A d \in Dispatchers : L[d] = Q[d].log
    OBVIOUS
  <2>2. \A d \in Dispatchers : DOMAIN Q[d].log \subseteq Nat
    OBVIOUS
  <2> HIDE DEF L
  <2>3. ASSUME NEW x, x \in At(L, t)
        PROVE  \E d \in Dispatchers, k \in Nat :
                           x = <<d, k>> /\ k \in DOMAIN Q[d].log /\ Q[d].log[k] = t
    <3>1. PICK d \in Dispatchers : x \in {d} \X { k \in DOMAIN L[d] : L[d][k] = t }
      BY <2>1, <2>3 DEF At
    <3> QED
      BY <2>1, <2>2, <3>1
  <2>4. ASSUME NEW d \in Dispatchers, NEW k \in Nat, k \in DOMAIN Q[d].log, Q[d].log[k] = t
        PROVE  <<d, k>> \in At(L, t)
    <3>1. <<d, k>> \in {d} \X { j \in DOMAIN L[d] : L[d][j] = t }
      BY <2>1, <2>4
    <3> QED
      BY <2>1, <3>1 DEF At
  <2> QED
    BY <2>3, <2>4
<1>4. \A z : z \in T <=> \E d \in Dispatchers, k \in Nat :
                           z = <<"told", d, k>> /\ k \in DOMAIN Q[d].log /\ Q[d].log[k] = t
  <2> HIDE DEF L
  <2>1. ASSUME NEW z, z \in T
        PROVE  \E d \in Dispatchers, k \in Nat :
                           z = <<"told", d, k>> /\ k \in DOMAIN Q[d].log /\ Q[d].log[k] = t
    <3>1. PICK x \in At(L, t) : z = <<"told", x[1], x[2]>>
      BY <2>1
    <3>2. PICK d \in Dispatchers, k \in Nat :
                           x = <<d, k>> /\ k \in DOMAIN Q[d].log /\ Q[d].log[k] = t
      BY <1>3, <3>1
    <3> QED
      BY <3>1, <3>2
  <2>2. ASSUME NEW d \in Dispatchers, NEW k \in Nat, k \in DOMAIN Q[d].log, Q[d].log[k] = t
        PROVE  <<"told", d, k>> \in T
    <3>1. <<d, k>> \in At(L, t)
      BY <1>3, <2>2
    <3>2. <<"told", <<d, k>>[1], <<d, k>>[2]>> \in T
      BY <3>1
    <3> QED
      BY <3>2
  <2> HIDE DEF T
  <2> QED
    BY <2>1, <2>2
<1>5. TokensIn(C, D, Q, t) = R \cup M \cup T
  BY DEF TokensIn
<1> HIDE DEF R, M, T
<1> QED
  BY <1>1, <1>2, <1>4, <1>5 DEF IsToken

\* in this state and the next.
LEMMA TokensNow ==
  ASSUME NEW t
  PROVE  Tokens(t) = TokensIn(cores, disp, cq, t) /\ Tokens(t)' = TokensIn(cores', disp', cq', t)
  BY DEF Tokens, TokensIn, At

\* Tokens that move one to one do not become more.
LEMMA TokensMoved ==
  ASSUME NEW S, IsFiniteSet(S), NEW T, NEW f \in [T -> S],
         \A x, y \in T : f[x] = f[y] => x = y
  PROVE  IsFiniteSet(T) /\ Cardinality(T) <= Cardinality(S)
<1>1. f \in Injection(T, S)
  BY DEF Injection, IsInjective
<1> QED
  BY <1>1, FS_Injection

\* At first there are the replies to the handshake.
LEMMA TokensInit ==
  ASSUME Init, CountersWide
  PROVE  OneTokenEach
<1>0. PICK replies \in Replies :
        cores = [d \in Dispatchers |-> [runs |-> [u \in Units |-> NoTask], msg |-> replies[d]]]
  BY DEF Init
<1> DEFINE X == { x \in Dispatchers \X Units : x[2] \in replies[x[1]] }
           f == [x \in X |-> <<"msg", x[1], x[2]>>]
           F == { f[x] : x \in X }
<1>1. IsFiniteSet(X) /\ Cardinality(X) \in Nat /\ Cardinality(X) < CntWidth
  <2>1. IsFiniteSet(Dispatchers \X Units)
    BY ConstantFacts, FS_Product
  <2>2. IsFiniteSet(X)
    BY <2>1, FS_Subset
  <2>3. Cardinality(X) \in Nat
    BY <2>2, FS_CardinalityType
  <2> QED
    BY <2>2, <2>3 DEF CountersWide
<1>2. IsFiniteSet(F) /\ Cardinality(F) \in Nat /\ Cardinality(F) < CntWidth
  <2> HIDE DEF f, X
  <2>1. IsFiniteSet(F) /\ Cardinality(F) <= Cardinality(X)
    BY <1>1, ImageFacts
  <2>2. Cardinality(F) \in Nat
    BY <2>1, FS_CardinalityType
  <2> QED
    BY <1>1, <2>1, <2>2, TaskFacts
<1>3. ASSUME NEW t \in Tasks, NEW z \in Tokens(t)
      PROVE  t = 0 /\ z \in F
  <2>1. \A d \in Dispatchers : cq[d].log = <<>>
    BY DEF Init
  <2>2. IsToken(cores, disp, cq, t, z)
    BY <2>1, TokensNow, TokensAre, EmptySeq
  <2>3. ~ \E d \in Dispatchers, u \in Units : z = <<"runs", d, u>> /\ cores[d].runs[u] = t
    <3>1. \A d \in Dispatchers, u \in Units : cores[d].runs[u] = NoTask
      BY <1>0
    <3>2. t # NoTask
      BY TaskFacts DEF NoTask
    <3> QED
      BY <3>1, <3>2
  <2>4. ~ \E d \in Dispatchers, k \in Nat :
         z = <<"told", d, k>> /\ k \in DOMAIN cq[d].log /\ cq[d].log[k] = t
    BY <2>1
  <2>5. PICK d \in Dispatchers, u \in Units :
         z = <<"msg", d, u>> /\ u \in cores[d].msg /\ disp[d].map[u] = t
    BY <2>2, <2>3, <2>4 DEF IsToken
  <2>6. t = 0
    BY <2>5 DEF Init
  <2>7. <<d, u>> \in X /\ f[<<d, u>>] = z
    BY <1>0, <2>5
  <2> QED
    BY <2>6, <2>7
<1>4. \A t \in Tasks : launched[t] = 0
  BY DEF Init
<1> HIDE DEF F
<1>5. ASSUME NEW t \in Tasks
      PROVE  /\ IsFiniteSet(Tokens(t))
             /\ Cardinality(Tokens(t)) <= launched[t] + (IF t = 0 THEN CntWidth - 1 ELSE 0)
  <2>1. CASE t = 0
    <3>1. IsFiniteSet(Tokens(t)) /\ Cardinality(Tokens(t)) <= Cardinality(F)
      BY <1>2, <1>3, FS_Subset
    <3>2. Cardinality(Tokens(t)) \in Nat
      BY <3>1, FS_CardinalityType
    <3> QED
      BY <1>2, <1>4, <2>1, <3>1, <3>2, TaskFacts
  <2>2. CASE t # 0
    <3>1. Tokens(t) = {}
      BY <1>3, <2>2
    <3> QED
      BY <1>4, <2>2, <3>1, FS_EmptySet
  <2> QED
    BY <2>1, <2>2
<1> QED
  BY <1>5 DEF OneTokenEach

\* Where the tokens of t do not become more, their bound stays.
LEMMA TokensKept ==
  ASSUME TypeOK, OneTokenEach, launched' = launched,
         \A t \in Tasks : \E f \in [Tokens(t)' -> Tokens(t)] :
            \A x, y \in Tokens(t)' : f[x] = f[y] => x = y
  PROVE  OneTokenEach'
<1>1. ASSUME NEW t \in Tasks
      PROVE  /\ IsFiniteSet(Tokens(t)')
             /\ Cardinality(Tokens(t)') <= launched[t] + (IF t = 0 THEN CntWidth - 1 ELSE 0)
  <2> DEFINE S == Tokens(t)
             T == Tokens(t)'
  <2>1. IsFiniteSet(S) /\ Cardinality(S) <= launched[t] + (IF t = 0 THEN CntWidth - 1 ELSE 0)
    BY DEF OneTokenEach
  <2>2. PICK f \in [T -> S] : \A x, y \in T : f[x] = f[y] => x = y
    OBVIOUS
  <2> HIDE DEF S, T
  <2>3. IsFiniteSet(T) /\ Cardinality(T) <= Cardinality(S)
    BY <2>1, <2>2, TokensMoved
  <2>4. Cardinality(S) \in Nat /\ Cardinality(T) \in Nat /\ launched[t] \in Nat
    BY <2>1, <2>3, FS_CardinalityType, TypeFacts
  <2>5. Cardinality(T) <= launched[t] + (IF t = 0 THEN CntWidth - 1 ELSE 0)
    BY <2>1, <2>3, <2>4, TaskFacts
  <2> QED
    BY <2>3, <2>5 DEF T
<1> QED
  BY <1>1 DEF OneTokenEach

\* A message becomes a completion told,
LEMMA TokensRead ==
  ASSUME TypeOK, OneTokenEach, NEW d \in Dispatchers, read_msgq(d)
  PROVE  OneTokenEach'
<1>0. PICK n, units, tasks : Reads(d, n, units, tasks)
  BY ReadFacts
<1> DEFINE l == cq[d].log
           m == cq'[d].log
           f(z) == IF z[1] = "told" /\ z[2] = d /\ z[3] > Len(l)
                   THEN <<"msg", d, units[z[3] - Len(l)]>> ELSE z
<1>1. /\ n \in Nat /\ units \in [1 .. n -> Units] /\ tasks \in Seq(Tasks)
      /\ \A j, k \in 1 .. n : units[j] = units[k] => j = k
      /\ cores[d].msg = { units[k] : k \in 1 .. n }
      /\ Len(tasks) = n /\ \A k \in 1 .. n : tasks[k] = disp[d].map[units[k]]
      /\ m = l \o tasks
  BY <1>0 DEF Reads
<1>2. /\ disp'[d].map = disp[d].map /\ cores'[d].runs = cores[d].runs /\ cores'[d].msg = {}
      /\ \A e \in Dispatchers \ {d} : disp'[e] = disp[e] /\ cq'[e] = cq[e] /\ cores'[e] = cores[e]
      /\ launched' = launched
  BY ReadFacts
<1>3. /\ \A e \in Dispatchers : cq[e].log \in Seq(Tasks)
      /\ \A e \in Dispatchers : cq'[e].log \in Seq(Tasks)
      /\ Len(l) \in Nat /\ DOMAIN l = 1 .. Len(l)
  <2>1. \A e \in Dispatchers : cq[e].log \in Seq(Tasks)
    BY TypeFacts DEF CqSet
  <2>2. \A e \in Dispatchers : cq'[e].log \in Seq(Tasks)
    BY ReadFacts DEF CqSet
  <2> QED
    BY <2>1, <2>2
<1>4. /\ DOMAIN m = 1 .. Len(l) + n
      /\ \A i \in 1 .. Len(l) + n : m[i] = IF i <= Len(l) THEN l[i] ELSE tasks[i - Len(l)]
  <2>1. m = l \o tasks /\ l \in Seq(Tasks) /\ tasks \in Seq(Tasks) /\ Len(tasks) = n
    BY <1>1, <1>3
  <2> HIDE DEF l, m
  <2>2. /\ Len(m) = Len(l) + n /\ m \in Seq(Tasks)
        /\ \A i \in 1 .. Len(l) + n : m[i] = IF i <= Len(l) THEN l[i] ELSE tasks[i - Len(l)]
    BY <2>1, ConcatProperties
  <2> QED
    BY <2>2
<1>5. ASSUME NEW t \in Tasks, NEW z \in Tokens(t)'
      PROVE  /\ f(z) \in Tokens(t)
             /\ ~ (z[1] = "msg" /\ z[2] = d)
             /\ z[1] = "told" /\ z[2] = d => z = <<"told", d, z[3]>> /\ z[3] \in 1 .. Len(l) + n
  <2>1. IsToken(cores', disp', cq', t, z)
    BY <1>3, TokensNow, TokensAre
  <2>2. SUFFICES /\ IsToken(cores, disp, cq, t, f(z))
                 /\ ~ (z[1] = "msg" /\ z[2] = d)
                 /\ z[1] = "told" /\ z[2] = d => z = <<"told", d, z[3]>> /\ z[3] \in 1 .. Len(l) + n
    BY <1>3, TokensNow, TokensAre
  <2>3. CASE \E e \in Dispatchers, u \in Units : z = <<"runs", e, u>> /\ cores'[e].runs[u] = t
    BY <1>2, <2>3 DEF IsToken
  <2>4. CASE \E e \in Dispatchers, u \in Units :
         z = <<"msg", e, u>> /\ u \in cores'[e].msg /\ disp'[e].map[u] = t
    BY <1>2, <2>4 DEF IsToken
  <2>5. CASE \E e \in Dispatchers, k \in Nat :
         z = <<"told", e, k>> /\ k \in DOMAIN cq'[e].log /\ cq'[e].log[k] = t
    <3>1. PICK e \in Dispatchers, k \in Nat :
         z = <<"told", e, k>> /\ k \in DOMAIN cq'[e].log /\ cq'[e].log[k] = t
      BY <2>5
    <3>2. CASE e # d
      BY <1>2, <3>1, <3>2 DEF IsToken
    <3>3. CASE e = d /\ k <= Len(l)
      <4>1. k \in 1 .. Len(l) + n /\ m[k] = t
        <5>1. k \in DOMAIN m /\ m[k] = t
          BY <3>1, <3>3
        <5> QED
          BY <1>4, <5>1
      <4>2. k \in 1 .. Len(l) /\ l[k] = t
        <5> DEFINE c == Len(l)
        <5>1. c \in Nat /\ n \in Nat /\ k <= c /\ k \in 1 .. c + n
          BY <1>1, <1>3, <3>3, <4>1
        <5>2. m[k] = l[k]
          BY <1>4, <3>3, <4>1
        <5> HIDE DEF c
        <5>3. k \in 1 .. c
          BY <5>1
        <5> QED
          BY <4>1, <5>2, <5>3 DEF c
      <4>3. k \in DOMAIN l /\ l[k] = t
        BY <1>3, <4>2
      <4> QED
        BY <1>3, <3>1, <3>3, <4>1, <4>3 DEF IsToken
    <3>4. CASE e = d /\ k > Len(l)
      <4>1. k \in 1 .. Len(l) + n /\ k - Len(l) \in 1 .. n /\ m[k] = tasks[k - Len(l)]
        <5> DEFINE c == Len(l)
        <5>1. k \in DOMAIN m
          BY <3>1, <3>4
        <5>2. c \in Nat /\ n \in Nat /\ ~ (k <= c) /\ k \in 1 .. c + n
          BY <1>1, <1>3, <1>4, <3>4, <5>1
        <5>3. m[k] = tasks[k - Len(l)]
          BY <1>4, <5>2
        <5> HIDE DEF c
        <5>4. k - c \in 1 .. n
          BY <5>2
        <5> QED
          BY <5>2, <5>3, <5>4 DEF c
      <4>2. units[k - Len(l)] \in cores[d].msg /\ disp[d].map[units[k - Len(l)]] = t
            /\ units[k - Len(l)] \in Units
        BY <1>1, <3>1, <3>4, <4>1
      <4>3. f(z) = <<"msg", d, units[k - Len(l)]>>
        BY <3>1, <3>4
      <4> HIDE DEF f
      <4> QED
        BY <3>1, <3>4, <4>1, <4>2, <4>3 DEF IsToken
    <3> QED
      BY <1>3, <3>1, <3>2, <3>3, <3>4
  <2> QED
    BY <2>1, <2>3, <2>4, <2>5 DEF IsToken
<1>6. ASSUME NEW t \in Tasks, NEW x \in Tokens(t)', NEW y \in Tokens(t)', f(x) = f(y)
      PROVE  x = y
  <2> DEFINE New(z) == z[1] = "told" /\ z[2] = d /\ z[3] > Len(l)
  <2>1. CASE New(x) /\ New(y)
    <3>1. units[x[3] - Len(l)] = units[y[3] - Len(l)]
      BY <1>6, <2>1
    <3>2. /\ x = <<"told", d, x[3]>> /\ x[3] \in 1 .. Len(l) + n
          /\ y = <<"told", d, y[3]>> /\ y[3] \in 1 .. Len(l) + n
      BY <1>5, <2>1
    <3>3. x[3] - Len(l) \in 1 .. n /\ y[3] - Len(l) \in 1 .. n
      <4> DEFINE a == x[3]
                 b == y[3]
                 c == Len(l)
      <4>1. a \in 1 .. c + n /\ b \in 1 .. c + n /\ a > c /\ b > c /\ c \in Nat /\ n \in Nat
        BY <1>1, <1>3, <2>1, <3>2
      <4> HIDE DEF a, b, c
      <4>2. a - c \in 1 .. n /\ b - c \in 1 .. n
        BY <4>1
      <4> QED
        BY <4>2 DEF a, b, c
    <3>4. x[3] - Len(l) = y[3] - Len(l)
      BY <1>1, <3>1, <3>3
    <3>5. x[3] = y[3]
      <4> DEFINE a == x[3]
                 b == y[3]
                 c == Len(l)
      <4>1. a \in 1 .. c + n /\ b \in 1 .. c + n /\ a - c = b - c /\ c \in Nat /\ n \in Nat
        BY <1>1, <1>3, <3>2, <3>4
      <4> HIDE DEF a, b, c
      <4>2. a = b
        BY <4>1
      <4> QED
        BY <4>2 DEF a, b
    <3> QED
      BY <3>2, <3>5
  <2>2. CASE New(x) /\ ~ New(y)
    BY <1>5, <1>6, <2>2
  <2>3. CASE ~ New(x) /\ New(y)
    BY <1>5, <1>6, <2>3
  <2>4. CASE ~ New(x) /\ ~ New(y)
    BY <1>6, <2>4
  <2> QED
    BY <2>1, <2>2, <2>3, <2>4
<1>7. ASSUME NEW t \in Tasks
      PROVE  \E g \in [Tokens(t)' -> Tokens(t)] :
                \A x, y \in Tokens(t)' : g[x] = g[y] => x = y
  <2> DEFINE S == Tokens(t)
             T == Tokens(t)'
             g == [z \in T |-> f(z)]
  <2>1. \A z \in T : f(z) \in S
    BY <1>5
  <2>2. \A x, y \in T : f(x) = f(y) => x = y
    BY <1>6
  <2> HIDE DEF S, T, f
  <2>3. g \in [T -> S] /\ \A x, y \in T : g[x] = g[y] => x = y
    BY <2>1, <2>2
  <2> QED
    BY <2>3 DEF S, T
<1> QED
  BY <1>2, <1>7, TokensKept

\* a task sent gets a token for each of its launches,
LEMMA TokensSend ==
  ASSUME TypeOK, CoresKept, OneTokenEach, NEW d \in Dispatchers, send_task(d)
  PROVE  OneTokenEach'
<1>s. PICK v \in Dispatchers : \E got, given : Sends(d, v, got, given)
  BY SendFacts
<1>0. PICK got, given : Sends(d, v, got, given)
  BY <1>s
<1> DEFINE q == ready_queue[v][TypeServed(d)]
           K(t) == { k \in 1 .. got : q[k] = t }
           N(t) == { <<"runs", d, given[k]>> : k \in K(t) }
<1>1. /\ got \in Nat /\ got <= Len(q)
      /\ given \in [1 .. got -> disp[d].free]
      /\ \A k \in 1 .. got : disp'[d].map[given[k]] = q[k] /\ cores'[d].runs[given[k]] = q[k]
      /\ \A u \in Units : (\A k \in 1 .. got : given[k] # u) =>
            disp'[d].map[u] = disp[d].map[u] /\ cores'[d].runs[u] = cores[d].runs[u]
      /\ launched' = [t \in Tasks |-> launched[t] + Cardinality(K(t))]
  BY <1>0 DEF Sends
<1>2. /\ cores'[d].msg = cores[d].msg /\ cq' = cq
      /\ \A e \in Dispatchers \ {d} : disp'[e] = disp[e] /\ cores'[e] = cores[e]
      /\ disp[d].free \cap cores[d].msg = {}
  BY SendFacts DEF CoresKept
<1>3. \A e \in Dispatchers : cq[e].log \in Seq(Tasks) /\ cq'[e].log \in Seq(Tasks)
  BY <1>2, TypeFacts DEF CqSet
<1>4. ASSUME NEW t \in Tasks
      PROVE  /\ IsFiniteSet(N(t)) /\ Cardinality(N(t)) <= Cardinality(K(t))
             /\ Cardinality(K(t)) \in Nat
  <2> DEFINE k0 == K(t)
             f == [k \in k0 |-> <<"runs", d, given[k]>>]
  <2>1. IsFiniteSet(k0) /\ Cardinality(k0) \in Nat
    <3>1. IsFiniteSet(1 .. got)
      BY <1>1, FS_Interval
    <3> QED
      BY <3>1, FS_Subset, FS_CardinalityType
  <2>2. N(t) = { f[k] : k \in k0 }
    OBVIOUS
  <2> HIDE DEF k0, f, N
  <2>3. IsFiniteSet(N(t)) /\ Cardinality(N(t)) <= Cardinality(k0)
    BY <2>1, <2>2, ImageFacts
  <2> QED
    BY <2>1, <2>3 DEF k0
<1>5. ASSUME NEW t \in Tasks, NEW z \in Tokens(t)'
      PROVE  z \in Tokens(t) \/ z \in N(t)
  <2>1. IsToken(cores', disp', cq', t, z)
    BY <1>3, TokensNow, TokensAre
  <2>2. SUFFICES ASSUME z \notin N(t) PROVE IsToken(cores, disp, cq, t, z)
    BY <1>3, TokensNow, TokensAre
  <2>3. CASE \E e \in Dispatchers, u \in Units : z = <<"runs", e, u>> /\ cores'[e].runs[u] = t
    <3>1. PICK e \in Dispatchers, u \in Units : z = <<"runs", e, u>> /\ cores'[e].runs[u] = t
      BY <2>3
    <3>2. CASE e = d /\ \E k \in 1 .. got : given[k] = u
      <4>1. PICK k \in 1 .. got : given[k] = u
        BY <3>2
      <4>2. k \in K(t)
        BY <1>1, <3>1, <3>2, <4>1
      <4> QED
        BY <2>2, <3>1, <3>2, <4>1, <4>2
    <3>3. CASE ~ (e = d /\ \E k \in 1 .. got : given[k] = u)
      <4>1. cores[e].runs[u] = t
        BY <1>1, <1>2, <3>1, <3>3
      <4> QED
        BY <3>1, <4>1 DEF IsToken
    <3> QED
      BY <3>2, <3>3
  <2>4. CASE \E e \in Dispatchers, u \in Units :
         z = <<"msg", e, u>> /\ u \in cores'[e].msg /\ disp'[e].map[u] = t
    <3>1. PICK e \in Dispatchers, u \in Units :
         z = <<"msg", e, u>> /\ u \in cores'[e].msg /\ disp'[e].map[u] = t
      BY <2>4
    <3>2. disp[e].map[u] = t /\ u \in cores[e].msg
      <4>1. CASE e = d
        <5>1. \A k \in 1 .. got : given[k] # u
          BY <1>1, <1>2, <3>1, <4>1
        <5> QED
          BY <1>1, <1>2, <3>1, <4>1, <5>1
      <4>2. CASE e # d
        BY <1>2, <3>1, <4>2
      <4> QED
        BY <4>1, <4>2
    <3> QED
      BY <3>1, <3>2 DEF IsToken
  <2>5. CASE \E e \in Dispatchers, k \in Nat :
         z = <<"told", e, k>> /\ k \in DOMAIN cq'[e].log /\ cq'[e].log[k] = t
    BY <1>2, <2>5 DEF IsToken
  <2> QED
    BY <2>1, <2>3, <2>4, <2>5 DEF IsToken
<1> HIDE DEF N, K
<1>6. ASSUME NEW t \in Tasks
      PROVE  /\ IsFiniteSet(Tokens(t)')
             /\ Cardinality(Tokens(t)') <= launched'[t] + (IF t = 0 THEN CntWidth - 1 ELSE 0)
  <2> DEFINE S == Tokens(t)
             T == Tokens(t)'
             U == N(t)
  <2>1. IsFiniteSet(S) /\ Cardinality(S) <= launched[t] + (IF t = 0 THEN CntWidth - 1 ELSE 0)
    BY DEF OneTokenEach
  <2>2. T \subseteq S \cup U
    BY <1>5
  <2>3. launched'[t] = launched[t] + Cardinality(K(t)) /\ launched[t] \in Nat
    BY <1>1, TypeFacts
  <2>4. IsFiniteSet(U) /\ Cardinality(U) <= Cardinality(K(t)) /\ Cardinality(K(t)) \in Nat
    BY <1>4
  <2> HIDE DEF S, T, U
  <2>5. /\ IsFiniteSet(S \cup U)
        /\ Cardinality(S \cup U) = Cardinality(S) + Cardinality(U) - Cardinality(S \cap U)
    BY <2>1, <2>4, FS_Union
  <2>6. IsFiniteSet(T) /\ Cardinality(T) <= Cardinality(S \cup U)
    BY <2>2, <2>5, FS_Subset
  <2>7. /\ Cardinality(S) \in Nat /\ Cardinality(T) \in Nat /\ Cardinality(U) \in Nat
        /\ Cardinality(S \cap U) \in Nat
    <3>1. IsFiniteSet(S \cap U)
      BY <2>1, FS_Intersection
    <3> QED
      BY <2>1, <2>4, <2>6, <3>1, FS_CardinalityType
  <2>8. Cardinality(T) <= launched'[t] + (IF t = 0 THEN CntWidth - 1 ELSE 0)
    BY <2>1, <2>3, <2>4, <2>5, <2>6, <2>7, TaskFacts
  <2> QED
    BY <2>6, <2>8 DEF T
<1> QED
  BY <1>6 DEF OneTokenEach

\* a task finished becomes a message,
LEMMA TokensFinish ==
  ASSUME TypeOK, CoresKept, OneTokenEach, NEW d \in Dispatchers, core_finishes(d)
  PROVE  OneTokenEach'
<1>0. PICK u \in Units :
              /\ cores[d].runs[u] \in Tasks /\ cores[d].runs[u] # NoTask
              /\ cores'[d].runs = [cores[d].runs EXCEPT ![u] = NoTask]
              /\ cores'[d].msg = cores[d].msg \cup {u}
  BY FinishFacts
<1> DEFINE a == <<"msg", d, u>>
           b == <<"runs", d, u>>
           f(z) == IF z = a THEN b ELSE z
<1>1. /\ disp' = disp /\ cq' = cq /\ launched' = launched
      /\ \A e \in Dispatchers \ {d} : cores'[e] = cores[e]
  BY FinishFacts
<1>2. cores[d].runs \in [Units -> Tasks \cup {NoTask}]
  BY TypeFacts DEF CoreSet
<1>3. disp[d].map[u] = cores[d].runs[u]
  BY <1>0 DEF CoresKept, CoresHandedOver
<1>4. \A e \in Dispatchers : cq[e].log \in Seq(Tasks) /\ cq'[e].log \in Seq(Tasks)
  BY <1>1, TypeFacts DEF CqSet
<1>5. ASSUME NEW t \in Tasks, NEW z \in Tokens(t)'
      PROVE  f(z) \in Tokens(t) /\ z # b
  <2>0. t # NoTask
    BY TaskFacts DEF NoTask
  <2>1. IsToken(cores', disp', cq', t, z)
    BY <1>4, TokensNow, TokensAre
  <2>2. SUFFICES IsToken(cores, disp, cq, t, f(z)) /\ z # b
    BY <1>4, TokensNow, TokensAre
  <2>3. CASE \E e \in Dispatchers, w \in Units : z = <<"runs", e, w>> /\ cores'[e].runs[w] = t
    <3>1. PICK e \in Dispatchers, w \in Units : z = <<"runs", e, w>> /\ cores'[e].runs[w] = t
      BY <2>3
    <3>2. ~ (e = d /\ w = u) /\ cores[e].runs[w] = t
      BY <1>0, <1>1, <1>2, <2>0, <3>1
    <3> QED
      BY <3>1, <3>2 DEF IsToken
  <2>4. CASE \E e \in Dispatchers, w \in Units :
         z = <<"msg", e, w>> /\ w \in cores'[e].msg /\ disp'[e].map[w] = t
    <3>1. PICK e \in Dispatchers, w \in Units :
         z = <<"msg", e, w>> /\ w \in cores'[e].msg /\ disp'[e].map[w] = t
      BY <2>4
    <3>2. CASE e = d /\ w = u
      <4>1. z = a /\ cores[d].runs[u] = t
        BY <1>1, <1>3, <3>1, <3>2
      <4> QED
        BY <4>1 DEF IsToken
    <3>3. CASE ~ (e = d /\ w = u)
      <4>1. z # a /\ z # b /\ w \in cores[e].msg /\ disp[e].map[w] = t
        BY <1>0, <1>1, <3>1, <3>3
      <4> QED
        BY <3>1, <4>1 DEF IsToken
    <3> QED
      BY <3>2, <3>3
  <2>5. CASE \E e \in Dispatchers, k \in Nat :
         z = <<"told", e, k>> /\ k \in DOMAIN cq'[e].log /\ cq'[e].log[k] = t
    BY <1>1, <2>5 DEF IsToken
  <2> QED
    BY <2>1, <2>3, <2>4, <2>5 DEF IsToken
<1>6. ASSUME NEW t \in Tasks
      PROVE  \E g \in [Tokens(t)' -> Tokens(t)] :
                \A x, y \in Tokens(t)' : g[x] = g[y] => x = y
  <2> DEFINE S == Tokens(t)
             T == Tokens(t)'
             g == [z \in T |-> f(z)]
  <2>1. \A z \in T : f(z) \in S /\ z # b
    BY <1>5
  <2> HIDE DEF S, T, a, b
  <2>2. \A x, y \in T : f(x) = f(y) => x = y
    BY <2>1
  <2>3. g \in [T -> S] /\ \A x, y \in T : g[x] = g[y] => x = y
    BY <2>1, <2>2
  <2> QED
    BY <2>3 DEF S, T
<1> QED
  BY <1>1, <1>6, TokensKept

\* and the other steps move none.
LEMMA TokensOther ==
  ASSUME TypeOK, OneTokenEach, cores' = cores, launched' = launched,
         \A e \in Dispatchers : disp'[e].map = disp[e].map /\ cq'[e].log = cq[e].log
  PROVE  OneTokenEach'
<1>1. \A e \in Dispatchers : cq[e].log \in Seq(Tasks) /\ cq'[e].log \in Seq(Tasks)
  BY TypeFacts DEF CqSet
<1>2. ASSUME NEW t \in Tasks
      PROVE  Tokens(t)' = Tokens(t)
  <2>1. \A z : IsToken(cores', disp', cq', t, z) <=> IsToken(cores, disp, cq, t, z)
    BY DEF IsToken
  <2>2. \A z : z \in Tokens(t)' <=> z \in Tokens(t)
    BY <1>1, <2>1, TokensNow, TokensAre
  <2> QED
    BY <2>2
<1> QED
  BY <1>2 DEF OneTokenEach

\* Every step keeps one token for each launch.
LEMMA TokensNext ==
  ASSUME TypeOK, CoresKept, OneTokenEach, [Next]_vars
  PROVE  OneTokenEach'
<1>1. ASSUME NEW d \in Dispatchers, remote_cq_write_batch(d) \/ send_nothing(d)
      PROVE  OneTokenEach'
  <2>1. /\ cores' = cores /\ launched' = launched
        /\ \A e \in Dispatchers : disp'[e].map = disp[e].map /\ cq'[e].log = cq[e].log
    BY <1>1, OtherFacts
  <2> QED
    BY <2>1, TokensOther
<1>2. ASSUME NEW d \in Dispatchers, Dispatcher(d) \/ core_finishes(d)
      PROVE  OneTokenEach'
  BY <1>1, <1>2, TokensRead, TokensSend, TokensFinish DEF Dispatcher
<1>3. ASSUME NEW p \in Painters, Painter(p)
      PROVE  OneTokenEach'
  <2>1. UNCHANGED <<disp, cq, cores, launched>>
    BY <1>3, DealFacts, SendReadyFacts, NothingFacts DEF Painter
  <2> QED
    BY <2>1, TokensOther
<1>4. CASE UNCHANGED vars
  BY <1>4, TokensOther DEF vars
<1> QED
  BY <1>2, <1>3, <1>4 DEF Next, Returned

----------------------------------------------------------------------------
(* How often a completion is told.                                          *)

\* The places of completions told.
Positions == UNION { {d} \X (DOMAIN cq[d].log) : d \in Dispatchers }

\* Each is a token of the task told there.
LEMMA PositionFacts ==
  ASSUME TypeOK, NEW x \in Positions
  PROVE  /\ x = <<x[1], x[2]>> /\ x[1] \in Dispatchers /\ x[2] \in DOMAIN cq[x[1]].log
         /\ Told(x) \in Tasks /\ <<"told", x[1], x[2]>> \in Tokens(Told(x))
<1>1. \A d \in Dispatchers : cq[d].log \in Seq(Tasks)
  BY TypeFacts DEF CqSet
<1>2. PICK d \in Dispatchers : x \in {d} \X (DOMAIN cq[d].log)
  BY DEF Positions
<1>3. x = <<x[1], x[2]>> /\ x[1] \in Dispatchers /\ x[2] \in DOMAIN cq[x[1]].log
  BY <1>2
<1>4. x[2] \in Nat /\ cq[x[1]].log[x[2]] \in Tasks
  BY <1>1, <1>3
<1>5. IsToken(cores, disp, cq, Told(x), <<"told", x[1], x[2]>>)
  BY <1>3, <1>4 DEF IsToken, Told
<1> QED
  BY <1>1, <1>3, <1>4, <1>5, TokensNow, TokensAre DEF Told

\* A set of at most one element has no two.
LEMMA AtMostOne ==
  ASSUME NEW S, IsFiniteSet(S), Cardinality(S) <= 1, NEW x \in S, NEW y \in S
  PROVE  x = y
<1> SUFFICES ASSUME x # y PROVE FALSE
  OBVIOUS
<1>1. IsFiniteSet({x}) /\ Cardinality({x}) = 1
  BY FS_Singleton
<1>2. IsFiniteSet({x} \cup {y}) /\ Cardinality({x} \cup {y}) = 2
  <2> DEFINE V == {x}
  <2>1. y \notin V /\ IsFiniteSet(V) /\ Cardinality(V) = 1
    BY <1>1
  <2> HIDE DEF V
  <2>2. IsFiniteSet(V \cup {y}) /\ Cardinality(V \cup {y}) = 2
    BY <2>1, FS_AddElement
  <2> QED
    BY <2>2 DEF V
<1>3. Cardinality({x} \cup {y}) <= Cardinality(S)
  BY FS_Subset
<1>4. Cardinality(S) \in Nat
  BY FS_CardinalityType
<1> QED
  BY <1>2, <1>3, <1>4

\* Where no task was launched twice, every completion but that of task 0 is told once.
LEMMA OnePosition ==
  ASSUME TypeOK, OneTokenEach, \A t \in Tasks : launched[t] <= 1,
         NEW x \in Positions, NEW y \in Positions, Told(x) = Told(y), Told(x) # 0
  PROVE  x = y
<1> DEFINE S == Tokens(Told(x))
<1>1. Told(x) \in Tasks /\ <<"told", x[1], x[2]>> \in S /\ <<"told", y[1], y[2]>> \in S
  BY PositionFacts
<1>2. IsFiniteSet(S) /\ Cardinality(S) <= 1
  <2>1. IsFiniteSet(S) /\ Cardinality(S) <= launched[Told(x)] + 0
    BY <1>1 DEF OneTokenEach
  <2>2. Cardinality(S) \in Nat /\ launched[Told(x)] \in Nat /\ launched[Told(x)] <= 1
    BY <1>1, <2>1, TypeFacts, FS_CardinalityType
  <2> QED
    BY <2>1, <2>2
<1> HIDE DEF S
<1>3. <<"told", x[1], x[2]>> = <<"told", y[1], y[2]>>
  BY <1>1, <1>2, AtMostOne
<1> QED
  BY <1>3, PositionFacts

\* A task's predecessors are fewer than a counter has values.
LEMMA PredsFew ==
  ASSUME CountersWide, NEW t \in Tasks
  PROVE  IsFiniteSet(PredsOf[t]) /\ Cardinality(PredsOf[t]) \in Nat
         /\ Cardinality(PredsOf[t]) < CntWidth
<1>1. PICK p \in Painters : t \in Own(p)
  BY TaskFacts
<1>2. test_graph[p] \in Seq([id : Nat, type : Types, predecessors : Seq(Nat)])
  BY GraphAssumption
<1>3. PICK k \in 1 .. Len(test_graph[p]) : t = test_graph[p][k].id
  <2>1. DOMAIN test_graph[p] = 1 .. Len(test_graph[p])
    BY <1>2
  <2> QED
    BY <1>1, <2>1 DEF Own
<1>4. PredsOf[t] = Range(test_graph[p][k].predecessors) /\ test_graph[p][k] \in Records
  BY <1>3, RecordFacts
<1>5. PredsOf[t] \subseteq Tasks
  BY TaskFacts
<1>6. IsFiniteSet(PredsOf[t]) /\ Cardinality(PredsOf[t]) \in Nat
  BY <1>5, TaskFacts, FS_Subset, FS_CardinalityType
<1> QED
  BY <1>4, <1>6 DEF CountersWide

\* Told of at most so many completions, no counter comes back to zero.
LEMMA BoundedHolds ==
  ASSUME CountersWide, TypeOK, OneTokenEach, \A t \in Tasks : launched[t] <= 1,
         NEW p \in Painters, NEW s, CommittedBy(p, s) \subseteq Tasks,
         \A t \in CommittedBy(p, s) : Waits(s, t) \subseteq PredsOf[t],
         NEW H \in SUBSET Positions, IsFiniteSet(H)
  PROVE  Bounded(p, s, H)
<1> SUFFICES ASSUME NEW t \in CommittedBy(p, s)
             PROVE  /\ Cardinality(Waits(s, t)) < CntWidth
                    /\ Cardinality(Answers(s, H, t)) <= Cardinality(Waits(s, t)) + CntWidth - 1
  BY DEF Bounded
<1> DEFINE w == Waits(s, t)
           A == Answers(s, H, t)
           Z == { x \in A : Told(x) = 0 }
           R == { x \in A : Told(x) # 0 }
<1>1. IsFiniteSet(w) /\ Cardinality(w) \in Nat /\ Cardinality(w) < CntWidth
  <2> DEFINE P == PredsOf[t]
  <2>1. IsFiniteSet(P) /\ Cardinality(P) \in Nat /\ Cardinality(P) < CntWidth /\ w \subseteq P
    BY PredsFew
  <2> HIDE DEF w, P
  <2>2. Cardinality(w) <= Cardinality(P) /\ IsFiniteSet(w)
    BY <2>1, FS_Subset
  <2>3. Cardinality(w) \in Nat
    BY <2>2, FS_CardinalityType
  <2> QED
    BY <2>1, <2>2, <2>3, TaskFacts
<1>2. IsFiniteSet(A) /\ A \subseteq Positions /\ \A x \in A : Told(x) \in w
  BY FS_Subset DEF Answers
<1> HIDE DEF w, A
<1>3. A = Z \cup R /\ IsFiniteSet(Z) /\ IsFiniteSet(R)
  BY <1>2, FS_Subset
<1>4. Cardinality(A) <= Cardinality(Z) + Cardinality(R)
      /\ Cardinality(Z) \in Nat /\ Cardinality(R) \in Nat /\ Cardinality(A) \in Nat
  <2> HIDE DEF Z, R
  <2>1. Cardinality(Z \cup R) = Cardinality(Z) + Cardinality(R) - Cardinality(Z \cap R)
    BY <1>3, FS_Union
  <2>2. /\ Cardinality(Z) \in Nat /\ Cardinality(R) \in Nat /\ Cardinality(A) \in Nat
        /\ Cardinality(Z \cap R) \in Nat
    BY <1>2, <1>3, FS_Intersection, FS_CardinalityType
  <2> QED
    BY <1>3, <2>1, <2>2
<1>5. Cardinality(R) <= Cardinality(w \ {0}) /\ IsFiniteSet(w \ {0})
  <2> DEFINE f == [x \in R |-> Told(x)]
             V == w \ {0}
  <2>1. f \in [R -> V]
    BY <1>2
  <2>2. \A x, y \in R : f[x] = f[y] => x = y
    BY <1>2, OnePosition
  <2>3. IsFiniteSet(V)
    BY <1>1, FS_RemoveElement
  <2> HIDE DEF f, V, R
  <2> QED
    BY <2>1, <2>2, <2>3, TokensMoved DEF V
<1>6. Cardinality(Z) <= CntWidth
  <2> DEFINE g == [x \in Z |-> <<"told", x[1], x[2]>>]
             V == Tokens(0)
  <2>1. g \in [Z -> V]
    BY <1>2, PositionFacts
  <2>2. \A x, y \in Z : g[x] = g[y] => x = y
    <3> SUFFICES ASSUME NEW x \in Z, NEW y \in Z, g[x] = g[y] PROVE x = y
      OBVIOUS
    <3>1. x \in Positions /\ y \in Positions
      BY <1>2
    <3>2. x = <<x[1], x[2]>> /\ y = <<y[1], y[2]>>
      BY <3>1, PositionFacts
    <3>3. x[1] = y[1] /\ x[2] = y[2]
      OBVIOUS
    <3> QED
      BY <3>2, <3>3
  <2>3. IsFiniteSet(V) /\ Cardinality(V) <= launched[0] + (CntWidth - 1)
    BY TaskFacts DEF OneTokenEach
  <2>4. launched[0] \in Nat /\ launched[0] <= 1
    BY TaskFacts, TypeFacts
  <2> HIDE DEF g, V, Z
  <2>5. Cardinality(Z) <= Cardinality(V)
    BY <2>1, <2>2, <2>3, TokensMoved
  <2>6. Cardinality(V) \in Nat
    BY <2>3, FS_CardinalityType
  <2> QED
    BY <1>4, <2>3, <2>4, <2>5, <2>6, TaskFacts
<1>7. CASE 0 \in w
  <2>1. Cardinality(w \ {0}) = Cardinality(w) - 1
    BY <1>1, <1>7, FS_RemoveElement
  <2> DEFINE a == Cardinality(A)
             b == Cardinality(w)
             z == Cardinality(Z)
             r == Cardinality(R)
  <2>2. a \in Nat /\ b \in Nat /\ z \in Nat /\ r \in Nat /\ CntWidth \in Nat
        /\ b < CntWidth /\ a <= z + r /\ z <= CntWidth /\ r <= b - 1
    BY <1>1, <1>4, <1>5, <1>6, <2>1, TaskFacts
  <2> HIDE DEF a, b, z, r
  <2>3. b < CntWidth /\ a <= b + CntWidth - 1
    BY <2>2
  <2> QED
    BY <2>3 DEF a, b, w, A
<1>8. CASE 0 \notin w
  <2>1. Z = {}
    BY <1>2, <1>8
  <2>2. Cardinality(Z) = 0
    BY <2>1, FS_EmptySet
  <2>3. w \ {0} = w
    BY <1>8
  <2> DEFINE a == Cardinality(A)
             b == Cardinality(w)
             z == Cardinality(Z)
             r == Cardinality(R)
  <2>4. a \in Nat /\ b \in Nat /\ r \in Nat /\ CntWidth \in Nat \ {0}
        /\ b < CntWidth /\ a <= z + r /\ z = 0 /\ r <= b
    BY <1>1, <1>4, <1>5, <2>2, <2>3, TaskFacts
  <2> HIDE DEF a, b, z, r
  <2>5. b < CntWidth /\ a <= b + CntWidth - 1
    BY <2>4
  <2> QED
    BY <2>5 DEF a, b, w, A
<1> QED
  BY <1>7, <1>8

----------------------------------------------------------------------------
(* Painters and ready queues: what a step leaves alone.                     *)

\* A painter commits tasks of its own, which no other has.
LEMMA OwnFacts ==
  ASSUME NEW p \in Painters
  PROVE  /\ Own(p) \subseteq Tasks
         /\ \A o \in Painters \ {p} : Own(o) \cap Own(p) = {}
         /\ \A s : s.commit \in Nat /\ s.commit <= Len(test_graph[p]) => CommittedBy(p, s) \subseteq Own(p)
<1>1. \A o \in Painters : DOMAIN test_graph[o] = 1 .. Len(test_graph[o]) /\ Len(test_graph[o]) \in Nat
  <2> SUFFICES ASSUME NEW o \in Painters
               PROVE  DOMAIN test_graph[o] = 1 .. Len(test_graph[o]) /\ Len(test_graph[o]) \in Nat
    OBVIOUS
  <2>1. test_graph[o] \in Seq([id : Nat, type : Types, predecessors : Seq(Nat)])
    BY GraphAssumption
  <2> QED
    BY <2>1
<1>2. Own(p) \subseteq Tasks
  <2> SUFFICES ASSUME NEW k \in DOMAIN test_graph[p] PROVE test_graph[p][k].id \in Tasks
    BY DEF Own
  <2>1. k \in 1 .. Len(test_graph[p])
    BY <1>1
  <2> QED
    BY <2>1, RecordFacts
<1>3. ASSUME NEW o \in Painters, o # p
      PROVE  Own(o) \cap Own(p) = {}
  <2> SUFFICES ASSUME NEW j \in DOMAIN test_graph[o], NEW k \in DOMAIN test_graph[p],
                      test_graph[o][j].id = test_graph[p][k].id
               PROVE  FALSE
    BY DEF Own
  <2>1. o = p
    BY GraphAssumption
  <2> QED
    BY <1>3, <2>1
<1>4. ASSUME NEW s, s.commit \in Nat, s.commit <= Len(test_graph[p])
      PROVE  CommittedBy(p, s) \subseteq Own(p)
  BY <1>1, <1>4 DEF CommittedBy, Own
<1> QED
  BY <1>2, <1>3, <1>4

\* A painter has heard of places of the completion queues.
LEMMA HeardFacts ==
  ASSUME TypeOK, NEW p \in Painters
  PROVE  Heard(p) \subseteq Positions /\ IsFiniteSet(Heard(p))
<1>1. \A d \in Dispatchers : paint[p].read[d] \in Nat /\ paint[p].read[d] <= Len(cq[d].log)
                             /\ DOMAIN cq[d].log = 1 .. Len(cq[d].log) /\ Len(cq[d].log) \in Nat
  <2> SUFFICES ASSUME NEW d \in Dispatchers
               PROVE  paint[p].read[d] \in Nat /\ paint[p].read[d] <= Len(cq[d].log)
                      /\ DOMAIN cq[d].log = 1 .. Len(cq[d].log) /\ Len(cq[d].log) \in Nat
    OBVIOUS
  <2>1. cq[d].log \in Seq(Tasks) /\ paint[p].read[d] \in Nat /\ Visible(p, d) \in Nat
    BY TypeFacts DEF CqSet, PaintSet, Visible
  <2>2. paint[p].read[d] <= Visible(p, d) /\ Visible(p, d) <= Len(cq[d].log)
    BY BatchFacts, TypeFacts
  <2>3. Len(cq[d].log) \in Nat /\ DOMAIN cq[d].log = 1 .. Len(cq[d].log)
    BY <2>1
  <2> QED
    BY <2>1, <2>2, <2>3
<1>2. Heard(p) \subseteq Positions
  <2> SUFFICES ASSUME NEW d \in Dispatchers
               PROVE  {d} \X (1 .. paint[p].read[d]) \subseteq {d} \X (DOMAIN cq[d].log)
    BY DEF Heard, Positions
  <2> QED
    BY <1>1
<1>3. IsFiniteSet(Heard(p))
  <2> DEFINE f == [d \in Dispatchers |-> {d} \X (1 .. paint[p].read[d])]
             F == { f[d] : d \in Dispatchers }
  <2>1. ASSUME NEW d \in Dispatchers
        PROVE  IsFiniteSet({d} \X (1 .. paint[p].read[d]))
    <3>1. IsFiniteSet({d}) /\ IsFiniteSet(1 .. paint[p].read[d])
      <4>1. \A a, b \in Int : IsFiniteSet(a .. b)
        BY FS_Interval
      <4>2. paint[p].read[d] \in Int /\ 1 \in Int
        BY <1>1
      <4> QED
        BY <4>1, <4>2, FS_Singleton
    <3> QED
      BY <3>1, FS_Product
  <2>2. Heard(p) = UNION F
    BY DEF Heard
  <2>3. \A T \in F : IsFiniteSet(T)
    BY <2>1
  <2> HIDE DEF f
  <2>4. IsFiniteSet(F)
    BY ConstantFacts, ImageFacts
  <2> HIDE DEF F
  <2> QED
    BY <2>2, <2>3, <2>4, FS_UNION
<1> QED
  BY <1>2, <1>3

\* A step that leaves a painter's own tables, the completions it heard of and its tasks'
\* places leaves it sound.
LEMMA SoundFrame ==
  ASSUME NEW o \in Painters, NEW s, NEW e, NEW H, PainterSound(o, s, H),
         CommittedBy(o, s) \subseteq Own(o),
         e.commit = s.commit, e.done = s.done, e.successors = s.successors, e.ready = s.ready,
         \A t \in CommittedBy(o, s) : e.cnt[t] = s.cnt[t],
         \A x \in H : Told(x)' = Told(x),
         \A t \in Own(o) : LeftPainter(t)' <=> LeftPainter(t)
  PROVE  PainterSound(o, e, H)'
<1>1. CommittedBy(o, e) = CommittedBy(o, s) /\ CommittedBy(o, e)' = CommittedBy(o, e)
  BY DEF CommittedBy
<1>2. \A t : Waits(e, t) = Waits(s, t) /\ Waits(e, t)' = Waits(e, t)
  BY DEF Waits
<1>3. ASSUME NEW t
      PROVE  Answers(e, H, t)' = Answers(s, H, t)
  <2>1. Answers(e, H, t)' = { x \in H : Told(x)' \in Waits(e, t) }
    BY <1>2 DEF Answers
  <2>2. Answers(s, H, t) = { x \in H : Told(x) \in Waits(s, t) }
    BY DEF Answers
  <2> QED
    BY <1>2, <2>1, <2>2
<1>4. \A t \in CommittedBy(o, s) : MadeReady(e, t)' <=> MadeReady(s, t)
  BY DEF MadeReady
<1>5. CountedSound(o, e, H)'
  <2> SUFFICES ASSUME NEW t \in CommittedBy(o, e)'
               PROVE  /\ Waits(e, t)' \subseteq PredsOf[t]
                      /\ PredsOf[t] \ Waits(e, t)' \subseteq e.done
                      /\ e.cnt[t] = CountAfter(Cardinality(Waits(e, t)'), Cardinality(Answers(e, H, t)'))
                      /\ MadeReady(e, t)' => Cardinality(Answers(e, H, t)') >= Cardinality(Waits(e, t)')
                      /\ QueuesDeep =>
                           (Cardinality(Answers(e, H, t)') >= Cardinality(Waits(e, t)') => MadeReady(e, t)')
    BY DEF CountedSound, CountAfter, QueuesDeep
  <2>1. t \in CommittedBy(o, s)
    BY <1>1
  <2>2. /\ Waits(s, t) \subseteq PredsOf[t] /\ PredsOf[t] \ Waits(s, t) \subseteq s.done
        /\ s.cnt[t] = CountAfter(Cardinality(Waits(s, t)), Cardinality(Answers(s, H, t)))
        /\ MadeReady(s, t) => Cardinality(Answers(s, H, t)) >= Cardinality(Waits(s, t))
        /\ QueuesDeep =>
             (Cardinality(Answers(s, H, t)) >= Cardinality(Waits(s, t)) => MadeReady(s, t))
    BY <2>1 DEF PainterSound, CountedSound
  <2>3. Waits(e, t)' = Waits(s, t) /\ Answers(e, H, t)' = Answers(s, H, t)
    BY <1>2, <1>3
  <2> QED
    BY <1>4, <2>1, <2>2, <2>3
<1>6. ListsSound(o, e)'
  <2> SUFFICES /\ \A q \in Tasks : IsInjective(e.successors[q])
                                   /\ Range(e.successors[q]) \subseteq CommittedBy(o, e)'
               /\ \A y \in Types :
                    /\ IsInjective(e.ready[y])
                    /\ \A t \in Range(e.ready[y]) :
                         t \in CommittedBy(o, e)' /\ TypeOf[t] = y /\ ~ LeftPainter(t)'
               /\ \A t \in Own(o) \ CommittedBy(o, e)' : ~ LeftPainter(t)'
    BY DEF ListsSound, Own
  <2>1. /\ \A q \in Tasks : IsInjective(s.successors[q])
                            /\ Range(s.successors[q]) \subseteq CommittedBy(o, s)
        /\ \A y \in Types :
             /\ IsInjective(s.ready[y])
             /\ \A t \in Range(s.ready[y]) :
                  t \in CommittedBy(o, s) /\ TypeOf[t] = y /\ ~ LeftPainter(t)
        /\ \A t \in Own(o) \ CommittedBy(o, s) : ~ LeftPainter(t)
    BY DEF PainterSound, ListsSound
  <2>2. CommittedBy(o, e)' = CommittedBy(o, s)
    BY <1>1
  <2> QED
    BY <2>1, <2>2
<1> QED
  BY <1>5, <1>6 DEF PainterSound

\* A painter is sound after a step when the tables it then has are.
LEMMA SoundNext ==
  ASSUME NEW o \in Painters, NEW e, NEW H, e = Tables(o)', H = Heard(o)',
         PainterSound(o, e, H)'
  PROVE  PainterSound(o, Tables(o), Heard(o))'
<1>1. CommittedBy(o, Tables(o))' = CommittedBy(o, e)'
  BY DEF CommittedBy
<1>2. \A t : Waits(Tables(o), t)' = Waits(e, t)'
  BY DEF Waits
<1>3. ASSUME NEW t
      PROVE  Answers(Tables(o), Heard(o), t)' = Answers(e, H, t)'
  <2>1. /\ Answers(Tables(o), Heard(o), t)' = { x \in H : Told(x)' \in Waits(Tables(o), t)' }
        /\ Answers(e, H, t)' = { x \in H : Told(x)' \in Waits(e, t)' }
    BY DEF Answers
  <2> QED
    BY <1>2, <2>1
<1>4. \A t : MadeReady(Tables(o), t)' <=> MadeReady(e, t)'
  BY DEF MadeReady
<1>5. CountedSound(o, Tables(o), Heard(o))'
  <2> SUFFICES ASSUME NEW t \in CommittedBy(o, Tables(o))'
               PROVE  /\ Waits(Tables(o), t)' \subseteq PredsOf[t]
                      /\ PredsOf[t] \ Waits(Tables(o), t)' \subseteq Tables(o)'.done
                      /\ Tables(o)'.cnt[t] = CountAfter(Cardinality(Waits(Tables(o), t)'),
                                              Cardinality(Answers(Tables(o), Heard(o), t)'))
                      /\ MadeReady(Tables(o), t)' =>
                           Cardinality(Answers(Tables(o), Heard(o), t)') >= Cardinality(Waits(Tables(o), t)')
                      /\ QueuesDeep =>
                           (Cardinality(Answers(Tables(o), Heard(o), t)') >= Cardinality(Waits(Tables(o), t)')
                              => MadeReady(Tables(o), t)')
    BY DEF CountedSound, CountAfter, QueuesDeep
  <2>1. /\ Waits(e, t)' \subseteq PredsOf[t] /\ PredsOf[t] \ Waits(e, t)' \subseteq e.done
        /\ e.cnt[t] = CountAfter(Cardinality(Waits(e, t)'), Cardinality(Answers(e, H, t)'))
        /\ MadeReady(e, t)' => Cardinality(Answers(e, H, t)') >= Cardinality(Waits(e, t)')
        /\ QueuesDeep =>
             (Cardinality(Answers(e, H, t)') >= Cardinality(Waits(e, t)') => MadeReady(e, t)')
    BY <1>1 DEF PainterSound, CountedSound, CountAfter, QueuesDeep
  <2>2. /\ Waits(Tables(o), t)' = Waits(e, t)'
        /\ Answers(Tables(o), Heard(o), t)' = Answers(e, H, t)'
        /\ MadeReady(Tables(o), t)' <=> MadeReady(e, t)'
    BY <1>2, <1>3, <1>4
  <2> QED
    BY <2>1, <2>2
<1>6. ListsSound(o, Tables(o))'
  BY <1>1 DEF PainterSound, ListsSound
<1> QED
  BY <1>5, <1>6 DEF PainterSound

\* More tasks done leave it sound.
LEMMA SoundDone ==
  ASSUME NEW o \in Painters, NEW s, NEW e, NEW H, PainterSound(o, s, H),
         e.commit = s.commit, s.done \subseteq e.done, e.successors = s.successors,
         e.ready = s.ready, e.cnt = s.cnt
  PROVE  PainterSound(o, e, H)
<1>1. CommittedBy(o, e) = CommittedBy(o, s)
  BY DEF CommittedBy
<1>2. \A t : Waits(e, t) = Waits(s, t) /\ Answers(e, H, t) = Answers(s, H, t)
             /\ (MadeReady(e, t) <=> MadeReady(s, t))
  BY DEF Waits, Answers, MadeReady
<1>3. CountedSound(o, e, H)
  <2> SUFFICES ASSUME NEW t \in CommittedBy(o, e)
               PROVE  /\ Waits(e, t) \subseteq PredsOf[t]
                      /\ PredsOf[t] \ Waits(e, t) \subseteq e.done
                      /\ e.cnt[t] = CountAfter(Cardinality(Waits(e, t)), Cardinality(Answers(e, H, t)))
                      /\ MadeReady(e, t) => Cardinality(Answers(e, H, t)) >= Cardinality(Waits(e, t))
                      /\ QueuesDeep =>
                           (Cardinality(Answers(e, H, t)) >= Cardinality(Waits(e, t)) => MadeReady(e, t))
    BY DEF CountedSound
  <2>1. /\ Waits(s, t) \subseteq PredsOf[t] /\ PredsOf[t] \ Waits(s, t) \subseteq s.done
        /\ s.cnt[t] = CountAfter(Cardinality(Waits(s, t)), Cardinality(Answers(s, H, t)))
        /\ MadeReady(s, t) => Cardinality(Answers(s, H, t)) >= Cardinality(Waits(s, t))
        /\ QueuesDeep =>
             (Cardinality(Answers(s, H, t)) >= Cardinality(Waits(s, t)) => MadeReady(s, t))
    BY <1>1 DEF PainterSound, CountedSound
  <2> QED
    BY <1>2, <2>1
<1>4. ListsSound(o, e)
  BY <1>1 DEF PainterSound, ListsSound
<1> QED
  BY <1>3, <1>4 DEF PainterSound

\* A painter's part of the invariant.
Sound(o) == /\ PainterSound(o, Tables(o), Heard(o))
            /\ paint[o].done = { Told(x) : x \in Heard(o) }

\* A painter is sound after a step that leaves its tables, its counters and its
\* completions alone, and moves none of its tasks out of a painter.
LEMMA SoundOther ==
  ASSUME TypeOK, NEW o \in Painters, Sound(o),
         paint'[o].read = paint[o].read, paint'[o].commit = paint[o].commit,
         paint'[o].done = paint[o].done, paint'[o].successors = paint[o].successors,
         paint'[o].ready = paint[o].ready,
         \A t \in Own(o) : g_predecessor_cnt'[t] = g_predecessor_cnt[t],
         \A x \in Positions : Told(x)' = Told(x),
         \A t \in Own(o) : LeftPainter(t)' <=> LeftPainter(t)
  PROVE  Sound(o)'
<1>1. PICK e : e = Tables(o)'
  OBVIOUS
<1>2. Heard(o)' = Heard(o)
  BY DEF Heard
<1>3. PICK s : s = Tables(o)
  OBVIOUS
<1>4. PICK H : H = Heard(o)
  OBVIOUS
<1>5. /\ s.cnt = g_predecessor_cnt /\ s.commit = paint[o].commit /\ s.done = paint[o].done
      /\ s.successors = paint[o].successors /\ s.ready = paint[o].ready
  BY <1>3 DEF Tables
<1>6. /\ e.cnt = g_predecessor_cnt' /\ e.commit = paint'[o].commit /\ e.done = paint'[o].done
      /\ e.successors = paint'[o].successors /\ e.ready = paint'[o].ready
  BY <1>1 DEF Tables
<1>7. PainterSound(o, s, H) /\ s.commit \in Nat /\ s.commit <= Len(test_graph[o])
  BY <1>3, <1>4, <1>5, TypeFacts DEF Sound, PaintSet
<1>8. CommittedBy(o, s) \subseteq Own(o)
  BY <1>7, OwnFacts
<1>9. PainterSound(o, e, H)'
  <2>1. /\ e.commit = s.commit /\ e.done = s.done /\ e.successors = s.successors
        /\ e.ready = s.ready /\ \A t \in CommittedBy(o, s) : e.cnt[t] = s.cnt[t]
    BY <1>5, <1>6, <1>8
  <2>2. \A x \in H : Told(x)' = Told(x)
    BY <1>4, HeardFacts
  <2> QED
    BY <1>7, <1>8, <2>1, <2>2, SoundFrame
<1>10. PainterSound(o, Tables(o), Heard(o))'
  <2>1. H = Heard(o)'
    BY <1>2, <1>4
  <2> QED
    BY <1>1, <1>9, <2>1, SoundNext
<1>11. paint'[o].done = { Told(x)' : x \in Heard(o)' }
  <2>1. \A x \in Heard(o) : Told(x)' = Told(x)
    BY HeardFacts
  <2> QED
    BY <1>2, <2>1 DEF Sound
<1> QED
  BY <1>10, <1>11 DEF Sound

\* The queues and all painters are sound after a step that leaves painters, queues and
\* launches alone and forgets no completion.
LEMMA SoundStays ==
  ASSUME TypeOK, QueuesSound, PaintersSound, launched' = launched, ready_queue' = ready_queue,
         g_predecessor_cnt' = g_predecessor_cnt,
         \A o \in Painters : /\ paint'[o].read = paint[o].read /\ paint'[o].commit = paint[o].commit
                             /\ paint'[o].done = paint[o].done /\ paint'[o].ready = paint[o].ready
                             /\ paint'[o].successors = paint[o].successors,
         \A x \in Positions : Told(x)' = Told(x)
  PROVE  QueuesSound' /\ PaintersSound'
<1>1. QueuesSound'
  BY DEF QueuesSound
<1>2. \A t : LeftPainter(t)' <=> LeftPainter(t)
  BY DEF LeftPainter
<1>3. ASSUME NEW o \in Painters PROVE Sound(o)'
  <2>1. Sound(o)
    BY DEF PaintersSound, Sound
  <2> QED
    BY <1>2, <2>1, SoundOther
<1> QED
  BY <1>1, <1>3 DEF PaintersSound, Sound

\* Reading messages writes behind the completions already told.
LEMMA SoundRead ==
  ASSUME TypeOK, QueuesSound, PaintersSound, NEW d \in Dispatchers, read_msgq(d)
  PROVE  QueuesSound' /\ PaintersSound'
<1>1. PICK n, units, tasks : Reads(d, n, units, tasks)
  BY ReadFacts
<1>2. /\ tasks \in Seq(Tasks) /\ cq'[d].log = cq[d].log \o tasks
      /\ \A e \in Dispatchers : cq[e].log \in Seq(Tasks)
      /\ \A e \in Dispatchers \ {d} : cq'[e] = cq[e]
      /\ UNCHANGED <<ready_queue, paint, g_predecessor_cnt, launched>>
  BY <1>1, ReadFacts, TypeFacts DEF Reads, CqSet
<1>3. ASSUME NEW x \in Positions PROVE Told(x)' = Told(x)
  <2>1. x[1] \in Dispatchers /\ x[2] \in DOMAIN cq[x[1]].log
    BY PositionFacts
  <2>2. CASE x[1] = d
    <3> DEFINE l == cq[d].log
    <3>1. l \in Seq(Tasks) /\ x[2] \in 1 .. Len(l)
      BY <1>2, <2>1, <2>2
    <3> HIDE DEF l
    <3>2. (l \o tasks)[x[2]] = l[x[2]]
      BY <1>2, <3>1
    <3> QED
      BY <1>2, <2>2, <3>2 DEF Told, l
  <2>3. CASE x[1] # d
    BY <1>2, <2>1, <2>3 DEF Told
  <2> QED
    BY <2>2, <2>3
<1> QED
  BY <1>2, <1>3, SoundStays

\* Writing the remote position, finding nothing, a core that finishes and stuttering.
LEMMA SoundSteps ==
  ASSUME TypeOK, QueuesSound, PaintersSound,
         \/ \E p \in Painters : deal_nothing(p)
         \/ \E d \in Dispatchers : remote_cq_write_batch(d) \/ send_nothing(d) \/ core_finishes(d)
         \/ UNCHANGED vars
  PROVE  QueuesSound' /\ PaintersSound'
<1>1. CASE \E p \in Painters : deal_nothing(p)
  <2>1. PICK p \in Painters : deal_nothing(p)
    BY <1>1
  <2>2. UNCHANGED <<cq, launched, ready_queue, g_predecessor_cnt>>
    BY <2>1, NothingFacts
  <2>3. \A o \in Painters :
          /\ paint'[o].read = paint[o].read /\ paint'[o].commit = paint[o].commit
          /\ paint'[o].done = paint[o].done /\ paint'[o].ready = paint[o].ready
          /\ paint'[o].successors = paint[o].successors
    BY <2>1, NothingFacts
  <2>4. \A x \in Positions : Told(x)' = Told(x)
    BY <2>2 DEF Told
  <2> QED
    BY <2>2, <2>3, <2>4, SoundStays
<1>2. CASE \E d \in Dispatchers : remote_cq_write_batch(d) \/ send_nothing(d)
  <2>1. PICK d \in Dispatchers : remote_cq_write_batch(d) \/ send_nothing(d)
    BY <1>2
  <2>2. UNCHANGED <<paint, launched, ready_queue, g_predecessor_cnt>>
    BY <2>1, OtherFacts
  <2>3. \A e \in Dispatchers : cq'[e].log = cq[e].log
    BY <2>1, OtherFacts
  <2>4. \A x \in Positions : Told(x)' = Told(x)
    BY <2>3, PositionFacts DEF Told
  <2> QED
    BY <2>2, <2>4, SoundStays
<1>3. CASE \E d \in Dispatchers : core_finishes(d)
  <2>1. UNCHANGED <<paint, launched, ready_queue, g_predecessor_cnt, cq>>
    BY <1>3, FinishFacts
  <2>2. \A x \in Positions : Told(x)' = Told(x)
    BY <2>1 DEF Told
  <2> QED
    BY <2>1, <2>2, SoundStays
<1>4. CASE UNCHANGED vars
  <2>1. UNCHANGED <<paint, launched, ready_queue, g_predecessor_cnt, cq>>
    BY <1>4 DEF vars
  <2>2. \A x \in Positions : Told(x)' = Told(x)
    BY <2>1 DEF Told
  <2> QED
    BY <2>1, <2>2, SoundStays
<1> QED
  BY <1>1, <1>2, <1>3, <1>4

\* A queue without repetition, cut in two.
LEMMA CutFacts ==
  ASSUME NEW q \in Seq(Tasks), IsInjective(q), NEW n \in Nat, n <= Len(q)
  PROVE  LET rest == SubSeq(q, n + 1, Len(q))
             first == { q[k] : k \in 1 .. n }
         IN /\ rest \in Seq(Tasks) /\ IsInjective(rest)
            /\ Range(rest) = Range(q) \ first /\ first \subseteq Range(q)
            /\ \A t : Cardinality({ k \in 1 .. n : q[k] = t }) = IF t \in first THEN 1 ELSE 0
<1> DEFINE rest == SubSeq(q, n + 1, Len(q))
           first == { q[k] : k \in 1 .. n }
<1>1. /\ rest \in Seq(Tasks) /\ Len(rest) = Len(q) - n
      /\ \A k \in 1 .. Len(q) - n : rest[k] = q[n + k]
      /\ DOMAIN q = 1 .. Len(q) /\ Len(q) \in Nat
  <2>1. Len(q) \in Nat /\ DOMAIN q = 1 .. Len(q)
    OBVIOUS
  <2>2. \A i \in n + 1 .. Len(q) : q[i] \in Tasks
    BY <2>1
  <2> DEFINE m == n + 1
             l == Len(q)
  <2>3. m \in Int /\ l \in Int /\ \A i \in m .. l : q[i] \in Tasks
    BY <2>1, <2>2
  <2> HIDE DEF m, l
  <2>4. /\ SubSeq(q, m, l) \in Seq(Tasks)
        /\ Len(SubSeq(q, m, l)) = IF m <= l THEN l - m + 1 ELSE 0
        /\ \A i \in 1 .. l - m + 1 : SubSeq(q, m, l)[i] = q[m + i - 1]
    BY <2>3, SubSeqProperties
  <2>5. rest = SubSeq(q, m, l)
    BY DEF m, l
  <2> HIDE DEF rest
  <2>6. /\ rest \in Seq(Tasks) /\ Len(rest) = IF m <= l THEN l - m + 1 ELSE 0
        /\ \A i \in 1 .. l - m + 1 : rest[i] = q[m + i - 1]
    BY <2>4, <2>5
  <2>7. Len(rest) = Len(q) - n
    <3>1. m = n + 1 /\ l = Len(q) /\ l \in Nat /\ n <= l
      BY <2>1 DEF m, l
    <3>2. (IF m <= l THEN l - m + 1 ELSE 0) = l - n
      BY <3>1
    <3> QED
      BY <2>6, <3>1, <3>2
  <2>8. ASSUME NEW k \in 1 .. Len(q) - n PROVE rest[k] = q[n + k]
    <3>1. k \in 1 .. l - m + 1 /\ m + k - 1 = n + k
      BY <2>1 DEF m, l
    <3> QED
      BY <2>6, <3>1
  <2> QED
    BY <2>1, <2>6, <2>7, <2>8
<1> HIDE DEF rest
<1>2. DOMAIN rest = 1 .. Len(q) - n
  BY <1>1
<1>3. \A j, k \in 1 .. Len(q) : q[j] = q[k] => j = k
  BY <1>1 DEF IsInjective
<1>4. IsInjective(rest)
  BY <1>1, <1>2, <1>3 DEF IsInjective
<1>5. first \subseteq Range(q)
  BY <1>1 DEF Range
<1>6. Range(rest) = Range(q) \ first
  <2>1. ASSUME NEW t \in Range(rest) PROVE t \in Range(q) \ first
    <3>1. PICK k \in 1 .. Len(q) - n : t = rest[k]
      BY <1>2 DEF Range
    <3>2. t = q[n + k] /\ n + k \in 1 .. Len(q)
      BY <1>1, <3>1
    <3>3. ASSUME NEW j \in 1 .. n PROVE q[j] # t
      BY <1>1, <1>3, <3>2
    <3> QED
      BY <1>1, <3>2, <3>3 DEF Range
  <2>2. ASSUME NEW t \in Range(q), t \notin first PROVE t \in Range(rest)
    <3>1. PICK k \in 1 .. Len(q) : t = q[k]
      BY <1>1 DEF Range
    <3>2. k > n
      BY <2>2, <3>1
    <3>3. k - n \in 1 .. Len(q) - n /\ n + (k - n) = k
      BY <1>1, <3>1, <3>2
    <3>4. rest[k - n] = t
      BY <1>1, <3>1, <3>3
    <3> QED
      BY <1>2, <3>3, <3>4 DEF Range
  <2> QED
    BY <2>1, <2>2
<1>7. ASSUME NEW t
      PROVE  Cardinality({ k \in 1 .. n : q[k] = t }) = IF t \in first THEN 1 ELSE 0
  <2> DEFINE K == { k \in 1 .. n : q[k] = t }
  <2>1. CASE t \in first
    <3>1. PICK k \in 1 .. n : q[k] = t
      BY <2>1
    <3>2. K = {k}
      BY <1>1, <1>3, <3>1
    <3> HIDE DEF K
    <3>3. Cardinality({k}) = 1
      BY FS_Singleton
    <3> QED
      BY <2>1, <3>2, <3>3 DEF K
  <2>2. CASE t \notin first
    <3>1. K = {}
      BY <2>2
    <3>2. Cardinality({}) = 0
      BY FS_EmptySet
    <3> QED
      BY <2>2, <3>1, <3>2
  <2> QED
    BY <2>1, <2>2
<1> QED
  BY <1>1, <1>4, <1>5, <1>6, <1>7 DEF rest

\* A task sent to a core leaves the queue for the core: it had left its painter before.
LEMMA SoundSend ==
  ASSUME TypeOK, QueuesSound, PaintersSound, NEW d \in Dispatchers, send_task(d)
  PROVE  QueuesSound' /\ PaintersSound'
<1>s. PICK v \in Dispatchers : \E got, given : Sends(d, v, got, given)
  BY SendFacts
<1>0. PICK got, given : Sends(d, v, got, given)
  BY <1>s
<1> DEFINE y == TypeServed(d)
           q == ready_queue[0][y]
           rest == SubSeq(q, got + 1, Len(q))
           first == { q[k] : k \in 1 .. got }
<1>1. y \in Types /\ 0 \in Dispatchers /\ q \in Seq(Tasks)
  BY SendFacts, ConstantFacts, TypeFacts
<1>2. v = 0
  <2>1. got \in Nat \ {0} /\ got <= Len(ready_queue[v][y])
    BY <1>0 DEF Sends
  <2>2. ready_queue[v][y] # <<>>
    BY <2>1
  <2> QED
    BY <1>1, <2>2 DEF QueuesSound
<1>3. /\ got \in Nat /\ got <= Len(q)
      /\ ready_queue' = [ready_queue EXCEPT ![0][y] = rest]
      /\ launched' = [t \in Tasks |-> launched[t] + Cardinality({ k \in 1 .. got : q[k] = t })]
  BY <1>0, <1>2 DEF Sends
<1>4. /\ IsInjective(q) /\ \A t \in Range(q) : TypeOf[t] = y /\ launched[t] = 0
      /\ \A e \in Dispatchers \ {0}, z \in Types : ready_queue[e][z] = <<>>
      /\ \A z \in Types : IsInjective(ready_queue[0][z])
                          /\ \A t \in Range(ready_queue[0][z]) : TypeOf[t] = z /\ launched[t] = 0
      /\ \A t \in Tasks : launched[t] <= 1 /\ launched[t] \in Nat
  BY <1>1, TypeFacts DEF QueuesSound
<1> HIDE DEF y, q
<1>5. /\ rest \in Seq(Tasks) /\ IsInjective(rest)
      /\ Range(rest) = Range(q) \ first /\ first \subseteq Range(q)
      /\ \A t : Cardinality({ k \in 1 .. got : q[k] = t }) = IF t \in first THEN 1 ELSE 0
  BY <1>1, <1>3, <1>4, CutFacts
<1> HIDE DEF rest, first
<1>6. \A t \in Tasks : launched'[t] = IF t \in first THEN launched[t] + 1 ELSE launched[t]
  BY <1>3, <1>4, <1>5
<1>7. /\ ready_queue'[0][y] = rest
      /\ \A z \in Types \ {y} : ready_queue'[0][z] = ready_queue[0][z]
      /\ \A e \in Dispatchers \ {0} : ready_queue'[e] = ready_queue[e]
  BY <1>1, <1>3, TypeFacts
<1>8. \A z \in Types : Range(ready_queue[0][z]) \subseteq Tasks
  <2>1. \A z \in Types : ready_queue[0][z] \in Seq(Tasks)
    BY <1>1, TypeFacts
  <2> QED
    BY <2>1 DEF Range
<1>9. q = ready_queue[0][y]
  BY DEF q
<1>10. QueuesSound'
  <2>1. \A e \in Dispatchers \ {0}, z \in Types : ready_queue'[e][z] = <<>>
    BY <1>4, <1>7
  <2>2. \A t \in Tasks : launched'[t] <= 1
    BY <1>4, <1>5, <1>6
  <2>3. ASSUME NEW z \in Types
        PROVE  /\ IsInjective(ready_queue'[0][z])
               /\ \A t \in Range(ready_queue'[0][z]) : TypeOf[t] = z /\ launched'[t] = 0
    <3>1. CASE z = y
      <4>1. \A t \in Range(rest) : t \in Tasks /\ t \notin first /\ TypeOf[t] = y /\ launched[t] = 0
        BY <1>1, <1>4, <1>5, <1>8, <1>9
      <4> QED
        BY <1>5, <1>6, <1>7, <3>1, <4>1
    <3>2. CASE z # y
      <4>1. \A t \in Range(ready_queue[0][z]) : t \in Tasks /\ t \notin first
        BY <1>4, <1>5, <1>8, <1>9, <3>2
      <4> QED
        BY <1>4, <1>6, <1>7, <3>2, <4>1
    <3> QED
      BY <3>1, <3>2
  <2> QED
    BY <2>1, <2>2, <2>3 DEF QueuesSound
<1>11. ASSUME NEW t \in Tasks PROVE LeftPainter(t)' <=> LeftPainter(t)
  <2>1. TypeOf[t] \in Types
    BY TaskFacts
  <2>2. CASE t \in first
    <3>1. launched'[t] = 1 /\ t \in Range(ready_queue[0][TypeOf[t]])
      BY <1>4, <1>5, <1>6, <1>9, <2>2
    <3> QED
      BY <3>1 DEF LeftPainter
  <2>3. CASE t \notin first
    <3>1. launched'[t] = launched[t]
      BY <1>6, <2>3
    <3>2. t \in Range(ready_queue'[0][TypeOf[t]]) <=> t \in Range(ready_queue[0][TypeOf[t]])
      <4>1. CASE TypeOf[t] = y
        BY <1>5, <1>7, <1>9, <2>3, <4>1
      <4>2. CASE TypeOf[t] # y
        BY <1>7, <2>1, <4>2
      <4> QED
        BY <4>1, <4>2
    <3> QED
      BY <3>1, <3>2 DEF LeftPainter
  <2> QED
    BY <2>2, <2>3
<1>12. ASSUME NEW o \in Painters PROVE Sound(o)'
  <2>1. Sound(o) /\ Own(o) \subseteq Tasks
    BY OwnFacts DEF PaintersSound, Sound
  <2>2. UNCHANGED <<cq, paint, g_predecessor_cnt>>
    BY SendFacts
  <2>3. \A x \in Positions : Told(x)' = Told(x)
    BY <2>2 DEF Told
  <2>4. \A t \in Own(o) : LeftPainter(t)' <=> LeftPainter(t)
    BY <1>11, <2>1
  <2>5. \A t \in Own(o) : g_predecessor_cnt'[t] = g_predecessor_cnt[t]
    BY <2>2
  <2> QED
    BY <2>1, <2>2, <2>3, <2>4, <2>5, SoundOther
<1> QED
  BY <1>10, <1>12 DEF PaintersSound, Sound

\* Two queues of different tasks, one behind the other.
LEMMA JoinFacts ==
  ASSUME NEW q \in Seq(Tasks), NEW b \in Seq(Tasks), IsInjective(q), IsInjective(b),
         Range(q) \cap Range(b) = {}
  PROVE  /\ q \o b \in Seq(Tasks) /\ Len(q \o b) = Len(q) + Len(b)
         /\ IsInjective(q \o b) /\ Range(q \o b) = Range(q) \cup Range(b)
<1> DEFINE c == q \o b
<1>1. /\ c \in Seq(Tasks) /\ Len(c) = Len(q) + Len(b)
      /\ \A k \in 1 .. Len(q) + Len(b) : c[k] = IF k <= Len(q) THEN q[k] ELSE b[k - Len(q)]
  BY ConcatProperties
<1>2. /\ Len(q) \in Nat /\ Len(b) \in Nat /\ DOMAIN q = 1 .. Len(q) /\ DOMAIN b = 1 .. Len(b)
  OBVIOUS
<1> HIDE DEF c
<1>3. DOMAIN c = 1 .. Len(q) + Len(b)
  BY <1>1
<1>4. /\ \A j, k \in 1 .. Len(q) : q[j] = q[k] => j = k
      /\ \A j, k \in 1 .. Len(b) : b[j] = b[k] => j = k
      /\ \A j \in 1 .. Len(q), k \in 1 .. Len(b) : q[j] # b[k]
  <2>1. \A j, k \in 1 .. Len(q) : q[j] = q[k] => j = k
    BY <1>2 DEF IsInjective
  <2>2. \A j, k \in 1 .. Len(b) : b[j] = b[k] => j = k
    BY <1>2 DEF IsInjective
  <2>3. ASSUME NEW j \in 1 .. Len(q), NEW k \in 1 .. Len(b) PROVE q[j] # b[k]
    <3>1. q[j] \in Range(q) /\ b[k] \in Range(b)
      BY <1>2 DEF Range
    <3> QED
      BY <3>1
  <2> QED
    BY <2>1, <2>2, <2>3
<1>5. ASSUME NEW j \in DOMAIN c, NEW k \in DOMAIN c, c[j] = c[k] PROVE j = k
  <2>1. \A i \in DOMAIN c : \/ i \in 1 .. Len(q) /\ c[i] = q[i]
                            \/ i - Len(q) \in 1 .. Len(b) /\ c[i] = b[i - Len(q)] /\ i > Len(q)
    BY <1>1, <1>2, <1>3
  <2>2. CASE j \in 1 .. Len(q) /\ k \in 1 .. Len(q)
    BY <1>2, <1>4, <1>5, <2>1, <2>2
  <2>3. CASE j \in 1 .. Len(q) /\ k \notin 1 .. Len(q)
    BY <1>2, <1>4, <1>5, <2>1, <2>3
  <2>4. CASE j \notin 1 .. Len(q) /\ k \in 1 .. Len(q)
    BY <1>2, <1>4, <1>5, <2>1, <2>4
  <2>5. CASE j \notin 1 .. Len(q) /\ k \notin 1 .. Len(q)
    <3>1. j - Len(q) = k - Len(q)
      BY <1>4, <1>5, <2>1, <2>5
    <3> QED
      BY <1>2, <1>3, <3>1
  <2> QED
    BY <2>2, <2>3, <2>4, <2>5
<1>6. \A i \in DOMAIN c : c[i] \in Range(q) \cup Range(b)
  <2>1. \A i \in DOMAIN c : \/ i \in DOMAIN q /\ c[i] = q[i]
                            \/ i - Len(q) \in DOMAIN b /\ c[i] = b[i - Len(q)]
    BY <1>1, <1>2, <1>3
  <2> QED
    BY <2>1 DEF Range
<1>7. \A i \in DOMAIN q : i \in DOMAIN c /\ c[i] = q[i]
  BY <1>1, <1>2, <1>3
<1>8. \A i \in DOMAIN b : i + Len(q) \in DOMAIN c /\ c[i + Len(q)] = b[i]
  <2> SUFFICES ASSUME NEW i \in DOMAIN b PROVE i + Len(q) \in DOMAIN c /\ c[i + Len(q)] = b[i]
    OBVIOUS
  <2>1. i \in 1 .. Len(b) /\ i + Len(q) \in 1 .. Len(q) + Len(b) /\ ~ (i + Len(q) <= Len(q))
        /\ i + Len(q) - Len(q) = i
    BY <1>2
  <2> QED
    BY <1>1, <1>3, <2>1
<1>9. Range(c) = Range(q) \cup Range(b)
  BY <1>6, <1>7, <1>8 DEF Range
<1>10. IsInjective(c)
  BY <1>5 DEF IsInjective
<1> QED
  BY <1>1, <1>9, <1>10 DEF c

\* A queue without repetition holds no more entries than there are tasks it may hold.
LEMMA LengthBounded ==
  ASSUME NEW q \in Seq(Tasks), IsInjective(q), NEW T, T \subseteq Tasks, Range(q) \subseteq T
  PROVE  Len(q) <= Cardinality(T) /\ Cardinality(T) \in Nat
<1>1. Len(q) \in Nat /\ DOMAIN q = 1 .. Len(q) /\ q \in [1 .. Len(q) -> T]
  BY DEF Range
<1> DEFINE n == Len(q)
           D == 1 .. n
<1>2. \A x, y \in D : q[x] = q[y] => x = y
  BY <1>1 DEF IsInjective
<1>3. IsFiniteSet(D) /\ Cardinality(D) = n
  <2>1. \A m \in Nat : IsFiniteSet(1 .. m) /\ Cardinality(1 .. m) = m
    <3> TAKE m \in Nat
    <3>1. IsFiniteSet(1 .. m) /\ Cardinality(1 .. m) = IF 1 <= m THEN m - 1 + 1 ELSE 0
      BY FS_Interval
    <3>2. (IF 1 <= m THEN m - 1 + 1 ELSE 0) = m
      OBVIOUS
    <3> QED
      BY <3>1, <3>2
  <2> QED
    BY <1>1, <2>1
<1>4. q \in [D -> T]
  BY <1>1
<1> HIDE DEF D, n
<1>5. IsFiniteSet(T)
  BY TaskFacts, FS_Subset
<1>6. Cardinality(D) <= Cardinality(T)
  BY <1>2, <1>4, <1>5, TokensMoved
<1> QED
  BY <1>3, <1>5, <1>6, FS_CardinalityType DEF n

\* A painter is sound after a step that takes made-ready tasks out of its batches, and
\* loses none where the ready queues are deep.
LEMMA SoundFewer ==
  ASSUME NEW o \in Painters, NEW s, NEW e, NEW H, PainterSound(o, s, H),
         e.commit = s.commit, e.done = s.done, e.successors = s.successors, e.cnt = s.cnt,
         \A x \in H : Told(x)' = Told(x),
         \A y \in Types : /\ IsInjective(e.ready[y]) /\ Range(e.ready[y]) \subseteq Range(s.ready[y])
                          /\ \A t \in Range(e.ready[y]) : ~ LeftPainter(t)',
         \A t \in CommittedBy(o, s) : MadeReady(e, t)' => MadeReady(s, t),
         \A t \in CommittedBy(o, s) : QueuesDeep => (MadeReady(s, t) => MadeReady(e, t)'),
         \A t \in Own(o) \ CommittedBy(o, s) : LeftPainter(t)' => LeftPainter(t)
  PROVE  PainterSound(o, e, H)'
<1>1. CommittedBy(o, e)' = CommittedBy(o, s)
  BY DEF CommittedBy
<1>2. \A t : Waits(e, t)' = Waits(s, t)
  BY DEF Waits
<1>3. ASSUME NEW t
      PROVE  Answers(e, H, t)' = Answers(s, H, t)
  <2>1. Answers(e, H, t)' = { x \in H : Told(x)' \in Waits(e, t)' }
    BY DEF Answers
  <2>2. Answers(s, H, t) = { x \in H : Told(x) \in Waits(s, t) }
    BY DEF Answers
  <2> QED
    BY <1>2, <2>1, <2>2
<1>4. CountedSound(o, e, H)'
  <2> SUFFICES ASSUME NEW t \in CommittedBy(o, e)'
               PROVE  /\ Waits(e, t)' \subseteq PredsOf[t]
                      /\ PredsOf[t] \ Waits(e, t)' \subseteq e.done
                      /\ e.cnt[t] = CountAfter(Cardinality(Waits(e, t)'), Cardinality(Answers(e, H, t)'))
                      /\ MadeReady(e, t)' => Cardinality(Answers(e, H, t)') >= Cardinality(Waits(e, t)')
                      /\ QueuesDeep =>
                           (Cardinality(Answers(e, H, t)') >= Cardinality(Waits(e, t)') => MadeReady(e, t)')
    BY DEF CountedSound, CountAfter, QueuesDeep
  <2>1. t \in CommittedBy(o, s)
    BY <1>1
  <2>2. /\ Waits(s, t) \subseteq PredsOf[t] /\ PredsOf[t] \ Waits(s, t) \subseteq s.done
        /\ s.cnt[t] = CountAfter(Cardinality(Waits(s, t)), Cardinality(Answers(s, H, t)))
        /\ MadeReady(s, t) => Cardinality(Answers(s, H, t)) >= Cardinality(Waits(s, t))
        /\ QueuesDeep =>
             (Cardinality(Answers(s, H, t)) >= Cardinality(Waits(s, t)) => MadeReady(s, t))
    BY <2>1 DEF PainterSound, CountedSound
  <2>3. Waits(e, t)' = Waits(s, t) /\ Answers(e, H, t)' = Answers(s, H, t)
    BY <1>2, <1>3
  <2> QED
    BY <2>1, <2>2, <2>3
<1>5. ListsSound(o, e)'
  <2> SUFFICES /\ \A q \in Tasks : IsInjective(e.successors[q])
                                   /\ Range(e.successors[q]) \subseteq CommittedBy(o, e)'
               /\ \A y \in Types :
                    /\ IsInjective(e.ready[y])
                    /\ \A t \in Range(e.ready[y]) :
                         t \in CommittedBy(o, e)' /\ TypeOf[t] = y /\ ~ LeftPainter(t)'
               /\ \A t \in Own(o) \ CommittedBy(o, e)' : ~ LeftPainter(t)'
    BY DEF ListsSound, Own
  <2>1. /\ \A q \in Tasks : IsInjective(s.successors[q])
                            /\ Range(s.successors[q]) \subseteq CommittedBy(o, s)
        /\ \A y \in Types : \A t \in Range(s.ready[y]) :
                  t \in CommittedBy(o, s) /\ TypeOf[t] = y
        /\ \A t \in Own(o) \ CommittedBy(o, s) : ~ LeftPainter(t)
    BY DEF PainterSound, ListsSound
  <2> QED
    BY <1>1, <2>1
<1> QED
  BY <1>4, <1>5 DEF PainterSound

\* A batch sent to the ready queue leaves its painter, or is lost.
LEMMA SoundPush ==
  ASSUME TypeOK, QueuesSound, PaintersSound, NEW p \in Painters, send_2_ready_queue(p)
  PROVE  QueuesSound' /\ PaintersSound'
<1>1. PICK y \in Types :
        /\ ready_queue' = [ready_queue EXCEPT ![0][y] =
             IF HasRoom(@, paint[p].ready[y]) THEN @ \o paint[p].ready[y] ELSE @]
        /\ paint'[p].ready = [paint[p].ready EXCEPT ![y] = <<>>]
  BY SendReadyFacts
<1> DEFINE q == ready_queue[0][y]
           b == paint[p].ready[y]
           room == HasRoom(q, b)
           new == IF room THEN q \o b ELSE q
<1>2. /\ 0 \in Dispatchers /\ q \in Seq(Tasks) /\ b \in Seq(Tasks)
      /\ paint[p].ready \in [Types -> Seq(Tasks)]
      /\ \A z \in Types : ready_queue[0][z] \in Seq(Tasks) /\ paint[p].ready[z] \in Seq(Tasks)
  BY ConstantFacts, TypeFacts DEF PaintSet
<1>3. /\ ready_queue'[0][y] = new
      /\ \A z \in Types \ {y} : ready_queue'[0][z] = ready_queue[0][z]
      /\ \A e \in Dispatchers \ {0} : ready_queue'[e] = ready_queue[e]
      /\ paint'[p].ready[y] = <<>>
      /\ \A z \in Types \ {y} : paint'[p].ready[z] = paint[p].ready[z]
  BY <1>1, <1>2, TypeFacts
<1>4. /\ paint'[p].read = paint[p].read /\ paint'[p].commit = paint[p].commit
      /\ paint'[p].done = paint[p].done /\ paint'[p].successors = paint[p].successors
      /\ \A o \in Painters \ {p} : paint'[o] = paint[o]
      /\ cq' = cq /\ g_predecessor_cnt' = g_predecessor_cnt /\ launched' = launched
      /\ paint' \in [Painters -> PaintSet]
  BY SendReadyFacts
<1>5. PICK s : s = Tables(p)
  OBVIOUS
<1>6. PICK e : e = Tables(p)'
  OBVIOUS
<1>7. PICK H : H = Heard(p)
  OBVIOUS
<1>8. /\ s.cnt = g_predecessor_cnt /\ s.commit = paint[p].commit /\ s.done = paint[p].done
      /\ s.successors = paint[p].successors /\ s.ready = paint[p].ready
  BY <1>5 DEF Tables
<1>9. /\ e.cnt = s.cnt /\ e.commit = s.commit /\ e.done = s.done
      /\ e.successors = s.successors /\ e.ready = paint'[p].ready
  BY <1>4, <1>6, <1>8 DEF Tables
<1>10. /\ PainterSound(p, s, H) /\ H = Heard(p)' /\ H \subseteq Positions
       /\ paint[p].done = { Told(x) : x \in H }
  <2>1. Heard(p)' = Heard(p)
    BY <1>4 DEF Heard
  <2>2. PainterSound(p, Tables(p), Heard(p)) /\ paint[p].done = { Told(x) : x \in Heard(p) }
    BY DEF PaintersSound
  <2> QED
    BY <1>5, <1>7, <2>1, <2>2, HeardFacts
<1>11. CommittedBy(p, s) \subseteq Own(p) /\ Own(p) \subseteq Tasks
  BY <1>8, OwnFacts, TypeFacts DEF PaintSet
<1>12. /\ \A z \in Types : /\ IsInjective(s.ready[z])
                           /\ \A t \in Range(s.ready[z]) :
                                t \in CommittedBy(p, s) /\ TypeOf[t] = z /\ ~ LeftPainter(t)
       /\ \A t \in Own(p) \ CommittedBy(p, s) : ~ LeftPainter(t)
  BY <1>10 DEF PainterSound, ListsSound
<1>13. /\ \A d \in Dispatchers \ {0}, z \in Types : ready_queue[d][z] = <<>>
       /\ \A z \in Types : IsInjective(ready_queue[0][z])
                           /\ \A t \in Range(ready_queue[0][z]) : TypeOf[t] = z /\ launched[t] = 0
       /\ \A t \in Tasks : launched[t] <= 1 /\ launched[t] \in Nat
  BY TypeFacts DEF QueuesSound
<1>14. /\ b = s.ready[y] /\ IsInjective(b) /\ IsInjective(q)
       /\ \A t \in Range(b) : t \in CommittedBy(p, s) /\ TypeOf[t] = y /\ ~ LeftPainter(t)
  BY <1>8, <1>12, <1>13
<1>15. \A t \in Range(b) : t \notin Range(q) /\ launched[t] = 0
  <2> SUFFICES ASSUME NEW t \in Range(b) PROVE t \notin Range(q) /\ launched[t] = 0
    OBVIOUS
  <2>1. t \in Tasks /\ TypeOf[t] = y /\ launched[t] # 1 /\ t \notin Range(ready_queue[0][y])
    BY <1>11, <1>14 DEF LeftPainter
  <2> QED
    BY <1>13, <2>1
<1> HIDE DEF q, b
<1>16. /\ IsInjective(new) /\ Range(new) = Range(q) \cup (IF room THEN Range(b) ELSE {})
       /\ QueuesDeep => room
  <2>1. Range(q) \cap Range(b) = {}
    BY <1>15
  <2>2. /\ Len(q \o b) = Len(q) + Len(b) /\ q \o b \in Seq(Tasks)
        /\ IsInjective(q \o b) /\ Range(q \o b) = Range(q) \cup Range(b)
    BY <1>2, <1>14, <2>1, JoinFacts
  <2>3. QueuesDeep => room
    <3> DEFINE c == q \o b
           T == { t \in Tasks : TypeOf[t] = y }
    <3>1. c \in Seq(Tasks) /\ IsInjective(c)
      BY <2>2
    <3>2. Range(c) \subseteq T
      <4>1. Range(c) \subseteq Tasks
        BY <3>1 DEF Range
      <4>2. \A t \in Range(q) : TypeOf[t] = y
        BY <1>13 DEF q
      <4>3. \A t \in Range(b) : TypeOf[t] = y
        BY <1>14
      <4>4. Range(c) = Range(q) \cup Range(b)
        BY <2>2
      <4> QED
        BY <4>1, <4>2, <4>3, <4>4
    <3>3. T \subseteq Tasks /\ (QueuesDeep => Cardinality(T) <= QUEUE_DEPTH)
      BY DEF QueuesDeep
    <3> HIDE DEF c, T
    <3>4. Len(c) <= Cardinality(T) /\ Cardinality(T) \in Nat
      BY <3>1, <3>2, <3>3, LengthBounded
    <3>5. Len(c) = Len(q) + Len(b) /\ Len(q) \in Nat /\ Len(b) \in Nat
      BY <1>2, <2>2 DEF c
    <3>6. QueuesDeep => QUEUE_DEPTH - Len(q) >= Len(b)
      BY <3>4, <3>5, <3>3, ConstantFacts
    <3> QED
      BY <3>6 DEF HasRoom
  <2>4. CASE room
    BY <2>2, <2>3, <2>4
  <2>5. CASE ~ room
    BY <1>14, <2>3, <2>5
  <2> QED
    BY <2>4, <2>5
<1> HIDE DEF new, room
<1>17. q = ready_queue[0][y] /\ b = paint[p].ready[y]
  BY DEF q, b
<1>18. QueuesSound'
  <2>1. ASSUME NEW z \in Types
        PROVE  /\ IsInjective(ready_queue'[0][z])
               /\ \A t \in Range(ready_queue'[0][z]) : TypeOf[t] = z /\ launched'[t] = 0
    <3>1. CASE z = y
      <4>1. \A t \in Range(new) : TypeOf[t] = y /\ launched[t] = 0
        BY <1>13, <1>14, <1>15, <1>16, <1>17
      <4> QED
        BY <1>3, <1>4, <1>16, <3>1, <4>1
    <3>2. CASE z # y
      BY <1>3, <1>4, <1>13, <3>2
    <3> QED
      BY <3>1, <3>2
  <2>2. \A d \in Dispatchers \ {0}, z \in Types : ready_queue'[d][z] = <<>>
    BY <1>3, <1>13
  <2> QED
    BY <1>4, <1>13, <2>1, <2>2 DEF QueuesSound
<1>19. ASSUME NEW t \in Tasks
       PROVE  LeftPainter(t)' <=> LeftPainter(t) \/ (room /\ t \in Range(b))
  <2>1. TypeOf[t] \in Types /\ launched'[t] = launched[t]
    BY <1>4, TaskFacts
  <2>2. t \in Range(ready_queue'[0][TypeOf[t]])
          <=> t \in Range(ready_queue[0][TypeOf[t]]) \/ (room /\ t \in Range(b))
    <3>1. CASE TypeOf[t] = y
      BY <1>3, <1>16, <1>17, <3>1
    <3>2. CASE TypeOf[t] # y
      BY <1>3, <1>14, <2>1, <3>2
    <3> QED
      BY <3>1, <3>2
  <2> QED
    BY <2>1, <2>2 DEF LeftPainter
<1>20. ASSUME NEW o \in Painters \ {p} PROVE Sound(o)'
  <2>1. Sound(o) /\ Own(o) \subseteq Tasks /\ Own(o) \cap Own(p) = {}
    BY OwnFacts DEF PaintersSound, Sound
  <2>2. \A t \in Own(o) : LeftPainter(t)' <=> LeftPainter(t)
    BY <1>11, <1>14, <1>19, <2>1
  <2>3. \A x \in Positions : Told(x)' = Told(x)
    BY <1>4 DEF Told
  <2>4. paint'[o] = paint[o] /\ \A t \in Own(o) : g_predecessor_cnt'[t] = g_predecessor_cnt[t]
    BY <1>4
  <2> QED
    BY <2>1, <2>2, <2>3, <2>4, SoundOther
<1>21. PainterSound(p, e, H)'
  <2>1. \A x \in H : Told(x)' = Told(x)
    BY <1>4 DEF Told
  <2>2. ASSUME NEW z \in Types
        PROVE  /\ IsInjective(e.ready[z]) /\ Range(e.ready[z]) \subseteq Range(s.ready[z])
               /\ \A t \in Range(e.ready[z]) : ~ LeftPainter(t)'
    <3>1. CASE z = y
      <4>1. e.ready[z] = <<>>
        BY <1>3, <1>9, <3>1
      <4>2. Range(<<>>) = {} /\ IsInjective(<<>>)
        BY DEF Range, IsInjective
      <4> QED
        BY <4>1, <4>2
    <3>2. CASE z # y
      <4>1. e.ready[z] = s.ready[z]
        BY <1>3, <1>8, <1>9, <3>2
      <4>2. \A t \in Range(s.ready[z]) : t \in Tasks /\ TypeOf[t] = z /\ ~ LeftPainter(t)
        BY <1>11, <1>12
      <4>3. \A t \in Range(s.ready[z]) : ~ LeftPainter(t)'
        BY <1>14, <1>19, <3>2, <4>2
      <4> QED
        BY <1>12, <4>1, <4>3
    <3> QED
      BY <3>1, <3>2
  <2>3. ASSUME NEW t \in CommittedBy(p, s)
        PROVE  /\ MadeReady(e, t)' => MadeReady(s, t)
               /\ QueuesDeep => (MadeReady(s, t) => MadeReady(e, t)')
    <3>1. t \in Tasks /\ TypeOf[t] \in Types
      BY <1>11, TaskFacts
    <3>2. MadeReady(e, t)' <=> LeftPainter(t)' \/ t \in Range(e.ready[TypeOf[t]])
      BY DEF MadeReady
    <3>3. MadeReady(s, t) <=> LeftPainter(t) \/ t \in Range(s.ready[TypeOf[t]])
      BY DEF MadeReady
    <3>4. CASE TypeOf[t] = y
      <4>1. s.ready[TypeOf[t]] = b /\ Range(e.ready[TypeOf[t]]) = {}
        <5>1. e.ready[y] = <<>>
          BY <1>3, <1>9
        <5> QED
          BY <1>14, <3>4, <5>1 DEF Range
      <4> QED
        BY <1>16, <1>19, <3>1, <3>2, <3>3, <4>1
    <3>5. CASE TypeOf[t] # y
      <4>1. e.ready[TypeOf[t]] = s.ready[TypeOf[t]]
        BY <1>3, <1>8, <1>9, <3>1, <3>5
      <4>2. t \notin Range(b)
        BY <1>14, <3>5
      <4> QED
        BY <1>19, <3>1, <3>2, <3>3, <4>1, <4>2
    <3> QED
      BY <3>4, <3>5
  <2>4. \A t \in Own(p) \ CommittedBy(p, s) : LeftPainter(t)' => LeftPainter(t)
    BY <1>11, <1>14, <1>19
  <2> QED
    BY <1>9, <1>10, <2>1, <2>2, <2>3, <2>4, SoundFewer
<1>22. Sound(p)'
  <2>1. PainterSound(p, Tables(p), Heard(p))'
    BY <1>6, <1>10, <1>21, SoundNext
  <2>2. paint'[p].done = { Told(x)' : x \in Heard(p)' }
    <3>1. \A x \in H : Told(x)' = Told(x)
      BY <1>4 DEF Told
    <3> QED
      BY <1>4, <1>10, <3>1
  <2> QED
    BY <2>1, <2>2 DEF Sound
<1> QED
  BY <1>18, <1>20, <1>22 DEF PaintersSound, Sound

\* The places x of painter p's batch are new to it: it has heard of them after the round.
HearsNew(p, batch, x) ==
    LET fresh == { x[k] : k \in 1 .. Len(batch) }
    IN /\ \A k \in 1 .. Len(batch) : Told(x[k]) = batch[k] /\ x[k] \notin Heard(p)
       /\ \A j, k \in 1 .. Len(batch) : x[j] = x[k] => j = k
       /\ Heard(p)' = Heard(p) \cup fresh
       /\ fresh \subseteq Positions /\ IsFiniteSet(fresh)

\* A batch has such places, the next of its dispatcher's log.
LEMMA HeardMore ==
  ASSUME TypeOK, NEW p \in Painters, NEW d \in Dispatchers,
         paint'[p].read = [paint[p].read EXCEPT ![d] = @ + Len(Batch(p, d))]
  PROVE  \E x : HearsNew(p, Batch(p, d), x)
<1> DEFINE batch == Batch(p, d)
           r == paint[p].read[d]
           n == Len(batch)
           x == [k \in 1 .. n |-> <<d, r + k>>]
           fresh == { x[k] : k \in 1 .. n }
<1>1. /\ batch \in Seq(Tasks) /\ r \in Nat /\ n \in Nat
      /\ \A k \in 1 .. n : r + k \in DOMAIN cq[d].log /\ batch[k] = cq[d].log[r + k]
      /\ paint[p].read \in [Dispatchers -> Nat]
  <2>1. batch \in Seq(Tasks) /\ r \in Nat
    BY BatchFacts
  <2>2. \A k \in 1 .. n : r + k \in DOMAIN cq[d].log /\ batch[k] = cq[d].log[r + k]
    BY BatchFacts
  <2> QED
    BY <2>1, <2>2, TypeFacts DEF PaintSet
<1>2. paint'[p].read = [paint[p].read EXCEPT ![d] = r + n]
  OBVIOUS
<1> HIDE DEF batch, r, n
<1>3. \A k \in 1 .. n : x[k] = <<d, r + k>> /\ Told(x[k]) = batch[k] /\ x[k] \in Positions
  <2> SUFFICES ASSUME NEW k \in 1 .. n
               PROVE  x[k] = <<d, r + k>> /\ Told(x[k]) = batch[k] /\ x[k] \in Positions
    OBVIOUS
  <2>1. x[k] = <<d, r + k>>
    OBVIOUS
  <2> HIDE DEF x
  <2>2. Told(x[k]) = batch[k]
    BY <1>1, <2>1 DEF Told
  <2>3. x[k] \in {d} \X DOMAIN cq[d].log
    BY <1>1, <2>1
  <2> QED
    BY <2>1, <2>2, <2>3 DEF Positions
<1>4. \A j, k \in 1 .. n : x[j] = x[k] => j = k
  BY <1>1
<1>5. \A k \in 1 .. n : x[k] \notin Heard(p)
  <2> SUFFICES ASSUME NEW k \in 1 .. n, NEW e \in Dispatchers,
                      <<d, r + k>> \in {e} \X (1 .. paint[p].read[e])
               PROVE  FALSE
    BY <1>3 DEF Heard
  <2>1. e = d /\ r + k \in 1 .. r
    BY DEF r
  <2> QED
    BY <1>1, <2>1
<1>6. IsFiniteSet(fresh)
  <2>1. IsFiniteSet(1 .. n)
    <3>1. \A a, b \in Int : IsFiniteSet(a .. b)
      BY FS_Interval
    <3> QED
      BY <1>1, <3>1
  <2> DEFINE K == 1 .. n
  <2>2. IsFiniteSet(K)
    BY <2>1
  <2> HIDE DEF x, K
  <2>3. IsFiniteSet({ x[k] : k \in K })
    BY <2>2, ImageFacts
  <2> QED
    BY <2>3 DEF K
<1>7. Heard(p)' = Heard(p) \cup fresh
  <2>1. Heard(p)' = UNION { {e} \X (1 .. paint'[p].read[e]) : e \in Dispatchers }
    BY DEF Heard
  <2>2. paint'[p].read[d] = r + n /\ \A e \in Dispatchers \ {d} : paint'[p].read[e] = paint[p].read[e]
    BY <1>1, <1>2
  <2>3. 1 .. r + n = (1 .. r) \cup { r + k : k \in 1 .. n }
    <3>1. ASSUME NEW i \in 1 .. r + n, i \notin 1 .. r PROVE i \in { r + k : k \in 1 .. n }
      <4>1. i - r \in 1 .. n /\ i = r + (i - r)
        BY <1>1, <3>1
      <4> QED
        BY <4>1
    <3>2. \A i \in 1 .. r : i \in 1 .. r + n
      BY <1>1
    <3>3. \A k \in 1 .. n : r + k \in 1 .. r + n
      BY <1>1
    <3> QED
      BY <3>1, <3>2, <3>3
  <2>4. ASSUME NEW z \in Heard(p)' PROVE z \in Heard(p) \cup fresh
    <3>1. PICK e \in Dispatchers : z \in {e} \X (1 .. paint'[p].read[e])
      BY <2>1
    <3>2. CASE e # d
      BY <2>2, <3>1, <3>2 DEF Heard
    <3>3. CASE e = d
      <4>1. PICK i \in 1 .. r + n : z = <<d, i>>
        BY <2>2, <3>1, <3>3
      <4>2. CASE i \in 1 .. r
        BY <4>1, <4>2 DEF Heard, r
      <4>3. CASE i \notin 1 .. r
        <5>1. PICK k \in 1 .. n : i = r + k
          BY <2>3, <4>3
        <5> QED
          BY <1>3, <4>1, <5>1
      <4> QED
        BY <4>2, <4>3
    <3> QED
      BY <3>2, <3>3
  <2>5. ASSUME NEW z \in fresh PROVE z \in Heard(p)'
    <3>1. PICK k \in 1 .. n : z = <<d, r + k>>
      BY <1>3
    <3>2. r + k \in 1 .. paint'[p].read[d]
      BY <2>2, <2>3
    <3> QED
      BY <2>1, <3>1, <3>2
  <2>6. ASSUME NEW z \in Heard(p) PROVE z \in Heard(p)'
    <3>1. PICK e \in Dispatchers : z \in {e} \X (1 .. paint[p].read[e])
      BY DEF Heard
    <3>2. 1 .. paint[p].read[e] \subseteq 1 .. paint'[p].read[e]
      BY <2>2, <2>3 DEF r
    <3> QED
      BY <2>1, <3>1, <3>2
  <2> QED
    BY <2>4, <2>5, <2>6
<1>8. fresh \subseteq Positions
  BY <1>3
<1> HIDE DEF x
<1>9. HearsNew(p, batch, x)
  BY <1>3, <1>4, <1>5, <1>6, <1>7, <1>8 DEF n, HearsNew
<1> QED
  BY <1>9 DEF batch

\* A round counts the completions of its batch for the edges that were there before it,
\* and the new edges only for predecessors not yet done.
LEMMA SoundDeal ==
  ASSUME CountersWide, TypeOK, OneTokenEach, QueuesSound, PaintersSound,
         NEW p \in Painters, deal_completed_queue(p)
  PROVE  QueuesSound' /\ PaintersSound'
<1> DEFINE d == paint[p].turn
           batch == Batch(p, d)
           s == Tables(p)
           u == update_task_state(s, batch)
           a == add_successors(p, u)
           e == resolve_dep(a, batch)
           H == Heard(p)
<1>1. /\ d \in Dispatchers /\ batch \in Seq(Tasks)
      /\ e \in TableSet /\ e.commit <= Len(test_graph[p])
      /\ paint' \in [Painters -> PaintSet]
      /\ paint'[p].read = [paint[p].read EXCEPT ![d] = @ + Len(batch)]
      /\ Tables(p)' = e /\ g_predecessor_cnt' = e.cnt
      /\ \A o \in Painters \ {p} : paint'[o] = paint[o]
      /\ UNCHANGED <<ready_queue, cq, launched>>
  BY DealFacts DEF Round
<1>0. PICK x : HearsNew(p, batch, x)
  BY <1>1, HeardMore
<1> DEFINE fresh == { x[k] : k \in 1 .. Len(batch) }
           J == H \cup fresh
<1>2. /\ \A k \in 1 .. Len(batch) : Told(x[k]) = batch[k] /\ x[k] \notin H
      /\ \A j, k \in 1 .. Len(batch) : x[j] = x[k] => j = k
      /\ Heard(p)' = J /\ fresh \subseteq Positions /\ IsFiniteSet(fresh)
  BY <1>0 DEF HearsNew
<1>3. /\ s \in TableSet /\ s.commit <= Len(test_graph[p])
      /\ u \in TableSet /\ u.commit = s.commit /\ u.done = s.done \cup Range(batch)
      /\ u.cnt = s.cnt /\ u.successors = s.successors /\ u.ready = s.ready
      /\ s.cnt = g_predecessor_cnt /\ s.done = paint[p].done
  BY <1>1, TablesFacts DEF Tables
<1>4. /\ PainterSound(p, s, H) /\ paint[p].done = { Told(z) : z \in H }
      /\ H \subseteq Positions /\ IsFiniteSet(H)
  BY HeardFacts DEF PaintersSound
<1>5. \A t \in Tasks : launched[t] <= 1
  BY DEF QueuesSound
<1> HIDE DEF s, H, batch, d
<1>6. PainterSound(p, u, H) /\ \A z \in H : Told(z) \in u.done
  <2> HIDE DEF u
  <2> QED
    BY <1>3, <1>4, SoundDone
<1> HIDE DEF u
<1>7. /\ a \in TableSet /\ a.commit <= Len(test_graph[p]) /\ a.done = u.done
      /\ PainterSound(p, a, H)
      /\ \A t \in Tasks \ Own(p) : a.cnt[t] = u.cnt[t]
  BY <1>3, <1>4, <1>6, AddSuccessorsSound
<1> HIDE DEF a
<1>8. Bounded(p, a, J)
  <2>1. CommittedBy(p, a) \subseteq Tasks
    <3>1. a.commit \in Nat
      BY <1>7 DEF TableSet
    <3> QED
      BY <1>7, <3>1, OwnFacts
  <2>2. \A t \in CommittedBy(p, a) : Waits(a, t) \subseteq PredsOf[t]
    BY <1>7 DEF PainterSound, CountedSound
  <2>3. J \in SUBSET Positions /\ IsFiniteSet(J)
    BY <1>2, <1>4, FS_Union
  <2> HIDE DEF J
  <2> QED
    BY <1>5, <2>1, <2>2, <2>3, BoundedHolds
<1>9. /\ e.commit = a.commit /\ e.done = a.done /\ PainterSound(p, e, J)
      /\ \A t \in Tasks \ Own(p) : e.cnt[t] = a.cnt[t]
  <2>1. J = H \cup { x[k] : k \in 1 .. Len(batch) }
    OBVIOUS
  <2>2. batch \in Seq(Tasks)
    BY <1>1
  <2> HIDE DEF J
  <2>3. LET f == resolve_dep(a, batch)
        IN /\ f.commit = a.commit /\ f.done = a.done /\ PainterSound(p, f, J)
           /\ \A t \in Tasks \ Own(p) : f.cnt[t] = a.cnt[t]
    BY <1>2, <1>4, <1>7, <1>8, <2>1, <2>2, ResolveSound, SMTT(30)
  <2> QED
    BY <2>3
<1> HIDE DEF e
<1>10. \A z : Told(z)' = Told(z)
  BY <1>1 DEF Told
<1>11. \A t : LeftPainter(t)' <=> LeftPainter(t)
  BY <1>1 DEF LeftPainter
<1>12. QueuesSound'
  BY <1>1 DEF QueuesSound
<1>13. PainterSound(p, Tables(p), Heard(p))'
  <2>1. PICK f : f = e
    OBVIOUS
  <2>2. PICK K : K = J
    OBVIOUS
  <2>3. PainterSound(p, f, K) /\ CommittedBy(p, f) \subseteq Own(p)
    <3>1. f.commit \in Nat /\ f.commit <= Len(test_graph[p])
      BY <1>1, <2>1 DEF TableSet
    <3> QED
      BY <1>9, <2>1, <2>2, <3>1, OwnFacts
  <2>4. PainterSound(p, f, K)'
    BY <1>10, <1>11, <2>3, SoundFrame
  <2>5. f = Tables(p)' /\ K = Heard(p)'
    BY <1>1, <1>2, <2>1, <2>2
  <2> QED
    BY <2>4, <2>5, SoundNext
<1>14. paint'[p].done = { Told(z)' : z \in Heard(p)' }
  <2>1. paint'[p].done = e.done
    BY <1>1 DEF Tables
  <2>2. e.done = { Told(z) : z \in H } \cup Range(batch)
    BY <1>3, <1>4, <1>7, <1>9
  <2>3. Range(batch) = { Told(z) : z \in fresh }
    <3>1. DOMAIN batch = 1 .. Len(batch)
      BY <1>1
    <3> QED
      BY <1>2, <3>1 DEF Range
  <2>4. e.done = { Told(z) : z \in J }
    BY <2>2, <2>3
  <2> QED
    BY <1>2, <1>10, <2>1, <2>4
<1>15. ASSUME NEW o \in Painters \ {p} PROVE Sound(o)'
  <2>1. Sound(o) /\ Own(o) \subseteq Tasks /\ Own(o) \cap Own(p) = {}
    BY OwnFacts DEF PaintersSound, Sound
  <2>2. \A t \in Own(o) : g_predecessor_cnt'[t] = g_predecessor_cnt[t]
    BY <1>1, <1>3, <1>7, <1>9, <2>1
  <2>3. paint'[o] = paint[o]
    BY <1>1
  <2> QED
    BY <1>10, <1>11, <2>1, <2>2, <2>3, SoundOther
<1> QED
  BY <1>12, <1>13, <1>14, <1>15 DEF PaintersSound, Sound

\* At the start no task is committed and no completion has been read.
LEMMA SoundInit ==
  ASSUME Init
  PROVE  QueuesSound /\ PaintersSound
<1>1. /\ ready_queue = [d \in Dispatchers |-> [y \in Types |-> <<>>]]
      /\ launched = [t \in Tasks |-> 0]
      /\ \A p \in Painters : /\ paint[p].read = [d \in Dispatchers |-> 0]
                             /\ paint[p].commit = 0 /\ paint[p].done = {}
                             /\ paint[p].successors = [t \in Tasks |-> <<>>]
                             /\ paint[p].ready = [y \in Types |-> <<>>]
  BY DEF Init
<1>2. Range(<<>>) = {} /\ IsInjective(<<>>)
  BY DEF Range, IsInjective
<1>3. QueuesSound
  BY <1>1, <1>2, ConstantFacts DEF QueuesSound
<1>4. ASSUME NEW t \in Tasks PROVE ~ LeftPainter(t)
  BY <1>1, <1>2, ConstantFacts, TaskFacts DEF LeftPainter
<1>5. ASSUME NEW p \in Painters PROVE Sound(p)
  <2>1. Heard(p) = {}
    BY <1>1 DEF Heard
  <2>2. CommittedBy(p, Tables(p)) = {}
    BY <1>1 DEF CommittedBy, Tables
  <2>3. CountedSound(p, Tables(p), Heard(p))
    BY <2>2 DEF CountedSound
  <2>4. ListsSound(p, Tables(p))
    <3>1. Own(p) \subseteq Tasks
      BY OwnFacts
    <3>2. /\ \A q \in Tasks : Tables(p).successors[q] = <<>>
          /\ \A y \in Types : Tables(p).ready[y] = <<>>
      BY <1>1 DEF Tables
    <3> QED
      BY <1>2, <1>4, <3>1, <3>2 DEF ListsSound
  <2>5. paint[p].done = { Told(x) : x \in Heard(p) }
    BY <1>1, <2>1
  <2> QED
    BY <2>3, <2>4, <2>5 DEF Sound, PainterSound
<1> QED
  BY <1>3, <1>5 DEF PaintersSound, Sound

\* Every step keeps the queues and the painters sound.
LEMMA SoundKept ==
  ASSUME CountersWide, TypeOK, OneTokenEach, QueuesSound, PaintersSound, [Next]_vars
  PROVE  QueuesSound' /\ PaintersSound'
<1>1. CASE \E p \in Painters : Painter(p)
  BY <1>1, SoundDeal, SoundPush, SoundSteps DEF Painter
<1>2. CASE \E d \in Dispatchers : Dispatcher(d) \/ core_finishes(d)
  BY <1>2, SoundRead, SoundSend, SoundSteps DEF Dispatcher
<1>3. CASE UNCHANGED vars
  BY <1>3, SoundSteps
<1> QED
  BY <1>1, <1>2, <1>3 DEF Next, Returned

\* The inductive invariant of the scheduler proxy holds of every graph, every number of
\* painters, dispatchers and cores, and every batch and queue size: cores are handed over
\* and, where the counters are wide enough, each painter's counters, lists and batches
\* say of each of its tasks how many of its predecessors are still missing.
THEOREM SchedInductiveHolds == Spec => []SchedInductive
<1>1. Init => SchedInductive
  BY TypeInit, CoresInit, TokensInit, SoundInit DEF SchedInductive
<1>2. SchedInductive /\ [Next]_vars => SchedInductive'
  <2> SUFFICES ASSUME SchedInductive, [Next]_vars PROVE SchedInductive'
    OBVIOUS
  <2>1. TypeOK' /\ CoresKept'
    BY TypeNext, CoresNext DEF SchedInductive
  <2>2. ASSUME CountersWide PROVE OneTokenEach' /\ QueuesSound' /\ PaintersSound'
    <3>1. TypeOK /\ CoresKept /\ OneTokenEach /\ QueuesSound /\ PaintersSound
      BY <2>2 DEF SchedInductive
    <3>2. OneTokenEach'
      BY <3>1, TokensNext
    <3>3. QueuesSound' /\ PaintersSound'
      BY <2>2, <3>1, SoundKept
    <3> QED
      BY <3>2, <3>3
  <2>3. CountersWide' <=> CountersWide
    BY DEF CountersWide
  <2> QED
    BY <2>1, <2>2, <2>3 DEF SchedInductive
<1> QED
  BY <1>1, <1>2, PTL DEF Spec

----------------------------------------------------------------------------
(* What follows of it for the tasks.                                        *)

\* Where a list of lists holds t: once in one of them, or nowhere.
LEMMA AtFacts ==
  ASSUME NEW L, NEW t
  PROVE  /\ (\A i \in DOMAIN L : t \notin Range(L[i])) => Cardinality(At(L, t)) = 0
         /\ \A i \in DOMAIN L :
              t \in Range(L[i]) /\ IsInjective(L[i])
                /\ (\A j \in DOMAIN L \ {i} : t \notin Range(L[j])) => Cardinality(At(L, t)) = 1
<1>1. ASSUME NEW i \in DOMAIN L, t \notin Range(L[i])
      PROVE  {i} \X { k \in DOMAIN L[i] : L[i][k] = t } = {}
  BY <1>1 DEF Range
<1>2. ASSUME \A i \in DOMAIN L : t \notin Range(L[i]) PROVE Cardinality(At(L, t)) = 0
  <2>1. At(L, t) = {}
    BY <1>1, <1>2 DEF At
  <2> QED
    BY <2>1, FS_EmptySet
<1>3. ASSUME NEW i \in DOMAIN L, t \in Range(L[i]), IsInjective(L[i]),
             \A j \in DOMAIN L \ {i} : t \notin Range(L[j])
      PROVE  Cardinality(At(L, t)) = 1
  <2>1. PICK k \in DOMAIN L[i] : L[i][k] = t
    BY <1>3 DEF Range
  <2>2. { j \in DOMAIN L[i] : L[i][j] = t } = {k}
    BY <1>3, <2>1 DEF IsInjective
  <2>3. At(L, t) = {<<i, k>>}
    <3>1. {i} \X {k} = {<<i, k>>}
      OBVIOUS
    <3> QED
      BY <1>1, <1>3, <2>2, <3>1 DEF At
  <2> QED
    BY <2>3, FS_Singleton
<1> QED
  BY <1>2, <1>3

\* A task is in one place if its painter made it ready, and nowhere before.
LEMMA PlacesAre ==
  ASSUME TypeOK, QueuesSound, PaintersSound, NEW p \in Painters, NEW t \in Own(p)
  PROVE  Places(t) = IF MadeReady(Tables(p), t) THEN 1 ELSE 0
<1> DEFINE y == TypeOf[t]
           R == [o \in Painters |-> paint[o].ready[y]]
           Q == [d \in Dispatchers |-> ready_queue[d][y]]
           r == Cardinality(At(R, t))
           q == Cardinality(At(Q, t))
<1>1. t \in Tasks /\ y \in Types /\ launched[t] \in {0, 1} /\ 0 \in Dispatchers
  <2>1. t \in Tasks /\ y \in Types
    BY OwnFacts, TaskFacts
  <2>2. launched[t] \in Nat /\ launched[t] <= 1
    BY <2>1, TypeFacts DEF QueuesSound
  <2> QED
    BY <2>1, <2>2, ConstantFacts
<1>2. Places(t) = launched[t] + r + q
  BY DEF Places
<1>3. \A o \in Painters : /\ IsInjective(paint[o].ready[y])
                          /\ \A u \in Range(paint[o].ready[y]) : u \in Own(o) /\ ~ LeftPainter(u)
  <2> SUFFICES ASSUME NEW o \in Painters
               PROVE  /\ IsInjective(paint[o].ready[y])
                      /\ \A u \in Range(paint[o].ready[y]) : u \in Own(o) /\ ~ LeftPainter(u)
    OBVIOUS
  <2>1. ListsSound(o, Tables(o)) /\ Tables(o).ready = paint[o].ready
    BY DEF PaintersSound, PainterSound, Tables
  <2>2. CommittedBy(o, Tables(o)) \subseteq Own(o)
    <3>1. Tables(o).commit \in Nat /\ Tables(o).commit <= Len(test_graph[o])
      BY TypeFacts DEF Tables, PaintSet
    <3> QED
      BY <3>1, OwnFacts
  <2> QED
    BY <1>1, <2>1, <2>2 DEF ListsSound
<1>4. \A o \in Painters \ {p} : t \notin Range(paint[o].ready[y])
  BY <1>3, OwnFacts
<1>5. r = IF t \in Range(paint[p].ready[y]) THEN 1 ELSE 0
  <2>1. DOMAIN R = Painters /\ \A o \in Painters : R[o] = paint[o].ready[y]
    OBVIOUS
  <2> HIDE DEF R
  <2> QED
    BY <1>3, <1>4, <2>1, AtFacts
<1>6. q = IF t \in Range(ready_queue[0][y]) THEN 1 ELSE 0
  <2>1. DOMAIN Q = Dispatchers /\ \A d \in Dispatchers : Q[d] = ready_queue[d][y]
    OBVIOUS
  <2>2. IsInjective(ready_queue[0][y])
    BY <1>1 DEF QueuesSound
  <2>3. \A d \in Dispatchers \ {0} : t \notin Range(ready_queue[d][y])
    BY <1>1 DEF QueuesSound, Range
  <2> HIDE DEF Q
  <2> QED
    BY <1>1, <2>1, <2>2, <2>3, AtFacts
<1>7. t \in Range(ready_queue[0][y]) => launched[t] = 0
  BY <1>1 DEF QueuesSound
<1>8. t \in Range(paint[p].ready[y]) => launched[t] = 0 /\ t \notin Range(ready_queue[0][y])
  BY <1>1, <1>3 DEF LeftPainter
<1>9. MadeReady(Tables(p), t) <=> \/ launched[t] = 1 \/ t \in Range(ready_queue[0][y])
                                  \/ t \in Range(paint[p].ready[y])
  BY DEF MadeReady, LeftPainter, Tables
<1> HIDE DEF r, q, y
<1> QED
  BY <1>1, <1>2, <1>5, <1>6, <1>7, <1>8, <1>9

\* The invariant puts every task in one place at most.
LEMMA ReleasedOnceHolds ==
  ASSUME CountersWide, SchedInductive
  PROVE  ReleasedOnce
<1> SUFFICES ASSUME NEW t \in Tasks PROVE Places(t) <= 1
  BY DEF ReleasedOnce
<1>1. PICK p \in Painters : t \in Own(p)
  BY TaskFacts
<1>2. Places(t) = IF MadeReady(Tables(p), t) THEN 1 ELSE 0
  BY <1>1, PlacesAre DEF SchedInductive
<1> QED
  BY <1>2

\* No task is released or run twice: where a task is once released is one place at most,
\* for every graph whose tasks have fewer predecessors, and every handshake with fewer
\* replies, than the counter has values.
THEOREM SchedReleasesOnce ==
  ASSUME CountersWide
  PROVE  Spec => []ReleasedOnce
<1>1. SchedInductive => ReleasedOnce
  BY ReleasedOnceHolds
<1> QED
  BY <1>1, SchedInductiveHolds, PTL

\* A committed task whose predecessors are all done has been made ready.
LEMMA NoneForgottenHolds ==
  ASSUME CountersWide, QueuesDeep, SchedInductive
  PROVE  NoneForgotten
<1> SUFFICES ASSUME NEW p \in Painters, NEW k \in 1 .. paint[p].commit,
                    Range(test_graph[p][k].predecessors) \subseteq paint[p].done
             PROVE  Places(test_graph[p][k].id) = 1
  BY DEF NoneForgotten
<1> DEFINE t == test_graph[p][k].id
           s == Tables(p)
           H == Heard(p)
           W == Waits(s, t)
           A == Answers(s, H, t)
<1>1. TypeOK /\ QueuesSound /\ PaintersSound
  BY DEF SchedInductive
<1>2. k \in 1 .. Len(test_graph[p])
  <2>1. paint[p].commit \in Nat /\ paint[p].commit <= Len(test_graph[p])
    BY <1>1, TypeFacts DEF PaintSet
  <2>2. Len(test_graph[p]) \in Nat
    BY GraphAssumption
  <2> QED
    BY <2>1, <2>2
<1>3. PredsOf[t] \subseteq paint[p].done
  BY <1>2, RecordFacts
<1>4. t \in CommittedBy(p, s) /\ t \in Own(p)
  <2>1. s.commit = paint[p].commit
    BY DEF Tables
  <2>2. DOMAIN test_graph[p] = 1 .. Len(test_graph[p])
    BY GraphAssumption
  <2> QED
    BY <1>2, <2>1, <2>2 DEF CommittedBy, Own
<1>5. /\ W \subseteq PredsOf[t]
      /\ Cardinality(A) >= Cardinality(W) => MadeReady(s, t)
      /\ paint[p].done = { Told(x) : x \in H }
  BY <1>1, <1>4 DEF PaintersSound, PainterSound, CountedSound
<1>6. \A q \in W : \E x \in A : Told(x) = q
  <2> SUFFICES ASSUME NEW q \in W PROVE \E x \in A : Told(x) = q
    OBVIOUS
  <2>1. q \in { Told(x) : x \in H }
    BY <1>3, <1>5
  <2>2. PICK x \in H : Told(x) = q
    BY <2>1
  <2>3. x \in A
    BY <2>2 DEF Answers
  <2> QED
    BY <2>2, <2>3
<1>7. IsFiniteSet(H) /\ IsFiniteSet(W) /\ IsFiniteSet(A)
      /\ Cardinality(W) \in Nat /\ Cardinality(A) \in Nat
  BY <1>1, HeardFacts, CountsAreNumbers
<1>8. Cardinality(W) <= Cardinality(A)
  <2> DEFINE f == [q \in W |-> CHOOSE x \in A : Told(x) = q]
  <2>1. \A q \in W : f[q] \in A /\ Told(f[q]) = q
    BY <1>6
  <2>2. f \in [W -> A]
    BY <2>1
  <2> HIDE DEF f, W, A
  <2>3. \A x, y \in W : f[x] = f[y] => x = y
    BY <2>1
  <2> QED
    BY <1>7, <2>2, <2>3, TokensMoved
<1>9. MadeReady(s, t)
  <2> DEFINE w == Cardinality(W)
             a == Cardinality(A)
  <2>1. w \in Nat /\ a \in Nat /\ w <= a /\ (a >= w => MadeReady(s, t))
    BY <1>5, <1>7, <1>8
  <2> HIDE DEF w, a
  <2> QED
    BY <2>1
<1> QED
  BY <1>1, <1>4, <1>9, PlacesAre

\* A committed task is released once its painter has learned of all its predecessors,
\* for the same graphs and where a ready queue has room for all tasks: no batch is lost,
\* no completion missed between reading the done flags and counting down.
THEOREM SchedForgetsNone ==
  ASSUME CountersWide, QueuesDeep
  PROVE  Spec => []NoneForgotten
<1>1. SchedInductive => NoneForgotten
  BY NoneForgottenHolds
<1> QED
  BY <1>1, SchedInductiveHolds, PTL

\* A task but 0 has one token at most: told once, and only when it ran.
LEMMA ReportedOnceHolds ==
  ASSUME CountersWide, SchedInductive
  PROVE  ReportedOnce
<1> DEFINE L == [d \in Dispatchers |-> cq[d].log]
<1> SUFFICES ASSUME NEW t \in Tasks \ {0}
             PROVE  Cardinality(At(L, t)) <= (IF t \in ran THEN 1 ELSE 0)
  BY DEF ReportedOnce
<1>1. /\ IsFiniteSet(Tokens(t)) /\ Cardinality(Tokens(t)) <= launched[t]
      /\ launched[t] \in Nat /\ launched[t] <= 1
  <2>1. /\ IsFiniteSet(Tokens(t)) /\ Cardinality(Tokens(t)) <= launched[t] + 0
        /\ launched[t] \in Nat /\ launched[t] <= 1
    BY TypeFacts DEF SchedInductive, OneTokenEach, QueuesSound
  <2> QED
    BY <2>1
<1>2. \A d \in Dispatchers : Range(cq[d].log) \subseteq ran \cup {0}
  BY DEF SchedInductive, CoresKept
<1>3. CASE t \notin ran
  <2>1. DOMAIN L = Dispatchers /\ \A d \in Dispatchers : t \notin Range(L[d])
    BY <1>2, <1>3
  <2> HIDE DEF L
  <2>2. Cardinality(At(L, t)) = 0
    BY <2>1, AtFacts
  <2> QED
    BY <1>3, <2>2
<1>4. CASE t \in ran
  <2> DEFINE P == At(L, t)
             f == [x \in P |-> <<"told", x[1], x[2]>>]
             T == Tokens(t)
  <2>1. \A x \in P : x = <<x[1], x[2]>>
    BY DEF At
  <2>2. f \in [P -> T]
    <3>1. \A x \in P : <<"told", x[1], x[2]>> \in T
      BY DEF Tokens
    <3> QED
      BY <3>1
  <2>3. \A x, y \in P : f[x] = f[y] => x = y
    <3> SUFFICES ASSUME NEW x \in P, NEW y \in P, f[x] = f[y] PROVE x = y
      OBVIOUS
    <3>1. x = <<x[1], x[2]>> /\ y = <<y[1], y[2]>>
      BY <2>1
    <3>2. x[1] = y[1] /\ x[2] = y[2]
      OBVIOUS
    <3> QED
      BY <3>1, <3>2
  <2>4. IsFiniteSet(T) /\ Cardinality(T) <= launched[t]
    BY <1>1
  <2> HIDE DEF P, f, T
  <2>5. IsFiniteSet(P) /\ Cardinality(P) <= Cardinality(T)
    BY <2>2, <2>3, <2>4, TokensMoved
  <2>6. Cardinality(P) \in Nat /\ Cardinality(T) \in Nat
    BY <2>4, <2>5, FS_CardinalityType
  <2>7. Cardinality(P) <= 1
    BY <1>1, <2>4, <2>5, <2>6
  <2> QED
    BY <1>4, <2>7 DEF P
<1> QED
  BY <1>3, <1>4

\* Every task but 0 is reported at most once, and only after it ran, however the message
\* bits, the remote positions and the rounds of the painters interleave.
THEOREM SchedReportsOnce ==
  ASSUME CountersWide
  PROVE  Spec => []ReportedOnce
<1>1. SchedInductive => ReportedOnce
  BY ReportedOnceHolds
<1> QED
  BY <1>1, SchedInductiveHolds, PTL

\* A task made ready by a painter that added no edges to task 0 has had its answers: one
\* from each predecessor it waited for, so that all of them ran.
LEMMA ReadyIsReadyHolds ==
  ASSUME CountersWide, SchedInductive
  PROVE  ReadyIsReady
<1> SUFFICES ASSUME NEW p \in Painters, paint[p].successors[0] = <<>>,
                    NEW k \in DOMAIN test_graph[p], Places(test_graph[p][k].id) > 0
             PROVE  PredsOf[test_graph[p][k].id] \ {0} \subseteq ran
  BY DEF ReadyIsReady
<1> DEFINE t == test_graph[p][k].id
           s == Tables(p)
           H == Heard(p)
           W == Waits(s, t)
           A == Answers(s, H, t)
<1>1. TypeOK /\ CoresKept /\ OneTokenEach /\ QueuesSound /\ PaintersSound
  BY DEF SchedInductive
<1>2. t \in Own(p) /\ TypeOf[t] \in Types
  <2>1. t \in Own(p)
    BY DEF Own
  <2> QED
    BY <2>1, OwnFacts, TaskFacts
<1>3. MadeReady(s, t)
  BY <1>1, <1>2, PlacesAre
<1>4. t \in CommittedBy(p, s)
  BY <1>1, <1>2, <1>3 DEF PaintersSound, PainterSound, ListsSound, MadeReady
<1>5. /\ Cardinality(A) >= Cardinality(W) /\ PredsOf[t] \ W \subseteq paint[p].done
      /\ paint[p].done = { Told(x) : x \in H }
  <2>1. s.done = paint[p].done
    BY DEF Tables
  <2> QED
    BY <1>1, <1>3, <1>4, <2>1 DEF PaintersSound, PainterSound, CountedSound
<1>6. /\ H \subseteq Positions /\ IsFiniteSet(W) /\ IsFiniteSet(A)
      /\ Cardinality(W) \in Nat /\ Cardinality(A) \in Nat
  BY <1>1, HeardFacts, CountsAreNumbers
<1>7. \A x \in H : Told(x) \in ran \cup {0}
  <2> SUFFICES ASSUME NEW x \in H PROVE Told(x) \in ran \cup {0}
    OBVIOUS
  <2>1. x[1] \in Dispatchers /\ x[2] \in DOMAIN cq[x[1]].log
    BY <1>1, <1>6, PositionFacts
  <2>2. Told(x) \in Range(cq[x[1]].log)
    BY <2>1 DEF Told, Range
  <2> QED
    BY <1>1, <2>1, <2>2 DEF CoresKept
<1>8. 0 \notin W
  BY DEF Waits, Tables, Range
<1>9. A \subseteq H /\ \A x \in A : Told(x) \in W
  BY DEF Answers
<1>10. \A x, y \in A : Told(x) = Told(y) => x = y
  BY <1>1, <1>6, <1>8, <1>9, OnePosition DEF QueuesSound
<1>11. W \subseteq { Told(x) : x \in A }
  <2> DEFINE f == [x \in A |-> Told(x)]
             I == { f[x] : x \in A }
  <2>1. f \in [A -> I] /\ \A x, y \in A : f[x] = f[y] => x = y
    BY <1>10
  <2>2. I \subseteq W /\ I = { Told(x) : x \in A }
    BY <1>9
  <2> HIDE DEF f, I, A, W
  <2>3. IsFiniteSet(I) /\ Cardinality(I) <= Cardinality(W)
        /\ (Cardinality(I) = Cardinality(W) => I = W)
    BY <1>6, <2>2, FS_Subset
  <2>4. Cardinality(A) <= Cardinality(I) /\ Cardinality(I) \in Nat
    BY <2>1, <2>3, TokensMoved, FS_CardinalityType
  <2>5. I = W
    BY <1>5, <1>6, <2>3, <2>4
  <2> QED
    BY <2>2, <2>5
<1>12. ASSUME NEW q \in PredsOf[t], q # 0 PROVE q \in ran
  <2>1. CASE q \in W
    BY <1>7, <1>9, <1>11, <1>12, <2>1
  <2>2. CASE q \notin W
    BY <1>5, <1>7, <1>12, <2>2
  <2> QED
    BY <2>1, <2>2
<1> QED
  BY <1>12

\* A painter that added no edge to task 0 releases no task before all its predecessors
\* but 0 have run, whatever order the completions of two dispatchers reach it in.
THEOREM SchedReadyIsReady ==
  ASSUME CountersWide
  PROVE  Spec => []ReadyIsReady
<1>1. SchedInductive => ReadyIsReady
  BY ReadyIsReadyHolds
<1> QED
  BY <1>1, SchedInductiveHolds, PTL
=============================================================================
