---- MODULE SharedLemmas ----
(***************************************************************************)
(* Lemmas that the proofs about several modules cite: about the queue of   *)
(* an asyncio.Lock, and induction and recursion on the naturals in a form  *)
(* that speaks of sets and functions instead of operators.                 *)
(***************************************************************************)
EXTENDS AsyncLock, Integers, FiniteSetTheorems, TLAPS

----
(* The queue of a lock *)

\* A task that leaves a queue of tasks leaves a queue of tasks.
LEMMA LeaveType ==
    ASSUME NEW S, NEW q \in Seq(S), NEW c, NEW r \in Leave(q, c)
    PROVE  r \in Seq(S)
<1>1. PICK i \in DOMAIN q : r = RemoveAt(q, i)
  BY DEF Leave
<1>2. i \in 1 .. Len(q)
  BY <1>1
<1>3. SubSeq(q, 1, i - 1) \in Seq(S) /\ SubSeq(q, i + 1, Len(q)) \in Seq(S)
  BY <1>2
<1>4. QED
  BY <1>1, <1>3 DEF RemoveAt

\* The owner of a lock keeps it when another task leaves the queue.
LEMMA LeaveKeepsOwner ==
    ASSUME NEW S, NEW q \in Seq(S), NEW c, NEW d, c # d, Holds(q, d),
           NEW r \in Leave(q, c)
    PROVE  Holds(r, d)
<1>1. PICK i \in DOMAIN q : q[i] = c /\ r = RemoveAt(q, i)
  BY DEF Leave
<1>2. i \in 2 .. Len(q) /\ q[1] = d
  BY <1>1 DEF Holds
<1>3. /\ SubSeq(q, 1, i - 1) \in Seq(S)
      /\ Len(SubSeq(q, 1, i - 1)) = i - 1
      /\ SubSeq(q, 1, i - 1)[1] = d
      /\ SubSeq(q, i + 1, Len(q)) \in Seq(S)
  BY <1>2
<1>4. r # << >> /\ r[1] = d
  BY <1>1, <1>2, <1>3 DEF RemoveAt
<1>5. QED
  BY <1>4, LeaveType DEF Holds

\* The owner of a lock keeps it when a task joins the queue.
LEMMA EnqueueKeepsOwner ==
    ASSUME NEW S, NEW q \in Seq(S), NEW c \in S, NEW d, Holds(q, d)
    PROVE  Holds(Enqueue(q, c), d)
BY DEF Holds, Enqueue

\* One task owns the lock.
LEMMA OneOwner ==
    ASSUME NEW q, NEW c, NEW d, Holds(q, c), Holds(q, d)
    PROVE  c = d
BY DEF Holds

----
(* Induction and recursion *)

\* The least-number principle: initial segments of the naturals, ordered by
\* inclusion, are well-founded.
LEMMA LeastNumber ==
    ASSUME NEW T \in SUBSET Nat, T # {}
    PROVE  \E m \in T : \A k \in T : m <= k
<1> DEFINE Segments == {1 .. n : n \in T}
<1>1. Segments \subseteq FiniteSubsetsOf(Nat)
  BY FS_Interval DEF FiniteSubsetsOf
<1>2. Segments # {}
  OBVIOUS
<1>3. PICK s \in Segments : \A r \in Segments : <<r, s>> \notin StrictSubsetOrdering(Nat)
  <2> HIDE DEF Segments
  <2>1. QED
    BY <1>1, <1>2, WFMin, FS_StrictSubsetOrderingWellFounded
<1>4. PICK m \in T : s = 1 .. m
  OBVIOUS
<1>5. ASSUME NEW k \in T, k < m
      PROVE  FALSE
  <2>1. m \in 1 .. m /\ m \notin 1 .. k
    BY <1>5
  <2>2. 1 .. k \subseteq Nat /\ 1 .. m \subseteq Nat /\ 1 .. k \subseteq 1 .. m
    BY <1>5
  <2>3. <<1 .. k, 1 .. m>> \in StrictSubsetOrdering(Nat)
    BY <2>1, <2>2 DEF StrictSubsetOrdering
  <2>4. QED
    BY <1>3, <1>4, <2>3
<1>6. QED
  BY <1>5

LEMMA SetInduction ==
    ASSUME NEW T, 0 \in T, \A n \in Nat : n \in T => n + 1 \in T
    PROVE  Nat \subseteq T
<1> SUFFICES ASSUME Nat \ T # {}
             PROVE  FALSE
  OBVIOUS
<1>1. PICK m \in Nat \ T : \A k \in Nat \ T : m <= k
  BY LeastNumber
<1>2. m # 0 /\ m - 1 \in Nat /\ m - 1 \in T
  BY <1>1
<1>3. (m - 1) + 1 \in T
  BY <1>2
<1>4. QED
  BY <1>1, <1>3

\* g is defined up to a bound by primitive recursion.
Iterates(g, m, b, F) ==
    \A i \in 0 .. m : g[i] = IF i = 0 THEN b ELSE F[g[i - 1]]

LEMMA IterationExists ==
    ASSUME NEW S, NEW b \in S, NEW F \in [S -> S], NEW m \in Nat
    PROVE  \E g \in [0 .. m -> S] : Iterates(g, m, b, F)
<1> DEFINE Defines(g, n) ==
              g = [i \in 0 .. n |-> IF i = 0 THEN b ELSE F[g[i - 1]]]
           T == {n \in Nat : \E g \in [0 .. n -> S] : Defines(g, n)}
<1>1. 0 \in T
  <2>1. Defines([i \in 0 .. 0 |-> b], 0)
    OBVIOUS
  <2>2. QED
    BY <2>1
<1>2. ASSUME NEW n \in Nat, n \in T
      PROVE  n + 1 \in T
  <2>1. PICK g \in [0 .. n -> S] : Defines(g, n)
    BY <1>2
  <2> DEFINE h == [i \in 0 .. n + 1 |-> IF i = n + 1 THEN F[g[n]] ELSE g[i]]
  <2>2. h \in [0 .. n + 1 -> S]
    OBVIOUS
  <2>3. ASSUME NEW i \in 0 .. n + 1
        PROVE  h[i] = IF i = 0 THEN b ELSE F[h[i - 1]]
    <3>1. CASE i = n + 1
      BY <3>1
    <3>2. CASE i \in 0 .. n
      <4>1. g[i] = IF i = 0 THEN b ELSE F[g[i - 1]]
        BY <2>1, <3>2
      <4>2. QED
        BY <3>2, <4>1
    <3>3. QED
      BY <3>1, <3>2
  <2>4. Defines(h, n + 1)
    BY <2>2, <2>3
  <2>5. QED
    <3> HIDE DEF h, Defines
    <3>1. QED
      BY <2>2, <2>4
<1>3. m \in T
  <2> HIDE DEF T
  <2>1. QED
    BY <1>1, <1>2, SetInduction
<1>4. PICK g \in [0 .. m -> S] : Defines(g, m)
  BY <1>3
<1>5. Iterates(g, m, b, F)
  BY <1>4 DEF Iterates
<1>6. QED
  BY <1>5

LEMMA MaxProperties ==
    ASSUME NEW n \in Nat, NEW s \in SUBSET (1 .. n), s # {}
    PROVE  Max(s) \in s /\ \A k \in s : k <= Max(s)
<1> DEFINE T == {n - k : k \in s}
<1>1. T \in SUBSET Nat /\ T # {}
  <2>1. \A k \in s : n - k \in Nat
    OBVIOUS
  <2>2. QED
    BY <2>1
<1>2. PICK m \in T : \A k \in T : m <= k
  <2> HIDE DEF T
  <2>1. QED
    BY <1>1, LeastNumber
<1>3. PICK x \in s : m = n - x
  OBVIOUS
<1>4. \A k \in s : x >= k
  BY <1>2, <1>3
<1>5. QED
  BY <1>3, <1>4 DEF Max

LEMMA MinProperties ==
    ASSUME NEW s \in SUBSET Nat, s # {}
    PROVE  Min(s) \in s /\ \A k \in s : Min(s) <= k
BY LeastNumber DEF Min

\* g is defined by recursion on the largest element of a set of indices, as in
\* FoldLeft.
FoldsUpTo(g, m, b, F) ==
    \A s \in SUBSET (1 .. m) :
        g[s] = IF s = {} THEN b ELSE F[Max(s)][g[s \ {Max(s)}]]

LEMMA FoldExists ==
    ASSUME NEW S, NEW b \in S, NEW m \in Nat, NEW F \in [1 .. m -> [S -> S]]
    PROVE  \E g \in [SUBSET (1 .. m) -> S] : FoldsUpTo(g, m, b, F)
<1> DEFINE Defines(g, n) ==
              g = [s \in SUBSET (1 .. n) |->
                     IF s = {} THEN b ELSE F[Max(s)][g[s \ {Max(s)}]]]
           Exists(n) == \E g \in [SUBSET (1 .. n) -> S] : Defines(g, n)
           T == {n \in Nat : n <= m => Exists(n)}
<1>1. 0 \in T
  <2> DEFINE h == [s \in SUBSET (1 .. 0) |-> b]
  <2>1. h \in [SUBSET (1 .. 0) -> S]
    OBVIOUS
  <2>2. ASSUME NEW s \in SUBSET (1 .. 0)
        PROVE  h[s] = IF s = {} THEN b ELSE F[Max(s)][h[s \ {Max(s)}]]
    <3>1. s = {}
      <4>1. 1 .. 0 = {}
        OBVIOUS
      <4>2. QED
        BY <4>1
    <3>2. h[s] = b
      OBVIOUS
    <3>3. QED
      BY <3>1, <3>2
  <2>3. Defines(h, 0)
    <3> HIDE DEF h
    <3>1. h = [s \in SUBSET (1 .. 0) |-> h[s]]
      BY <2>1
    <3>2. QED
      BY <2>2, <3>1
  <2>4. Exists(0)
    <3> HIDE DEF h, Defines
    <3>1. QED
      BY <2>1, <2>3
  <2>5. QED
    <3> HIDE DEF Exists
    <3>1. QED
      BY <2>4
<1>2. ASSUME NEW n \in Nat, n \in T
      PROVE  n + 1 \in T
  <2>0. SUFFICES ASSUME n + 1 <= m
                 PROVE  Exists(n + 1)
    <3> HIDE DEF Exists
    <3>1. QED
      OBVIOUS
  <2>1. PICK g \in [SUBSET (1 .. n) -> S] : Defines(g, n)
    <3> HIDE DEF Defines
    <3>1. n <= m
      BY <2>0
    <3>2. Exists(n)
      <4> HIDE DEF Exists
      <4>1. QED
        BY <1>2, <3>1
    <3>3. QED
      BY <3>2
  <2>2. \A s \in SUBSET (1 .. n + 1) : n + 1 \notin s => s \in SUBSET (1 .. n)
    OBVIOUS
  <2>3. \A s \in SUBSET (1 .. n + 1) : s \ {n + 1} \in SUBSET (1 .. n)
    OBVIOUS
  <2>4. F[n + 1] \in [S -> S]
    BY <2>0
  <2> DEFINE h == [s \in SUBSET (1 .. n + 1) |->
                     IF n + 1 \in s THEN F[n + 1][g[s \ {n + 1}]] ELSE g[s]]
  <2>5. h \in [SUBSET (1 .. n + 1) -> S]
    BY <2>2, <2>3, <2>4
  <2>6. ASSUME NEW s \in SUBSET (1 .. n + 1)
        PROVE  h[s] = IF s = {} THEN b ELSE F[Max(s)][h[s \ {Max(s)}]]
    <3>1. CASE n + 1 \in s
      <4>1. Max(s) = n + 1
        <5>1. Max(s) \in 1 .. n + 1 /\ n + 1 <= Max(s)
          BY <3>1, MaxProperties, n + 1 \in Nat
        <5>2. QED
          BY <5>1
      <4>2. s \ {n + 1} \in SUBSET (1 .. n + 1)
        OBVIOUS
      <4>3. h[s \ {n + 1}] = g[s \ {n + 1}]
        BY <4>2
      <4>4. h[s] = F[n + 1][g[s \ {n + 1}]]
        BY <3>1
      <4>5. QED
        BY <3>1, <4>1, <4>3, <4>4
    <3>2. CASE n + 1 \notin s
      <4>1. s \in SUBSET (1 .. n) /\ h[s] = g[s]
        BY <2>2, <3>2
      <4>2. g[s] = IF s = {} THEN b ELSE F[Max(s)][g[s \ {Max(s)}]]
        BY <2>1, <4>1
      <4>3. s \ {Max(s)} \in SUBSET (1 .. n + 1) /\ n + 1 \notin s \ {Max(s)}
        BY <3>2
      <4>4. h[s \ {Max(s)}] = g[s \ {Max(s)}]
        BY <4>3
      <4>5. QED
        BY <4>1, <4>2, <4>4
    <3>3. QED
      BY <3>1, <3>2
  <2>7. Defines(h, n + 1)
    <3> HIDE DEF h
    <3>1. DOMAIN h = SUBSET (1 .. n + 1) /\ h = [s \in SUBSET (1 .. n + 1) |-> h[s]]
      BY <2>5
    <3>2. QED
      BY <2>6, <3>1
  <2>8. QED
    <3> HIDE DEF h, Defines
    <3>1. QED
      BY <2>5, <2>7
<1>3. m \in T
  <2> HIDE DEF T
  <2>1. QED
    BY <1>1, <1>2, SetInduction
<1>4. Exists(m)
  <2> HIDE DEF Exists
  <2>1. m <= m
    OBVIOUS
  <2>2. QED
    BY <1>3, <2>1
<1>5. PICK g \in [SUBSET (1 .. m) -> S] : Defines(g, m)
  <2> HIDE DEF Defines
  <2>1. QED
    BY <1>4
<1>6. FoldsUpTo(g, m, b, F)
  BY <1>5 DEF FoldsUpTo
<1>7. QED
  BY <1>6

----
(* Counting *)

\* Sets that correspond one to one have equally many elements.
LEMMA Correspondence ==
    ASSUME NEW A, NEW B, IsFiniteSet(A), NEW f \in [A -> B],
           \A x, y \in A : f[x] = f[y] => x = y,
           \A b \in B : \E x \in A : f[x] = b
    PROVE  IsFiniteSet(B) /\ Cardinality(B) = Cardinality(A)
<1>1. f \in Bijection(A, B)
  BY DEF Bijection, Injection, Surjection, IsInjective
<1>2. ExistsBijection(A, B)
  BY <1>1 DEF ExistsBijection
<1>3. QED
  BY <1>2, FS_Bijection

====
