---- MODULE CodecProofs ----
(***************************************************************************)
(* The limits of the validator, the encoder and the decoder, proved for    *)
(* values of every shape, and the agreement of the decoders with the       *)
(* session.                                                                *)
(***************************************************************************)
EXTENDS Codec, SharedLemmas

----
(* Folds *)

\* g has the results of a fold after each entry.
FoldsAlong(g, F, base, entries) ==
    /\ g[0] = base
    /\ \A i \in 1 .. Len(entries) : g[i] = F[g[i - 1]][entries[i]]
    /\ Fold(F, base, entries) = g[Len(entries)]

\* A fold is the last of its results.
LEMMA FoldAlong ==
    ASSUME NEW A, NEW B, NEW F \in [A -> [B -> A]], NEW base \in A, NEW entries \in Seq(B)
    PROVE  \E g \in [0 .. Len(entries) -> A] : FoldsAlong(g, F, base, entries)
<1> DEFINE n == Len(entries)
           Loops(h) == h = [s \in SUBSET (1 .. n) |->
                              IF s = {}
                              THEN base
                              ELSE F[h[s \ {Max(s)}]][entries[Max(s)]]]
<1>1. n \in Nat /\ DOMAIN entries = 1 .. n /\ \A i \in 1 .. n : entries[i] \in B
  OBVIOUS
<1>2. \E h : Loops(h)
  <2> DEFINE G == [i \in 1 .. n |-> [a \in A |-> F[a][entries[i]]]]
  <2>1. \A i \in 1 .. n : \A a \in A : F[a][entries[i]] \in A
    BY <1>1
  <2>2. G \in [1 .. n -> [A -> A]]
    BY <2>1
  <2>3. PICK g \in [SUBSET (1 .. n) -> A] : FoldsUpTo(g, n, base, G)
    <3> HIDE DEF G, n, Loops
    <3>1. QED
      BY <1>1, <2>2, FoldExists
  <2>4. ASSUME NEW s \in SUBSET (1 .. n)
        PROVE  g[s] = IF s = {} THEN base ELSE F[g[s \ {Max(s)}]][entries[Max(s)]]
    <3>1. g[s] = IF s = {} THEN base ELSE G[Max(s)][g[s \ {Max(s)}]]
      BY <2>3 DEF FoldsUpTo
    <3>2. CASE s # {}
      <4>1. Max(s) \in 1 .. n
        BY <1>1, <3>2, MaxProperties
      <4>2. g[s \ {Max(s)}] \in A
        OBVIOUS
      <4>3. G[Max(s)][g[s \ {Max(s)}]] = F[g[s \ {Max(s)}]][entries[Max(s)]]
        BY <4>1, <4>2
      <4>4. QED
        BY <3>1, <3>2, <4>3
    <3>3. QED
      BY <3>1, <3>2
  <2>5. Loops(g)
    <3>1. g = [s \in SUBSET (1 .. n) |-> g[s]]
      OBVIOUS
    <3> HIDE DEF G, n
    <3>2. QED
      BY <2>4, <3>1
  <2>6. QED
    BY <2>5
<1> DEFINE h == CHOOSE f : Loops(f)
           g == [i \in 0 .. n |-> h[1 .. i]]
<1>3. Loops(h)
  <2> HIDE DEF Loops
  <2>1. QED
    BY <1>2
<1>4. Fold(F, base, entries) = h[1 .. n]
  <2>1. Fold(F, base, entries) = h[DOMAIN entries]
    BY <1>1 DEF Fold, FoldLeft, MapThenFoldSet
  <2> HIDE DEF h, n
  <2>2. QED
    BY <1>1, <2>1
<1> HIDE DEF h
<1>5. h[1 .. 0] = base
  <2>1. 1 .. 0 = {}
    OBVIOUS
  <2>2. h[{}] = base
    BY <1>3
  <2>3. QED
    BY <2>1, <2>2
<1>6. ASSUME NEW k \in 1 .. n
      PROVE  h[1 .. k] = F[h[1 .. k - 1]][entries[k]]
  <2> HIDE DEF n
  <2>0. k \in Nat /\ k >= 1 /\ k <= n /\ n \in Nat
    BY <1>1
  <2>1. 1 .. k \in SUBSET (1 .. n) /\ 1 .. k # {}
    <3>1. k \in 1 .. k /\ \A i \in 1 .. k : i \in 1 .. n
      BY <2>0
    <3>2. QED
      BY <3>1
  <2>2. Max(1 .. k) = k
    <3>1. Max(1 .. k) \in 1 .. k /\ \A i \in 1 .. k : i <= Max(1 .. k)
      <4>1. 1 .. k \in SUBSET (1 .. k)
        OBVIOUS
      <4>2. QED
        BY <2>0, <2>1, <4>1, MaxProperties
    <3>2. QED
      BY <2>0, <3>1
  <2>3. (1 .. k) \ {k} = 1 .. k - 1
    BY <2>0
  <2>4. h[1 .. k] = F[h[(1 .. k) \ {Max(1 .. k)}]][entries[Max(1 .. k)]]
    BY <1>3, <2>1
  <2>5. QED
    BY <2>2, <2>3, <2>4
<1> DEFINE T == {k \in Nat : k <= n => h[1 .. k] \in A}
<1>7. ASSUME NEW k \in 0 .. n
      PROVE  h[1 .. k] \in A
  <2> HIDE DEF n
  <2>1. 0 \in T
    BY <1>5
  <2>2. ASSUME NEW i \in Nat, i \in T
        PROVE  i + 1 \in T
    <3>1. CASE i + 1 <= n
      <4>1. i + 1 \in 1 .. n /\ (i + 1) - 1 = i /\ h[1 .. i] \in A
        BY <1>1, <2>2, <3>1
      <4>2. h[1 .. i + 1] = F[h[1 .. i]][entries[i + 1]]
        BY <1>6, <4>1
      <4>3. QED
        BY <1>1, <4>1, <4>2
    <3>2. QED
      BY <3>1
  <2>3. k \in Nat
    BY <1>1
  <2>4. k \in T
    <3> HIDE DEF T
    <3>1. QED
      BY <2>1, <2>2, <2>3, SetInduction
  <2>5. QED
    BY <1>1, <2>4
<1>8. g \in [0 .. n -> A]
  BY <1>7
<1>9. FoldsAlong(g, F, base, entries)
  <2>1. g[0] = base
    <3>1. 0 \in 0 .. n
      BY <1>1
    <3>2. QED
      BY <1>5, <3>1
  <2>2. ASSUME NEW i \in 1 .. Len(entries)
        PROVE  g[i] = F[g[i - 1]][entries[i]]
    <3>1. i \in 1 .. n /\ i \in 0 .. n /\ i - 1 \in 0 .. n
      BY <1>1
    <3>2. g[i] = h[1 .. i] /\ g[i - 1] = h[1 .. i - 1]
      BY <3>1
    <3>3. QED
      BY <1>6, <3>1, <3>2
  <2>3. Fold(F, base, entries) = g[Len(entries)]
    BY <1>1, <1>4
  <2>4. QED
    BY <2>1, <2>2, <2>3 DEF FoldsAlong
<1>10. QED
  BY <1>8, <1>9

----
(* Values and what is said of them *)

LEMMA ValueFields ==
    ASSUME NEW v \in Values
    PROVE  /\ v.kind \in DOMAIN Fields \cup {"other"} /\ v.data \in Nat
           /\ v.entries \in Seq(Entries(Values)) /\ Len(v.entries) \in Nat
           /\ DOMAIN v.entries = 1 .. Len(v.entries)
           /\ \A i \in 1 .. Len(v.entries) :
                /\ v.entries[i] \in Entries(Values)
                /\ v.entries[i].key \in Nat
                /\ v.entries[i].value \in Values
<1>1. v \in [kind : DOMAIN Fields \cup {"other"}, data : Nat, entries : Seq(Entries(Values))]
  BY ValuesAssumption
<1>2. /\ v.kind \in DOMAIN Fields \cup {"other"} /\ v.data \in Nat
      /\ v.entries \in Seq(Entries(Values))
  BY <1>1
<1> DEFINE es == v.entries
<1> HIDE DEF es
<1>3. es \in Seq(Entries(Values))
  BY <1>2 DEF es
<1>4. /\ Len(es) \in Nat /\ DOMAIN es = 1 .. Len(es)
      /\ \A i \in 1 .. Len(es) : es[i] \in Entries(Values)
  BY <1>3
<1>5. \A e \in Entries(Values) : e.key \in Nat /\ e.value \in Values
  BY DEF Entries
<1>6. QED
  BY <1>2, <1>4, <1>5 DEF es

LEMMA LimitsAreNumbers ==
    /\ MaxDepth \in Nat /\ MaxDepth >= 1
    /\ MaxItems \in Nat /\ MaxItems >= 1
    /\ MaxStringBytes \in Nat
BY LimitsAssumption

\* What Nests says at each number of levels.
LEMMA NestsUnfolds ==
    /\ Nests \in [0 .. MaxDepth -> [Values -> BOOLEAN]]
    /\ \A v \in Values :
        /\ Nests[0][v] <=> Sound(v) /\ v.entries = << >>
        /\ \A n \in 1 .. MaxDepth :
            Nests[n][v] <=>
                Sound(v) /\ \A i \in DOMAIN v.entries : Nests[n - 1][v.entries[i].value]
<1> DEFINE S == [Values -> BOOLEAN]
           b == [v \in Values |-> Sound(v) /\ v.entries = << >>]
           F == [f \in S |-> [v \in Values |->
                   Sound(v) /\ \A i \in DOMAIN v.entries : f[v.entries[i].value]]]
           Body(g, n) == [v \in Values |->
                            /\ Sound(v)
                            /\ IF n = 0 THEN v.entries = << >>
                               ELSE \A i \in DOMAIN v.entries : g[n - 1][v.entries[i].value]]
           Defines(g) == g = [n \in 0 .. MaxDepth |-> Body(g, n)]
<1>1. b \in S /\ F \in [S -> S]
  OBVIOUS
<1>2. PICK g \in [0 .. MaxDepth -> S] : Iterates(g, MaxDepth, b, F)
  <2> HIDE DEF S, b, F
  <2>1. QED
    BY <1>1, LimitsAreNumbers, IterationExists
<1>3. ASSUME NEW h, NEW n \in 1 .. MaxDepth, h[n - 1] \in S
      PROVE  Body(h, n) = F[h[n - 1]]
  <2>1. n # 0
    BY LimitsAreNumbers
  <2>2. F[h[n - 1]] = [v \in Values |->
                        Sound(v) /\ \A i \in DOMAIN v.entries : h[n - 1][v.entries[i].value]]
    BY <1>3
  <2>3. QED
    BY <2>1, <2>2
<1>4. \A h : Body(h, 0) = b
  OBVIOUS
<1>5. Defines(g)
  <2> HIDE DEF S, b, F, Body
  <2>1. ASSUME NEW n \in 0 .. MaxDepth
        PROVE  g[n] = Body(g, n)
    <3>1. CASE n = 0
      BY <1>2, <1>4, <3>1 DEF Iterates
    <3>2. CASE n # 0
      <4>1. n \in 1 .. MaxDepth /\ n - 1 \in 0 .. MaxDepth
        BY <3>2, LimitsAreNumbers
      <4>2. g[n - 1] \in S /\ g[n] = F[g[n - 1]]
        BY <1>2, <3>2, <4>1 DEF Iterates
      <4>3. QED
        BY <1>3, <4>1, <4>2
    <3>3. QED
      BY <3>1, <3>2
  <2>2. QED
    BY <2>1
<1>6. Defines(Nests)
  <2>1. Nests = CHOOSE h : Defines(h)
    BY DEF Nests
  <2> HIDE DEF Defines
  <2>2. QED
    BY <1>5, <2>1
<1>7. \A n \in 0 .. MaxDepth : Nests[n] = Body(Nests, n)
  <2> HIDE DEF Body
  <2>1. QED
    BY <1>6
<1>8. ASSUME NEW n \in 0 .. MaxDepth
      PROVE  Nests[n] \in S
  BY <1>7
<1>9. DOMAIN Nests = 0 .. MaxDepth /\ Nests = [n \in 0 .. MaxDepth |-> Nests[n]]
  <2> HIDE DEF Body
  <2>1. QED
    BY <1>6
<1>10. Nests \in [0 .. MaxDepth -> S]
  BY <1>8, <1>9
<1>11. ASSUME NEW v \in Values
       PROVE  Nests[0][v] <=> Sound(v) /\ v.entries = << >>
  <2>1. Nests[0] = b
    <3>1. 0 \in 0 .. MaxDepth
      BY LimitsAreNumbers
    <3> HIDE DEF Body, b
    <3>2. QED
      BY <1>4, <1>7, <3>1
  <2>2. Nests[0][v] = (Sound(v) /\ v.entries = << >>)
    BY <2>1
  <2>3. QED
    BY <2>2
<1>12. ASSUME NEW v \in Values, NEW n \in 1 .. MaxDepth
       PROVE  Nests[n][v] <=>
                Sound(v) /\ \A i \in DOMAIN v.entries : Nests[n - 1][v.entries[i].value]
  <2>1. n \in 0 .. MaxDepth /\ n - 1 \in 0 .. MaxDepth
    BY LimitsAreNumbers
  <2>2. Nests[n] = F[Nests[n - 1]] /\ Nests[n - 1] \in S
    <3> HIDE DEF Body, F, S
    <3>1. QED
      BY <1>3, <1>7, <1>8, <2>1
  <2>3. Nests[n][v] = (Sound(v) /\ \A i \in DOMAIN v.entries : Nests[n - 1][v.entries[i].value])
    BY <2>2
  <2>4. QED
    BY <2>3
<1>13. QED
  BY <1>10, <1>11, <1>12

LEMMA AddType ==
    ASSUME NEW size \in [Values -> Nat]
    PROVE  Add(size) \in [Nat -> [Entries(Values) -> Nat]]
<1>1. \A n \in Nat, e \in Entries(Values) : n + size[e.value] \in Nat
  BY DEF Entries
<1>2. QED
  BY <1>1 DEF Add

\* A sum over entries is a number and not less than its base, and that over none is its
\* base.
LEMMA SumType ==
    ASSUME NEW size \in [Values -> Nat], NEW base \in Nat, NEW entries \in Seq(Entries(Values))
    PROVE  /\ Fold(Add(size), base, entries) \in Nat
           /\ Fold(Add(size), base, entries) >= base
           /\ entries = << >> => Fold(Add(size), base, entries) = base
<1> DEFINE m == Len(entries)
<1>1. PICK g \in [0 .. m -> Nat] : FoldsAlong(g, Add(size), base, entries)
  BY AddType, FoldAlong
<1>2. m \in Nat /\ m \in 0 .. m /\ (entries = << >> => m = 0)
  OBVIOUS
<1> DEFINE T == {k \in Nat : k <= m => g[k] >= base}
<1>3. 0 \in T
  BY <1>1 DEF FoldsAlong
<1>4. ASSUME NEW k \in Nat, k \in T
      PROVE  k + 1 \in T
  <2>1. CASE k + 1 <= m
    <3>1. k + 1 \in 1 .. m /\ (k + 1) - 1 = k /\ k \in 0 .. m /\ g[k] >= base
      BY <1>2, <1>4, <2>1
    <3>2. entries[k + 1] \in Entries(Values) /\ entries[k + 1].value \in Values
      <4>1. entries[k + 1] \in Entries(Values)
        BY <3>1
      <4>2. QED
        BY <4>1 DEF Entries
    <3>3. g[k + 1] = Add(size)[g[k]][entries[k + 1]] /\ g[k] \in Nat
      BY <1>1, <3>1 DEF FoldsAlong
    <3>4. g[k + 1] = g[k] + size[entries[k + 1].value] /\ size[entries[k + 1].value] \in Nat
      BY <3>2, <3>3 DEF Add
    <3>5. g[k + 1] >= base
      BY <3>1, <3>3, <3>4
    <3>6. QED
      BY <3>5
  <2>2. QED
    BY <2>1
<1>5. g[m] >= base
  <2>1. m \in T
    <3> HIDE DEF T, m
    <3>1. QED
      BY <1>2, <1>3, <1>4, SetInduction
  <2>2. QED
    BY <1>2, <2>1
<1>6. QED
  BY <1>1, <1>2, <1>5 DEF FoldsAlong

\* What Size says at each number of levels.
LEMMA SizeUnfolds ==
    /\ Size \in [0 .. MaxDepth -> [Values -> Nat]]
    /\ \A v \in Values :
        /\ Size[0][v] = 0
        /\ \A n \in 1 .. MaxDepth :
            Size[n][v] = Fold(Add(Size[n - 1]), Len(v.entries), v.entries)
<1> DEFINE S == [Values -> Nat]
           b == [v \in Values |-> 0]
           F == [f \in S |-> [v \in Values |-> Fold(Add(f), Len(v.entries), v.entries)]]
           Body(g, n) == [v \in Values |->
                            IF n = 0 THEN 0
                            ELSE Fold(Add(g[n - 1]), Len(v.entries), v.entries)]
           Defines(g) == g = [n \in 0 .. MaxDepth |-> Body(g, n)]
<1>1. b \in S /\ F \in [S -> S]
  <2>1. \A f \in S : \A v \in Values : Fold(Add(f), Len(v.entries), v.entries) \in Nat
    BY ValueFields, SumType
  <2>2. QED
    BY <2>1
<1>2. PICK g \in [0 .. MaxDepth -> S] : Iterates(g, MaxDepth, b, F)
  <2> HIDE DEF S, b, F
  <2>1. QED
    BY <1>1, LimitsAreNumbers, IterationExists
<1>3. ASSUME NEW h, NEW n \in 1 .. MaxDepth, h[n - 1] \in S
      PROVE  Body(h, n) = F[h[n - 1]]
  <2>1. n # 0
    BY LimitsAreNumbers
  <2>2. F[h[n - 1]] = [v \in Values |-> Fold(Add(h[n - 1]), Len(v.entries), v.entries)]
    BY <1>3
  <2>3. QED
    BY <2>1, <2>2
<1>4. \A h : Body(h, 0) = b
  OBVIOUS
<1>5. Defines(g)
  <2> HIDE DEF S, b, F, Body
  <2>1. ASSUME NEW n \in 0 .. MaxDepth
        PROVE  g[n] = Body(g, n)
    <3>1. CASE n = 0
      BY <1>2, <1>4, <3>1 DEF Iterates
    <3>2. CASE n # 0
      <4>1. n \in 1 .. MaxDepth /\ n - 1 \in 0 .. MaxDepth
        BY <3>2, LimitsAreNumbers
      <4>2. g[n - 1] \in S /\ g[n] = F[g[n - 1]]
        BY <1>2, <3>2, <4>1 DEF Iterates
      <4>3. QED
        BY <1>3, <4>1, <4>2
    <3>3. QED
      BY <3>1, <3>2
  <2>2. QED
    BY <2>1
<1>6. Defines(Size)
  <2>1. Size = CHOOSE h : Defines(h)
    BY DEF Size
  <2> HIDE DEF Defines
  <2>2. QED
    BY <1>5, <2>1
<1>7. \A n \in 0 .. MaxDepth : Size[n] = Body(Size, n)
  <2> HIDE DEF Body
  <2>1. QED
    BY <1>6
<1>8. ASSUME NEW n \in 0 .. MaxDepth
      PROVE  Size[n] \in S
  <2> DEFINE T == {k \in Nat : k <= MaxDepth => Size[k] \in S}
  <2> HIDE DEF S, b, F, Body
  <2>1. 0 \in T
    <3>1. 0 \in 0 .. MaxDepth
      BY LimitsAreNumbers
    <3>2. QED
      BY <1>1, <1>4, <1>7, <3>1
  <2>2. ASSUME NEW k \in Nat, k \in T
        PROVE  k + 1 \in T
    <3>1. CASE k + 1 <= MaxDepth
      <4>1. /\ k + 1 \in 1 .. MaxDepth /\ k + 1 \in 0 .. MaxDepth /\ (k + 1) - 1 = k
            /\ Size[k] \in S
        BY <2>2, <3>1, LimitsAreNumbers
      <4>2. Size[k + 1] = F[Size[k]]
        BY <1>3, <1>7, <4>1
      <4>3. QED
        BY <1>1, <4>1, <4>2
    <3>2. QED
      BY <3>1
  <2>3. n \in Nat /\ n <= MaxDepth
    BY LimitsAreNumbers
  <2>4. n \in T
    <3> HIDE DEF T
    <3>1. QED
      BY <2>1, <2>2, <2>3, SetInduction
  <2>5. QED
    BY <2>3, <2>4
<1>9. DOMAIN Size = 0 .. MaxDepth /\ Size = [n \in 0 .. MaxDepth |-> Size[n]]
  <2> HIDE DEF Body
  <2>1. QED
    BY <1>6
<1>10. Size \in [0 .. MaxDepth -> S]
  <2> HIDE DEF S
  <2>1. QED
    BY <1>8, <1>9
<1>11. ASSUME NEW v \in Values
       PROVE  Size[0][v] = 0
  <2>1. Size[0] = b
    <3>1. 0 \in 0 .. MaxDepth
      BY LimitsAreNumbers
    <3> HIDE DEF Body, b
    <3>2. QED
      BY <1>4, <1>7, <3>1
  <2>2. QED
    BY <2>1
<1>12. ASSUME NEW v \in Values, NEW n \in 1 .. MaxDepth
       PROVE  Size[n][v] = Fold(Add(Size[n - 1]), Len(v.entries), v.entries)
  <2>1. n \in 0 .. MaxDepth /\ n - 1 \in 0 .. MaxDepth
    BY LimitsAreNumbers
  <2>2. Size[n] = F[Size[n - 1]] /\ Size[n - 1] \in S
    <3> HIDE DEF Body, F, S
    <3>1. QED
      BY <1>3, <1>7, <1>8, <2>1
  <2>3. QED
    BY <2>2
<1>13. QED
  BY <1>10, <1>11, <1>12

----
(* The walks *)

WalkResults == Counts \cup {Refused}

Walks(nested) == [nested -> [Counts -> WalkResults]]

\* A turn of the loop over the entries hands on a count or refuses.
LEMMA TurnType ==
    ASSUME NEW N, NEW walk \in Walks(N), NEW named \in BOOLEAN
    PROVE  Turn(walk, N, named) \in [WalkResults -> [Entries(N) -> WalkResults]]
<1>1. ASSUME NEW c \in WalkResults, NEW e \in Entries(N)
      PROVE  (IF c = Refused \/ (named /\ ~StringFits(e.key)) THEN Refused
              ELSE walk[e.value][c]) \in WalkResults
  <2>1. e.value \in N
    BY DEF Entries
  <2>2. CASE c # Refused
    <3>1. c \in Counts
      BY <2>2 DEF WalkResults
    <3>2. walk[e.value][c] \in WalkResults
      BY <2>1, <3>1 DEF Walks
    <3>3. QED
      BY <3>2 DEF WalkResults
  <2>3. QED
    BY <2>2 DEF WalkResults
<1>2. QED
  BY <1>1 DEF Turn, WalkResults

\* What a walk makes of a value of at most n levels that it meets after count others.
Exact(n, v, count) ==
    IF Nests[n][v] /\ count + Size[n][v] <= MaxItems THEN count + Size[n][v] ELSE Refused

ExactWalk(n) == [v \in Values |-> [count \in Counts |-> Exact(n, v, count)]]

RefusingWalk == [v \in Values |-> [count \in Counts |-> Refused]]

LEMMA ExactType ==
    ASSUME NEW n \in 0 .. MaxDepth
    PROVE  ExactWalk(n) \in Walks(Values)
<1>1. ASSUME NEW v \in Values, NEW c \in Counts
      PROVE  Exact(n, v, c) \in WalkResults
  <2>1. Size[n][v] \in Nat /\ c \in Nat
    BY SizeUnfolds, LimitsAreNumbers DEF Counts
  <2>2. QED
    BY <2>1, LimitsAreNumbers DEF Exact, WalkResults, Counts
<1>2. QED
  BY <1>1 DEF ExactWalk, Walks

\* Every entry up to the k-th has a key and a value that are let through.
EntriesPass(n, entries, named, k) ==
    \A i \in 1 .. k :
        /\ named => StringFits(entries[i].key)
        /\ Nests[n][entries[i].value]

\* A loop over the entries of one collection counts all that is nested in them, and
\* refuses the collection exactly if one of them is refused or the count is too large.
LEMMA LoopExact ==
    ASSUME NEW n \in 0 .. MaxDepth, NEW entries \in Seq(Entries(Values)),
           NEW named \in BOOLEAN, NEW count \in Nat, count + Len(entries) \in Counts
    PROVE  Loop(ExactWalk(n), Values, named, count + Len(entries), entries) =
             LET total == count + Fold(Add(Size[n]), Len(entries), entries)
             IN  IF EntriesPass(n, entries, named, Len(entries)) /\ total <= MaxItems
                 THEN total
                 ELSE Refused
<1> DEFINE turn == Turn(ExactWalk(n), Values, named)
           size == Size[n]
           m == Len(entries)
<1>1. /\ m \in Nat /\ MaxItems \in Nat /\ size \in [Values -> Nat]
      /\ \A i \in 1 .. m : entries[i] \in Entries(Values)
  BY SizeUnfolds, LimitsAreNumbers
<1>2. \A e \in Entries(Values) : e.key \in Nat /\ e.value \in Values
  BY DEF Entries
<1>3. PICK g \in [0 .. m -> WalkResults] : FoldsAlong(g, turn, count + m, entries)
  <2>1. turn \in [WalkResults -> [Entries(Values) -> WalkResults]]
    BY ExactType, TurnType
  <2>2. count + m \in WalkResults
    BY DEF WalkResults
  <2> HIDE DEF turn
  <2>3. QED
    BY <2>1, <2>2, FoldAlong
<1>4. PICK h \in [0 .. m -> Nat] : FoldsAlong(h, Add(size), m, entries)
  <2> HIDE DEF size
  <2>1. Add(size) \in [Nat -> [Entries(Values) -> Nat]]
    BY <1>1, AddType
  <2>2. QED
    BY <1>1, <2>1, FoldAlong
<1> DEFINE Passes(k) == EntriesPass(n, entries, named, k)
           Agrees(k) == g[k] = IF Passes(k) /\ count + h[k] <= MaxItems
                               THEN count + h[k] ELSE Refused
           T == {k \in Nat : k <= m => Agrees(k)}
<1>5. Agrees(0)
  <2>1. Passes(0)
    BY DEF EntriesPass
  <2>2. g[0] = count + m /\ h[0] = m
    BY <1>3, <1>4 DEF FoldsAlong
  <2>3. count + m <= MaxItems
    BY DEF Counts
  <2>4. QED
    BY <2>1, <2>2, <2>3
<1>6. ASSUME NEW k \in Nat, k + 1 <= m, Agrees(k)
      PROVE  Agrees(k + 1)
  <2> DEFINE e == entries[k + 1]
  <2>1. k + 1 \in 1 .. m /\ k \in 0 .. m /\ k + 1 \in 0 .. m /\ (k + 1) - 1 = k
    BY <1>1, <1>6
  <2>2. e \in Entries(Values) /\ e.key \in Nat /\ e.value \in Values
    BY <1>1, <1>2, <2>1
  <2>3. g[k + 1] = turn[g[k]][e] /\ g[k] \in WalkResults
    BY <1>3, <2>1 DEF FoldsAlong
  <2>4. h[k + 1] = h[k] + size[e.value] /\ h[k] \in Nat /\ size[e.value] \in Nat
    <3>1. h[k + 1] = Add(size)[h[k]][e] /\ h[k] \in Nat
      BY <1>4, <2>1 DEF FoldsAlong
    <3>2. QED
      BY <1>1, <2>2, <3>1 DEF Add
  <2>5. Passes(k + 1) <=>
            Passes(k) /\ (named => StringFits(e.key)) /\ Nests[n][e.value]
    <3> DEFINE P(i) == /\ named => StringFits(entries[i].key)
                       /\ Nests[n][entries[i].value]
    <3>1. \A i : i \in 1 .. k + 1 <=> i \in 1 .. k \/ i = k + 1
      OBVIOUS
    <3>2. Passes(k) = (\A i \in 1 .. k : P(i)) /\ Passes(k + 1) = (\A i \in 1 .. k + 1 : P(i))
      BY DEF EntriesPass
    <3>3. P(k + 1) <=> (named => StringFits(e.key)) /\ Nests[n][e.value]
      OBVIOUS
    <3> HIDE DEF P, Passes
    <3>4. QED
      BY <3>1, <3>2, <3>3, Zenon
  <2>6. g[k + 1] = IF g[k] = Refused \/ (named /\ ~StringFits(e.key)) THEN Refused
                   ELSE ExactWalk(n)[e.value][g[k]]
    BY <2>2, <2>3 DEF Turn, WalkResults
  <2>7. CASE Passes(k) /\ count + h[k] <= MaxItems
    <3>1. g[k] = count + h[k] /\ g[k] \in Counts /\ g[k] # Refused
      BY <1>1, <1>6, <2>4, <2>7 DEF Counts, Refused
    <3>2. ExactWalk(n)[e.value][g[k]] =
            IF Nests[n][e.value] /\ g[k] + size[e.value] <= MaxItems
            THEN g[k] + size[e.value] ELSE Refused
      BY <2>2, <3>1 DEF ExactWalk, Exact
    <3>3. count + h[k + 1] = g[k] + size[e.value]
      BY <2>4, <3>1
    <3> HIDE DEF e, size, Passes
    <3>4. CASE named /\ ~StringFits(e.key)
      BY <2>5, <2>6, <3>4
    <3>5. CASE ~(named /\ ~StringFits(e.key))
      BY <2>5, <2>6, <2>7, <3>1, <3>2, <3>3, <3>5
    <3>6. QED
      BY <3>4, <3>5
  <2>8. CASE ~(Passes(k) /\ count + h[k] <= MaxItems)
    <3>1. g[k + 1] = Refused
      BY <1>6, <2>6, <2>8
    <3> HIDE DEF e, size, Passes
    <3>2. count + h[k + 1] <= MaxItems => count + h[k] <= MaxItems
      <4>1. PICK grown \in Nat : h[k + 1] = h[k] + grown
        BY <2>4
      <4>2. MaxItems \in Nat /\ h[k] \in Nat /\ count \in Nat
        BY <1>1, <2>4
      <4> HIDE DEF Agrees, T
      <4>3. QED
        BY <4>1, <4>2
    <3>3. QED
      BY <2>5, <2>8, <3>1, <3>2
  <2>9. QED
    BY <2>7, <2>8
<1>7. Agrees(m)
  <2> HIDE DEF m, Agrees
  <2>1. \A k \in Nat : k \in T
    <3>1. 0 \in T
      BY <1>5
    <3>2. ASSUME NEW k \in Nat, k \in T
          PROVE  k + 1 \in T
      <4>1. k + 1 <= m => k <= m
        BY <1>1
      <4>2. QED
        BY <1>6, <3>2, <4>1
    <3> HIDE DEF T
    <3>3. QED
      BY <3>1, <3>2, SetInduction
  <2>2. QED
    BY <1>1, <2>1
<1>8. Loop(ExactWalk(n), Values, named, count + m, entries) = g[m]
  BY <1>3 DEF Loop, FoldsAlong
<1>9. Fold(Add(size), m, entries) = h[m]
  BY <1>4 DEF FoldsAlong
<1>10. QED
  BY <1>7, <1>8, <1>9

\* A loop that may not go one level deeper lets an empty collection through only.
LEMMA LoopRefuses ==
    ASSUME NEW entries \in Seq(Entries(Values)), NEW named \in BOOLEAN, NEW count \in Counts
    PROVE  Loop(RefusingWalk, Values, named, count, entries) =
             IF entries = << >> THEN count ELSE Refused
<1> DEFINE turn == Turn(RefusingWalk, Values, named)
           m == Len(entries)
<1>1. m \in Nat /\ \A i \in 1 .. m : entries[i] \in Entries(Values)
  OBVIOUS
<1>2. RefusingWalk \in Walks(Values)
  BY DEF RefusingWalk, Walks, WalkResults
<1>3. PICK g \in [0 .. m -> WalkResults] : FoldsAlong(g, turn, count, entries)
  <2>1. turn \in [WalkResults -> [Entries(Values) -> WalkResults]]
    BY <1>2, TurnType
  <2>2. count \in WalkResults
    BY DEF WalkResults
  <2> HIDE DEF turn
  <2>3. QED
    BY <2>1, <2>2, FoldAlong
<1>4. g[0] = count
  BY <1>3 DEF FoldsAlong
<1>5. CASE m > 0
  <2>1. m \in 1 .. m /\ m - 1 \in 0 .. m /\ m \in 0 .. m
    BY <1>1, <1>5
  <2>2. g[m] = turn[g[m - 1]][entries[m]] /\ g[m - 1] \in WalkResults
    BY <1>3, <2>1 DEF FoldsAlong
  <2>3. entries[m] \in Entries(Values) /\ entries[m].value \in Values
    <3>1. entries[m] \in Entries(Values)
      BY <1>1, <2>1
    <3>2. QED
      BY <3>1 DEF Entries
  <2>4. g[m] = Refused
    BY <2>2, <2>3 DEF Turn, WalkResults, RefusingWalk
  <2>5. Loop(RefusingWalk, Values, named, count, entries) = Refused /\ entries # << >>
    BY <1>3, <1>5, <2>4 DEF Loop, FoldsAlong
  <2>6. QED
    BY <2>5
<1>6. CASE m = 0
  BY <1>3, <1>4, <1>6 DEF Loop, FoldsAlong
<1>7. QED
  BY <1>1, <1>5, <1>6

\* The body of the walk over values at a depth within the limit.
Level(walk) ==
    [value \in Values |-> [count \in Counts |->
        CASE value.kind \in {"null", "bool"} -> count
          [] value.kind \in {"integer", "float"} -> IF value.data = 0 THEN count ELSE Refused
          [] value.kind = "string" -> IF StringFits(value.data) THEN count ELSE Refused
          [] value.kind = "object" -> ValidateObject(walk, value, 0, count)
          [] value.kind = "list" -> ValidateList(walk, value, count)
          [] OTHER -> Refused]]

\* A scalar has one level and no entries.
LEMMA ScalarExact ==
    ASSUME NEW n \in 0 .. MaxDepth, NEW v \in Values, v.kind \notin {"object", "list"},
           NEW count \in Counts
    PROVE  Exact(n, v, count) =
             CASE v.kind \in {"null", "bool"} -> count
               [] v.kind \in {"integer", "float"} -> IF v.data = 0 THEN count ELSE Refused
               [] v.kind = "string" -> IF StringFits(v.data) THEN count ELSE Refused
               [] OTHER -> Refused
<1>1. v.entries = << >> /\ v.kind \in DOMAIN Fields \cup {"other"}
  BY ValuesAssumption, ValueFields
<1>2. Nests[n][v] <=> Sound(v)
  <2>1. n = 0 \/ n \in 1 .. MaxDepth
    BY LimitsAreNumbers
  <2>2. DOMAIN v.entries = {}
    BY <1>1
  <2>3. QED
    BY <1>1, <2>1, <2>2, NestsUnfolds
<1>3. Size[n][v] = 0
  <2>1. CASE n = 0
    BY <2>1, SizeUnfolds
  <2>2. CASE n \in 1 .. MaxDepth
    <3>1. Size[n - 1] \in [Values -> Nat]
      BY <2>2, SizeUnfolds, LimitsAreNumbers
    <3>2. Size[n][v] = Fold(Add(Size[n - 1]), Len(v.entries), v.entries)
      BY <2>2, SizeUnfolds
    <3>3. Len(v.entries) = 0 /\ Len(v.entries) \in Nat /\ v.entries \in Seq(Entries(Values))
      BY <1>1
    <3>4. QED
      BY <1>1, <3>1, <3>2, <3>3, SumType
  <2>3. QED
    BY <2>1, <2>2, LimitsAreNumbers
<1>4. Sound(v) <=> /\ v.kind # "other"
                   /\ v.kind \in {"integer", "float"} => v.data = 0
                   /\ v.kind = "string" => StringFits(v.data)
  <2>1. DOMAIN v.entries = {}
    BY <1>1
  <2>2. QED
    BY <2>1 DEF Sound, StringFits
<1>5. Exact(n, v, count) = IF Sound(v) THEN count ELSE Refused
  <2>1. count \in Nat /\ count <= MaxItems /\ count + 0 = count
    BY LimitsAreNumbers DEF Counts
  <2>2. QED
    BY <1>2, <1>3, <2>1 DEF Exact
<1>6. v.kind \in {"null", "bool", "integer", "float", "string", "other"}
  BY <1>1 DEF Fields
<1>7. QED
  BY <1>4, <1>5, <1>6

\* The loop over the entries of a collection, as the bodies of the walks call it.
CollectionExact(n, v, count) ==
    IF count + Len(v.entries) > MaxItems THEN Refused
    ELSE Loop(IF n = 0 THEN RefusingWalk ELSE ExactWalk(n - 1),
              Values, v.kind = "object", count + Len(v.entries), v.entries)

LEMMA CollectionIsExact ==
    ASSUME NEW n \in 0 .. MaxDepth, NEW v \in Values, v.kind \in {"object", "list"},
           NEW count \in Counts
    PROVE  Exact(n, v, count) = CollectionExact(n, v, count)
<1> DEFINE es == v.entries
           m == Len(es)
           named == v.kind = "object"
<1>1. /\ es \in Seq(Entries(Values)) /\ m \in Nat /\ DOMAIN es = 1 .. m
      /\ \A i \in 1 .. m : es[i].key \in Nat /\ es[i].value \in Values
  BY ValueFields
<1>2. count \in Nat /\ count <= MaxItems /\ MaxItems \in Nat
  BY LimitsAreNumbers DEF Counts
<1>3. Sound(v) <=> \A i \in 1 .. m : named => StringFits(es[i].key)
  <2>1. v.kind = "list" => \A i \in 1 .. m : es[i].key = 0
    BY <1>1, ValuesAssumption
  <2>2. 0 <= MaxStringBytes
    BY LimitsAreNumbers
  <2>3. QED
    BY <1>1, <2>1, <2>2 DEF Sound, StringFits
<1>4. CASE n = 0
  <2>1. Nests[n][v] <=> Sound(v) /\ es = << >>
    BY <1>4, NestsUnfolds
  <2>2. Size[n][v] = 0
    BY <1>4, SizeUnfolds
  <2>3. CASE es = << >>
    <3>1. m = 0 /\ Sound(v)
      BY <1>3, <2>3
    <3>2. Exact(n, v, count) = count
      BY <1>2, <2>1, <2>2, <2>3, <3>1 DEF Exact
    <3>3. count + m = count
      BY <1>2, <3>1
    <3>4. Loop(RefusingWalk, Values, named, count, es) = count
      BY <1>1, <2>3, LoopRefuses
    <3>5. CollectionExact(n, v, count) = count
      BY <1>2, <1>4, <3>3, <3>4 DEF CollectionExact
    <3>6. QED
      BY <3>2, <3>5
  <2>4. CASE es # << >>
    <3>1. Exact(n, v, count) = Refused
      BY <2>1, <2>4 DEF Exact
    <3>2. CASE count + m <= MaxItems
      <4>1. count + m \in Counts
        BY <1>1, <1>2, <3>2 DEF Counts
      <4>2. Loop(RefusingWalk, Values, named, count + m, es) = Refused
        BY <1>1, <2>4, <4>1, LoopRefuses
      <4>3. QED
        BY <1>4, <3>1, <4>2 DEF CollectionExact
    <3>3. CASE count + m > MaxItems
      BY <3>1, <3>3 DEF CollectionExact
    <3>4. QED
      BY <1>1, <1>2, <3>2, <3>3
  <2>5. QED
    BY <2>3, <2>4
<1>5. CASE n \in 1 .. MaxDepth
  <2> DEFINE sum == Fold(Add(Size[n - 1]), m, es)
  <2>1. n - 1 \in 0 .. MaxDepth /\ n # 0 /\ Size[n - 1] \in [Values -> Nat]
    BY <1>5, SizeUnfolds, LimitsAreNumbers
  <2>2. Size[n][v] = sum
    BY <1>5, SizeUnfolds
  <2>3. sum \in Nat /\ sum >= m
    <3> HIDE DEF es, m
    <3>1. QED
      BY <1>1, <2>1, SumType
  <2>4. Nests[n][v] <=> EntriesPass(n - 1, es, named, m)
    <3>1. Nests[n][v] <=> Sound(v) /\ \A i \in 1 .. m : Nests[n - 1][es[i].value]
      BY <1>1, <1>5, NestsUnfolds
    <3> HIDE DEF es, m, named
    <3>2. QED
      BY <1>3, <3>1, Zenon DEF EntriesPass
  <2>5. CASE count + m <= MaxItems
    <3>1. count + m \in Counts
      BY <1>1, <1>2, <2>5 DEF Counts
    <3>2. named \in BOOLEAN
      OBVIOUS
    <3>3. Loop(ExactWalk(n - 1), Values, named, count + m, es) =
            IF EntriesPass(n - 1, es, named, m) /\ count + sum <= MaxItems
            THEN count + sum
            ELSE Refused
      <4> HIDE DEF es, named
      <4>1. QED
        BY <1>1, <1>2, <2>1, <3>1, <3>2, LoopExact
    <3>4. CollectionExact(n, v, count) = Loop(ExactWalk(n - 1), Values, named, count + m, es)
      BY <1>1, <1>2, <2>1, <2>5 DEF CollectionExact
    <3> HIDE DEF es, named, m, sum
    <3>5. QED
      BY <2>2, <2>4, <3>3, <3>4 DEF Exact
  <2>6. CASE count + m > MaxItems
    <3>1. ~(count + sum <= MaxItems)
      BY <1>1, <1>2, <2>3, <2>6
    <3>2. QED
      BY <2>2, <2>6, <3>1 DEF Exact, CollectionExact
  <2>7. QED
    BY <1>1, <1>2, <2>5, <2>6
<1>6. QED
  BY <1>4, <1>5, LimitsAreNumbers

\* A level above an exact walk is exact.
LEMMA LevelExact ==
    /\ Level(RefusingWalk) = ExactWalk(0)
    /\ \A n \in 1 .. MaxDepth : Level(ExactWalk(n - 1)) = ExactWalk(n)
<1>1. ASSUME NEW n \in 0 .. MaxDepth, NEW v \in Values, NEW count \in Counts, NEW walk,
             walk = IF n = 0 THEN RefusingWalk ELSE ExactWalk(n - 1)
      PROVE  Level(walk)[v][count] = Exact(n, v, count)
  <2>1. CASE v.kind \in {"object", "list"}
    <3>1. Exact(n, v, count) = CollectionExact(n, v, count)
      BY <2>1, CollectionIsExact
    <3>2. ~(0 > MaxDepth)
      BY LimitsAreNumbers
    <3>3. CASE v.kind = "object"
      <4>1. Level(walk)[v][count] = ValidateObject(walk, v, 0, count)
        BY <3>3 DEF Level
      <4>2. (v.kind = "object") = TRUE
        BY <3>3
      <4>3. QED
        BY <1>1, <3>1, <3>2, <4>1, <4>2 DEF ValidateObject, CollectionExact
    <3>4. CASE v.kind = "list"
      <4>1. Level(walk)[v][count] = ValidateList(walk, v, count)
        BY <3>4 DEF Level
      <4>2. (v.kind = "object") = FALSE
        BY <3>4
      <4>3. QED
        BY <1>1, <3>1, <4>1, <4>2 DEF ValidateList, CollectionExact
    <3>5. QED
      BY <2>1, <3>3, <3>4
  <2>2. CASE v.kind \notin {"object", "list"}
    <3>1. v.kind \in {"null", "bool", "integer", "float", "string", "other"}
      BY <2>2, ValueFields DEF Fields
    <3>2. QED
      BY <2>2, <3>1, ScalarExact DEF Level
  <2>3. QED
    BY <2>1, <2>2
<1>2. ASSUME NEW n \in 0 .. MaxDepth, NEW walk,
             walk = IF n = 0 THEN RefusingWalk ELSE ExactWalk(n - 1)
      PROVE  Level(walk) = ExactWalk(n)
  <2>1. \A v \in Values : \A count \in Counts : Level(walk)[v][count] = Exact(n, v, count)
    BY <1>1, <1>2
  <2>2. Level(walk) = [v \in Values |-> [count \in Counts |-> Level(walk)[v][count]]]
    BY DEF Level
  <2>3. QED
    BY <2>1, <2>2 DEF ExactWalk
<1>3. QED
  BY <1>2, LimitsAreNumbers

----
(* The recursion over the depth *)

\* At each depth, a walk calls itself one level deeper.
Descends(h) ==
    \A d \in 0 .. MaxDepth + 1 : h[d] = IF d > MaxDepth THEN RefusingWalk ELSE Level(h[d + 1])

WalkOfDepth ==
    [d \in 0 .. MaxDepth + 1 |->
        IF d > MaxDepth THEN RefusingWalk ELSE ExactWalk(MaxDepth - d)]

LEMMA WalkOfDepthDescends == Descends(WalkOfDepth)
<1>1. ASSUME NEW d \in 0 .. MaxDepth
      PROVE  WalkOfDepth[d] = Level(WalkOfDepth[d + 1])
  <2>1. WalkOfDepth[d] = ExactWalk(MaxDepth - d) /\ d + 1 \in 0 .. MaxDepth + 1
    BY LimitsAreNumbers DEF WalkOfDepth
  <2>2. CASE d = MaxDepth
    <3>1. WalkOfDepth[d + 1] = RefusingWalk /\ MaxDepth - d = 0
      BY <2>1, <2>2, LimitsAreNumbers DEF WalkOfDepth
    <3>2. QED
      BY <2>1, <3>1, LevelExact
  <2>3. CASE d < MaxDepth
    <3>1. MaxDepth - d \in 1 .. MaxDepth /\ MaxDepth - (d + 1) = (MaxDepth - d) - 1
      BY <2>3, LimitsAreNumbers
    <3>2. WalkOfDepth[d + 1] = ExactWalk((MaxDepth - d) - 1)
      <4>1. ~(d + 1 > MaxDepth)
        BY <2>3, LimitsAreNumbers
      <4>2. WalkOfDepth[d + 1] = ExactWalk(MaxDepth - (d + 1))
        BY <2>1, <4>1 DEF WalkOfDepth
      <4>3. QED
        BY <3>1, <4>2
    <3>3. QED
      BY <2>1, <3>1, <3>2, LevelExact
  <2>4. QED
    BY <2>2, <2>3, LimitsAreNumbers
<1>2. ASSUME NEW d \in 0 .. MaxDepth + 1
      PROVE  WalkOfDepth[d] = IF d > MaxDepth THEN RefusingWalk ELSE Level(WalkOfDepth[d + 1])
  <2>1. CASE d > MaxDepth
    BY <2>1 DEF WalkOfDepth
  <2>2. CASE d \in 0 .. MaxDepth
    <3>1. ~(d > MaxDepth)
      BY <2>2, LimitsAreNumbers
    <3>2. QED
      BY <1>1, <2>2, <3>1
  <2>3. QED
    BY <2>1, <2>2, LimitsAreNumbers
<1>3. QED
  BY <1>2 DEF Descends

LEMMA DescentExact ==
    ASSUME NEW h, Descends(h)
    PROVE  \A d \in 0 .. MaxDepth : h[d] = ExactWalk(MaxDepth - d)
<1> DEFINE T == {n \in Nat : n <= MaxDepth => h[MaxDepth - n] = ExactWalk(n)}
<1>1. ASSUME NEW d \in 0 .. MaxDepth
      PROVE  h[d] = Level(h[d + 1])
  BY LimitsAreNumbers DEF Descends
<1>2. 0 \in T
  <2>1. h[MaxDepth + 1] = RefusingWalk
    BY LimitsAreNumbers DEF Descends
  <2>2. h[MaxDepth] = Level(h[MaxDepth + 1])
    BY <1>1, LimitsAreNumbers
  <2>3. MaxDepth - 0 = MaxDepth
    BY LimitsAreNumbers
  <2>4. QED
    BY <2>1, <2>2, <2>3, LevelExact
<1>3. ASSUME NEW n \in Nat, n \in T
      PROVE  n + 1 \in T
  <2>1. CASE n + 1 <= MaxDepth
    <3>1. /\ MaxDepth - (n + 1) \in 0 .. MaxDepth
          /\ (MaxDepth - (n + 1)) + 1 = MaxDepth - n
          /\ n + 1 \in 1 .. MaxDepth /\ (n + 1) - 1 = n /\ n <= MaxDepth
      BY <2>1, LimitsAreNumbers
    <3>2. h[MaxDepth - (n + 1)] = Level(h[MaxDepth - n])
      BY <1>1, <3>1
    <3>3. h[MaxDepth - n] = ExactWalk(n)
      BY <1>3, <3>1
    <3>4. Level(ExactWalk(n)) = ExactWalk(n + 1)
      BY <3>1, LevelExact
    <3>5. QED
      BY <3>2, <3>3, <3>4
  <2>2. QED
    BY <2>1
<1>4. ASSUME NEW d \in 0 .. MaxDepth
      PROVE  h[d] = ExactWalk(MaxDepth - d)
  <2>1. MaxDepth - d \in Nat /\ MaxDepth - d <= MaxDepth /\ MaxDepth - (MaxDepth - d) = d
    BY LimitsAreNumbers
  <2>2. MaxDepth - d \in T
    <3> HIDE DEF T
    <3>1. QED
      BY <1>2, <1>3, <2>1, SetInduction
  <2>3. QED
    BY <2>1, <2>2
<1>5. QED
  BY <1>4

LEMMA ValidatorIsExact ==
    \A d \in 0 .. MaxDepth : Validator[d] = ExactWalk(MaxDepth - d)
<1> DEFINE Body(h, depth) ==
              [value \in Values |-> [count \in Counts |->
                 ValidateValue(h[depth + 1], value, depth, count)]]
           Defines(h) == h = [depth \in 0 .. MaxDepth + 1 |-> Body(h, depth)]
<1>0. Validator = CHOOSE h : Defines(h)
  BY DEF Validator
<1>1. ASSUME NEW h, NEW d \in 0 .. MaxDepth + 1
      PROVE  Body(h, d) = IF d > MaxDepth THEN RefusingWalk ELSE Level(h[d + 1])
  <2>1. CASE d > MaxDepth
    BY <2>1 DEF RefusingWalk, ValidateValue
  <2>2. CASE d \in 0 .. MaxDepth
    <3>1. ~(d > MaxDepth) /\ ~(0 > MaxDepth)
      BY <2>2, LimitsAreNumbers
    <3>2. ASSUME NEW v \in Values, NEW c \in Counts
          PROVE  /\ ValidateObject(h[d + 1], v, d, c) = ValidateObject(h[d + 1], v, 0, c)
                 /\ ValidateList(h[d + 1], v, c) = ValidateList(h[d + 1], v, c)
      BY <3>1 DEF ValidateObject
    <3>3. ASSUME NEW v \in Values, NEW c \in Counts
          PROVE  Body(h, d)[v][c] = Level(h[d + 1])[v][c]
      BY <3>1, <3>2 DEF Level, ValidateValue
    <3>4. /\ Body(h, d) = [v \in Values |-> [c \in Counts |-> Body(h, d)[v][c]]]
          /\ Level(h[d + 1]) = [v \in Values |-> [c \in Counts |-> Level(h[d + 1])[v][c]]]
      BY DEF Level
    <3> HIDE DEF Body
    <3>5. QED
      BY <3>1, <3>3, <3>4
  <2>3. QED
    BY <2>1, <2>2, LimitsAreNumbers
<1> HIDE DEF Body
<1>2. Defines(WalkOfDepth)
  <2>1. \A d \in 0 .. MaxDepth + 1 : WalkOfDepth[d] = Body(WalkOfDepth, d)
    BY <1>1, WalkOfDepthDescends, LimitsAreNumbers DEF Descends
  <2>2. WalkOfDepth = [d \in 0 .. MaxDepth + 1 |-> WalkOfDepth[d]]
    BY DEF WalkOfDepth
  <2>3. QED
    BY <2>1, <2>2
<1>3. Defines(Validator)
  <2> HIDE DEF Defines
  <2>1. QED
    BY <1>0, <1>2
<1>4. \A d \in 0 .. MaxDepth + 1 : Validator[d] = Body(Validator, d)
  BY <1>3
<1>5. Descends(Validator)
  BY <1>1, <1>4, LimitsAreNumbers DEF Descends
<1>6. QED
  BY <1>5, DescentExact

LEMMA EncoderIsExact ==
    \A d \in 0 .. MaxDepth : Encoder[d] = ExactWalk(MaxDepth - d)
<1> DEFINE Body(h, depth) ==
              [value \in Values |-> [counter \in Counts |->
                 EncodeValue(h[depth + 1], value, depth, counter)]]
           Defines(h) == h = [depth \in 0 .. MaxDepth + 1 |-> Body(h, depth)]
<1>0. Encoder = CHOOSE h : Defines(h)
  BY DEF Encoder
<1>1. ASSUME NEW h, NEW d \in 0 .. MaxDepth + 1
      PROVE  Body(h, d) = IF d > MaxDepth THEN RefusingWalk ELSE Level(h[d + 1])
  <2>1. CASE d > MaxDepth
    BY <2>1 DEF RefusingWalk, EncodeValue
  <2>2. CASE d \in 0 .. MaxDepth
    <3>1. ~(d > MaxDepth) /\ ~(0 > MaxDepth)
      BY <2>2, LimitsAreNumbers
    <3>2. ASSUME NEW v \in Values, NEW c \in Counts
          PROVE  /\ EncodeObject(h[d + 1], v, d, c) = ValidateObject(h[d + 1], v, 0, c)
                 /\ EncodeList(h[d + 1], v, c) = ValidateList(h[d + 1], v, c)
      <4>1. c \in Nat /\ Len(v.entries) \in Nat /\ c + Len(v.entries) # Refused
        BY ValueFields, LimitsAreNumbers DEF Counts, Refused
      <4>2. QED
        BY <3>1, <4>1 DEF EncodeObject, EncodeList, ValidateObject, ValidateList, CountItems
    <3>3. ASSUME NEW v \in Values, NEW c \in Counts
          PROVE  Body(h, d)[v][c] = Level(h[d + 1])[v][c]
      BY <3>1, <3>2 DEF Level, EncodeValue
    <3>4. /\ Body(h, d) = [v \in Values |-> [c \in Counts |-> Body(h, d)[v][c]]]
          /\ Level(h[d + 1]) = [v \in Values |-> [c \in Counts |-> Level(h[d + 1])[v][c]]]
      BY DEF Level
    <3> HIDE DEF Body
    <3>5. QED
      BY <3>1, <3>3, <3>4
  <2>3. QED
    BY <2>1, <2>2, LimitsAreNumbers
<1> HIDE DEF Body
<1>2. Defines(WalkOfDepth)
  <2>1. \A d \in 0 .. MaxDepth + 1 : WalkOfDepth[d] = Body(WalkOfDepth, d)
    BY <1>1, WalkOfDepthDescends, LimitsAreNumbers DEF Descends
  <2>2. WalkOfDepth = [d \in 0 .. MaxDepth + 1 |-> WalkOfDepth[d]]
    BY DEF WalkOfDepth
  <2>3. QED
    BY <2>1, <2>2
<1>3. Defines(Encoder)
  <2> HIDE DEF Defines
  <2>1. QED
    BY <1>0, <1>2
<1>4. \A d \in 0 .. MaxDepth + 1 : Encoder[d] = Body(Encoder, d)
  BY <1>3
<1>5. Descends(Encoder)
  BY <1>1, <1>4, LimitsAreNumbers DEF Descends
<1>6. QED
  BY <1>5, DescentExact

\* The validator and the encoder let through the canonical objects, and no others.
LEMMA WalksAreExact ==
    ASSUME NEW o \in Values, o.kind = "object"
    PROVE  /\ IsValid(o) <=> Canonical(o)
           /\ Encodes(o) <=> Canonical(o)
           /\ Canonical(o) <=> Exact(MaxDepth, o, 0) # Refused
<1>1. /\ 0 \in Counts /\ MaxDepth \in 0 .. MaxDepth /\ MaxDepth \in 1 .. MaxDepth
      /\ 1 \in 0 .. MaxDepth /\ ~(0 > MaxDepth)
  BY LimitsAreNumbers DEF Counts
<1>2. Exact(MaxDepth, o, 0) # Refused <=> Canonical(o)
  <2>1. Size[MaxDepth][o] \in Nat /\ 0 + Size[MaxDepth][o] = Size[MaxDepth][o]
    BY <1>1, SizeUnfolds
  <2>2. QED
    BY <2>1 DEF Exact, Canonical, Refused
<1>3. Validator[1] = ExactWalk(MaxDepth - 1) /\ Encoder[1] = ExactWalk(MaxDepth - 1)
  BY <1>1, ValidatorIsExact, EncoderIsExact
<1>4. ValidateObject(ExactWalk(MaxDepth - 1), o, 0, 0) = Exact(MaxDepth, o, 0)
  <2>1. Level(ExactWalk(MaxDepth - 1))[o][0] = ExactWalk(MaxDepth)[o][0]
    BY <1>1, LevelExact
  <2>2. Level(ExactWalk(MaxDepth - 1))[o][0] =
            ValidateObject(ExactWalk(MaxDepth - 1), o, 0, 0)
    BY <1>1 DEF Level
  <2>3. QED
    BY <1>1, <2>1, <2>2 DEF ExactWalk
<1>5. EncodeObject(ExactWalk(MaxDepth - 1), o, 0, 0) =
        ValidateObject(ExactWalk(MaxDepth - 1), o, 0, 0)
  <2>1. Len(o.entries) \in Nat /\ 0 + Len(o.entries) # Refused
    BY ValueFields DEF Refused
  <2>2. QED
    BY <2>1 DEF EncodeObject, ValidateObject, CountItems
<1>6. QED
  BY <1>2, <1>3, <1>4, <1>5 DEF IsValid, Encodes

----
(* The decoder *)

LEMMA MessageFields ==
    ASSUME NEW m \in Messages
    PROVE  /\ m.entries \in Seq(Entries(Messages)) /\ Len(m.entries) \in Nat
           /\ DOMAIN m.entries = 1 .. Len(m.entries)
           /\ \A i \in 1 .. Len(m.entries) :
                m.entries[i] \in Entries(Messages) /\ m.entries[i].value \in Messages
<1>1. m \in [kind : Range(Fields) \cup {"unset"}, data : Nat, entries : Seq(Entries(Messages))]
  BY ValuesAssumption
<1> DEFINE es == m.entries
<1>2. es \in Seq(Entries(Messages))
  BY <1>1
<1> HIDE DEF es
<1>3. /\ Len(es) \in Nat /\ DOMAIN es = 1 .. Len(es)
      /\ \A i \in 1 .. Len(es) : es[i] \in Entries(Messages)
  BY <1>2
<1>4. \A e \in Entries(Messages) : e.value \in Messages
  BY DEF Entries
<1>5. QED
  BY <1>2, <1>3, <1>4 DEF es

LEMMA LoopType ==
    ASSUME NEW N, NEW walk \in Walks(N), NEW named \in BOOLEAN, NEW count \in Counts,
           NEW entries \in Seq(Entries(N))
    PROVE  Loop(walk, N, named, count, entries) \in WalkResults
<1> DEFINE turn == Turn(walk, N, named)
<1>1. turn \in [WalkResults -> [Entries(N) -> WalkResults]] /\ count \in WalkResults
  BY TurnType DEF WalkResults
<1>2. PICK g \in [0 .. Len(entries) -> WalkResults] : FoldsAlong(g, turn, count, entries)
  <2> HIDE DEF turn
  <2>1. QED
    BY <1>1, FoldAlong
<1>3. Len(entries) \in 0 .. Len(entries)
  OBVIOUS
<1>4. QED
  BY <1>2, <1>3 DEF FoldsAlong, Loop

\* The body of the decoder at a depth within the limit.
DecodeLevel(walk) ==
    [m \in Messages |-> [counter \in Counts |-> DecodeValue(walk, m, 0, counter)]]

RefusingDecoder == [m \in Messages |-> [counter \in Counts |-> Refused]]

LEMMA DecodeLevelType ==
    ASSUME NEW walk \in Walks(Messages)
    PROVE  DecodeLevel(walk) \in Walks(Messages)
<1>1. ASSUME NEW m \in Messages, NEW c \in Counts
      PROVE  DecodeValue(walk, m, 0, c) \in WalkResults
  <2> DEFINE counted == CountItems(c, m.entries)
  <2>1. c \in WalkResults /\ Refused \in WalkResults
    BY DEF WalkResults
  <2>2. counted # Refused => counted \in Counts
    BY MessageFields, LimitsAreNumbers DEF CountItems, Counts
  <2>3. ASSUME NEW named \in BOOLEAN, counted # Refused
        PROVE  Loop(walk, Messages, named, counted, m.entries) \in WalkResults
    <3> HIDE DEF counted
    <3>1. QED
      BY <2>2, <2>3, MessageFields, LoopType
  <2>4. /\ DecodeObject(walk, m, 0, c) \in WalkResults
        /\ DecodeList(walk, m, c) \in WalkResults
    BY <2>1, <2>3 DEF DecodeObject, DecodeList
  <2>5. QED
    BY <2>1, <2>4 DEF DecodeValue
<1>2. QED
  BY <1>1 DEF DecodeLevel, Walks

LEMMA DecoderDescends ==
    /\ \A d \in 0 .. MaxDepth + 1 : Decoder[d] \in Walks(Messages)
    /\ \A d \in 0 .. MaxDepth : Decoder[d] = DecodeLevel(Decoder[d + 1])
<1> DEFINE S == Walks(Messages)
           F == [walk \in S |-> DecodeLevel(walk)]
           Body(h, d) ==
              [m \in Messages |-> [counter \in Counts |->
                 DecodeValue(h[d + 1], m, d, counter)]]
           Defines(h) == h = [d \in 0 .. MaxDepth + 1 |-> Body(h, d)]
<1>0. Decoder = CHOOSE h : Defines(h)
  BY DEF Decoder
<1>1. RefusingDecoder \in S /\ F \in [S -> S]
  <2>1. RefusingDecoder \in S
    BY DEF RefusingDecoder, Walks, WalkResults
  <2>2. \A walk \in S : DecodeLevel(walk) \in S
    BY DecodeLevelType
  <2>3. QED
    BY <2>1, <2>2
<1>2. PICK g \in [0 .. MaxDepth + 1 -> S] : Iterates(g, MaxDepth + 1, RefusingDecoder, F)
  <2> HIDE DEF S, F
  <2>1. MaxDepth + 1 \in Nat
    BY LimitsAreNumbers
  <2>2. QED
    BY <1>1, <2>1, IterationExists
<1>3. ASSUME NEW h, NEW d \in 0 .. MaxDepth + 1
      PROVE  Body(h, d) = IF d > MaxDepth THEN RefusingDecoder ELSE DecodeLevel(h[d + 1])
  <2>1. CASE d > MaxDepth
    BY <2>1 DEF RefusingDecoder, DecodeValue
  <2>2. CASE d \in 0 .. MaxDepth
    <3>1. ~(d > MaxDepth) /\ ~(0 > MaxDepth)
      BY <2>2, LimitsAreNumbers
    <3>2. ASSUME NEW m \in Messages, NEW c \in Counts
          PROVE  DecodeValue(h[d + 1], m, d, c) = DecodeValue(h[d + 1], m, 0, c)
      BY <3>1 DEF DecodeValue, DecodeObject
    <3>3. QED
      BY <3>1, <3>2 DEF DecodeLevel
  <2>3. QED
    BY <2>1, <2>2, LimitsAreNumbers
<1> HIDE DEF Body
<1> DEFINE r == [d \in 0 .. MaxDepth + 1 |-> g[(MaxDepth + 1) - d]]
<1>4. Defines(r)
  <2>1. ASSUME NEW d \in 0 .. MaxDepth + 1
        PROVE  r[d] = Body(r, d)
    <3>1. (MaxDepth + 1) - d \in 0 .. MaxDepth + 1 /\ r[d] = g[(MaxDepth + 1) - d]
      BY LimitsAreNumbers
    <3>2. CASE d > MaxDepth
      <4>1. (MaxDepth + 1) - d = 0
        BY <3>2, LimitsAreNumbers
      <4>2. r[d] = RefusingDecoder
        BY <1>2, <3>1, <4>1 DEF Iterates
      <4>3. QED
        BY <1>3, <3>2, <4>2
    <3>3. CASE d \in 0 .. MaxDepth
      <4>1. /\ (MaxDepth + 1) - d # 0 /\ d + 1 \in 0 .. MaxDepth + 1 /\ ~(d > MaxDepth)
            /\ ((MaxDepth + 1) - d) - 1 = (MaxDepth + 1) - (d + 1)
            /\ (MaxDepth + 1) - (d + 1) \in 0 .. MaxDepth + 1
        BY <3>3, LimitsAreNumbers
      <4>2. r[d + 1] = g[(MaxDepth + 1) - (d + 1)] /\ r[d + 1] \in S
        BY <4>1
      <4>3. g[(MaxDepth + 1) - d] = F[g[((MaxDepth + 1) - d) - 1]]
        BY <1>2, <3>1, <4>1 DEF Iterates
      <4>4. r[d] = DecodeLevel(r[d + 1])
        BY <3>1, <4>1, <4>2, <4>3
      <4>5. QED
        BY <1>3, <4>1, <4>4
    <3>4. QED
      BY <3>2, <3>3, LimitsAreNumbers
  <2>2. QED
    BY <2>1
<1>5. Defines(Decoder)
  <2> HIDE DEF Defines, r
  <2>1. QED
    BY <1>0, <1>4
<1>6. ASSUME NEW d \in 0 .. MaxDepth + 1
      PROVE  Decoder[d] = IF d > MaxDepth THEN RefusingDecoder ELSE DecodeLevel(Decoder[d + 1])
  <2>1. Decoder[d] = Body(Decoder, d)
    BY <1>5
  <2>2. QED
    BY <1>3, <2>1
<1> DEFINE T == {n \in Nat : n <= MaxDepth + 1 => Decoder[(MaxDepth + 1) - n] \in S}
<1>7. ASSUME NEW d \in 0 .. MaxDepth + 1
      PROVE  Decoder[d] \in S
  <2> HIDE DEF S, F
  <2>1. 0 \in T
    <3>1. (MaxDepth + 1) - 0 = MaxDepth + 1 /\ MaxDepth + 1 \in 0 .. MaxDepth + 1
          /\ MaxDepth + 1 > MaxDepth
      BY LimitsAreNumbers
    <3>2. QED
      BY <1>1, <1>6, <3>1
  <2>2. ASSUME NEW n \in Nat, n \in T
        PROVE  n + 1 \in T
    <3>1. CASE n + 1 <= MaxDepth + 1
      <4>1. /\ (MaxDepth + 1) - (n + 1) \in 0 .. MaxDepth + 1
            /\ ~((MaxDepth + 1) - (n + 1) > MaxDepth)
            /\ ((MaxDepth + 1) - (n + 1)) + 1 = (MaxDepth + 1) - n
            /\ Decoder[(MaxDepth + 1) - n] \in S
        BY <2>2, <3>1, LimitsAreNumbers
      <4>2. Decoder[(MaxDepth + 1) - (n + 1)] = DecodeLevel(Decoder[(MaxDepth + 1) - n])
        BY <1>6, <4>1
      <4>3. DecodeLevel(Decoder[(MaxDepth + 1) - n]) \in S
        BY <4>1, DecodeLevelType DEF S
      <4>4. QED
        BY <4>2, <4>3
    <3>2. QED
      BY <3>1
  <2>3. (MaxDepth + 1) - d \in Nat /\ (MaxDepth + 1) - d <= MaxDepth + 1
        /\ (MaxDepth + 1) - ((MaxDepth + 1) - d) = d
    BY LimitsAreNumbers
  <2>4. (MaxDepth + 1) - d \in T
    <3> HIDE DEF T
    <3>1. QED
      BY <2>1, <2>2, <2>3, SetInduction
  <2>5. QED
    BY <2>3, <2>4
<1>8. ASSUME NEW d \in 0 .. MaxDepth
      PROVE  Decoder[d] = DecodeLevel(Decoder[d + 1])
  BY <1>6, LimitsAreNumbers
<1>9. QED
  BY <1>7, <1>8

LEMMA EncodedValueUnfolds ==
    \A d \in 0 .. MaxDepth : \A v \in Values :
        EncodedValue[d][v] = MessageOf(v, EncodedValue[d + 1])
<1> DEFINE Body(f, d) ==
              [v \in Values |-> IF d > MaxDepth THEN Refused ELSE MessageOf(v, f)]
           Defines(h) == h = [d \in 0 .. MaxDepth + 1 |-> Body(h[d + 1], d)]
           Up(g, n) ==
              g = [i \in 0 .. n |-> IF i = 0 THEN Body(g, MaxDepth + 1)
                                    ELSE Body(g[i - 1], MaxDepth + 1 - i)]
           T == {n \in Nat : \E g : Up(g, n)}
<1>0. EncodedValue = CHOOSE h : Defines(h)
  BY DEF EncodedValue
<1>1. \A f, g : Body(f, MaxDepth + 1) = Body(g, MaxDepth + 1)
  BY LimitsAreNumbers
<1>2. 0 \in T
  <2> DEFINE g == [i \in 0 .. 0 |-> Body({}, MaxDepth + 1)]
  <2> HIDE DEF Body
  <2>1. Up(g, 0)
    <3>1. \A i \in 0 .. 0 : i = 0
      OBVIOUS
    <3>2. g = [i \in 0 .. 0 |-> IF i = 0 THEN Body(g, MaxDepth + 1)
                                ELSE Body(g[i - 1], MaxDepth + 1 - i)]
      BY <1>1, <3>1
    <3>3. QED
      BY <3>2
  <2> HIDE DEF g, Up
  <2>2. QED
    BY <2>1
<1>3. ASSUME NEW n \in Nat, n \in T
      PROVE  n + 1 \in T
  <2>1. PICK g : Up(g, n)
    <3> HIDE DEF Up
    <3>1. QED
      BY <1>3
  <2> DEFINE h == [i \in 0 .. n + 1 |->
                     IF i = n + 1 THEN Body(g[n], MaxDepth + 1 - i) ELSE g[i]]
  <2> HIDE DEF Body
  <2>2. ASSUME NEW i \in 0 .. n + 1
        PROVE  h[i] = IF i = 0 THEN Body(h, MaxDepth + 1)
                      ELSE Body(h[i - 1], MaxDepth + 1 - i)
    <3>1. CASE i = n + 1
      <4>1. i # 0 /\ i - 1 = n /\ n \in 0 .. n + 1 /\ n # n + 1
        BY <3>1
      <4>2. h[n] = g[n] /\ h[i] = Body(g[n], MaxDepth + 1 - i)
        BY <3>1, <4>1
      <4>3. QED
        BY <4>1, <4>2
    <3>2. CASE i \in 0 .. n
      <4>1. h[i] = g[i]
        BY <3>2
      <4>2. g[i] = IF i = 0 THEN Body(g, MaxDepth + 1)
                   ELSE Body(g[i - 1], MaxDepth + 1 - i)
        BY <2>1, <3>2
      <4>3. i # 0 => i - 1 \in 0 .. n + 1 /\ i - 1 # n + 1
        BY <3>2
      <4>4. i # 0 => h[i - 1] = g[i - 1]
        BY <4>3
      <4> HIDE DEF h
      <4>5. QED
        BY <1>1, <4>1, <4>2, <4>4
    <3>3. QED
      BY <3>1, <3>2
  <2>3. Up(h, n + 1)
    <3>1. h = [i \in 0 .. n + 1 |-> h[i]]
      OBVIOUS
    <3> HIDE DEF h
    <3>2. QED
      BY <2>2, <3>1
  <2> HIDE DEF h, Up
  <2>4. QED
    BY <2>3
<1>4. PICK g : Up(g, MaxDepth + 1)
  <2> HIDE DEF Up
  <2>1. MaxDepth + 1 \in Nat
    BY LimitsAreNumbers
  <2>2. MaxDepth + 1 \in T
    <3> HIDE DEF T
    <3>1. QED
      BY <1>2, <1>3, <2>1, SetInduction
  <2>3. QED
    BY <2>2
<1> DEFINE r == [d \in 0 .. MaxDepth + 1 |-> g[(MaxDepth + 1) - d]]
<1> HIDE DEF Body
<1>5. Defines(r)
  <2>1. ASSUME NEW d \in 0 .. MaxDepth + 1
        PROVE  r[d] = Body(r[d + 1], d)
    <3>1. (MaxDepth + 1) - d \in 0 .. MaxDepth + 1 /\ r[d] = g[(MaxDepth + 1) - d]
      BY LimitsAreNumbers
    <3>2. CASE d = MaxDepth + 1
      <4>1. (MaxDepth + 1) - d = 0
        BY <3>2, LimitsAreNumbers
      <4>2. g[0] = Body(g, MaxDepth + 1)
        BY <1>4, <3>1, <4>1
      <4> HIDE DEF r
      <4>3. QED
        BY <1>1, <3>1, <3>2, <4>1, <4>2
    <3>3. CASE d \in 0 .. MaxDepth
      <4>1. /\ (MaxDepth + 1) - d # 0 /\ d + 1 \in 0 .. MaxDepth + 1
            /\ ((MaxDepth + 1) - d) - 1 = (MaxDepth + 1) - (d + 1)
            /\ MaxDepth + 1 - ((MaxDepth + 1) - d) = d
        BY <3>3, LimitsAreNumbers
      <4>2. r[d + 1] = g[(MaxDepth + 1) - (d + 1)]
        BY <4>1
      <4>3. g[(MaxDepth + 1) - d] =
                Body(g[((MaxDepth + 1) - d) - 1], MaxDepth + 1 - ((MaxDepth + 1) - d))
        BY <1>4, <3>1, <4>1
      <4> HIDE DEF r
      <4>4. QED
        BY <3>1, <4>1, <4>2, <4>3
    <3>4. QED
      BY <3>2, <3>3, LimitsAreNumbers
  <2>2. QED
    BY <2>1
<1>6. Defines(EncodedValue)
  <2> HIDE DEF Defines, r
  <2>1. QED
    BY <1>0, <1>5
<1>7. ASSUME NEW d \in 0 .. MaxDepth, NEW v \in Values
      PROVE  EncodedValue[d][v] = MessageOf(v, EncodedValue[d + 1])
  <2>1. EncodedValue[d] = Body(EncodedValue[d + 1], d) /\ ~(d > MaxDepth)
    BY <1>6, LimitsAreNumbers
  <2>2. QED
    BY <2>1 DEF Body
<1>8. QED
  BY <1>7

LEMMA DecodedValueUnfolds ==
    \A d \in 0 .. MaxDepth : \A m \in Messages :
        DecodedValue[d][m] = ValueOf(m, DecodedValue[d + 1])
<1> DEFINE Body(f, d) ==
              [m \in Messages |-> IF d > MaxDepth THEN Refused ELSE ValueOf(m, f)]
           Defines(h) == h = [d \in 0 .. MaxDepth + 1 |-> Body(h[d + 1], d)]
           Up(g, n) ==
              g = [i \in 0 .. n |-> IF i = 0 THEN Body(g, MaxDepth + 1)
                                    ELSE Body(g[i - 1], MaxDepth + 1 - i)]
           T == {n \in Nat : \E g : Up(g, n)}
<1>0. DecodedValue = CHOOSE h : Defines(h)
  BY DEF DecodedValue
<1>1. \A f, g : Body(f, MaxDepth + 1) = Body(g, MaxDepth + 1)
  BY LimitsAreNumbers
<1>2. 0 \in T
  <2> DEFINE g == [i \in 0 .. 0 |-> Body({}, MaxDepth + 1)]
  <2> HIDE DEF Body
  <2>1. Up(g, 0)
    <3>1. \A i \in 0 .. 0 : i = 0
      OBVIOUS
    <3>2. g = [i \in 0 .. 0 |-> IF i = 0 THEN Body(g, MaxDepth + 1)
                                ELSE Body(g[i - 1], MaxDepth + 1 - i)]
      BY <1>1, <3>1
    <3>3. QED
      BY <3>2
  <2> HIDE DEF g, Up
  <2>2. QED
    BY <2>1
<1>3. ASSUME NEW n \in Nat, n \in T
      PROVE  n + 1 \in T
  <2>1. PICK g : Up(g, n)
    <3> HIDE DEF Up
    <3>1. QED
      BY <1>3
  <2> DEFINE h == [i \in 0 .. n + 1 |->
                     IF i = n + 1 THEN Body(g[n], MaxDepth + 1 - i) ELSE g[i]]
  <2> HIDE DEF Body
  <2>2. ASSUME NEW i \in 0 .. n + 1
        PROVE  h[i] = IF i = 0 THEN Body(h, MaxDepth + 1)
                      ELSE Body(h[i - 1], MaxDepth + 1 - i)
    <3>1. CASE i = n + 1
      <4>1. i # 0 /\ i - 1 = n /\ n \in 0 .. n + 1 /\ n # n + 1
        BY <3>1
      <4>2. h[n] = g[n] /\ h[i] = Body(g[n], MaxDepth + 1 - i)
        BY <3>1, <4>1
      <4>3. QED
        BY <4>1, <4>2
    <3>2. CASE i \in 0 .. n
      <4>1. h[i] = g[i]
        BY <3>2
      <4>2. g[i] = IF i = 0 THEN Body(g, MaxDepth + 1)
                   ELSE Body(g[i - 1], MaxDepth + 1 - i)
        BY <2>1, <3>2
      <4>3. i # 0 => i - 1 \in 0 .. n + 1 /\ i - 1 # n + 1
        BY <3>2
      <4>4. i # 0 => h[i - 1] = g[i - 1]
        BY <4>3
      <4> HIDE DEF h
      <4>5. QED
        BY <1>1, <4>1, <4>2, <4>4
    <3>3. QED
      BY <3>1, <3>2
  <2>3. Up(h, n + 1)
    <3>1. h = [i \in 0 .. n + 1 |-> h[i]]
      OBVIOUS
    <3> HIDE DEF h
    <3>2. QED
      BY <2>2, <3>1
  <2> HIDE DEF h, Up
  <2>4. QED
    BY <2>3
<1>4. PICK g : Up(g, MaxDepth + 1)
  <2> HIDE DEF Up
  <2>1. MaxDepth + 1 \in Nat
    BY LimitsAreNumbers
  <2>2. MaxDepth + 1 \in T
    <3> HIDE DEF T
    <3>1. QED
      BY <1>2, <1>3, <2>1, SetInduction
  <2>3. QED
    BY <2>2
<1> DEFINE r == [d \in 0 .. MaxDepth + 1 |-> g[(MaxDepth + 1) - d]]
<1> HIDE DEF Body
<1>5. Defines(r)
  <2>1. ASSUME NEW d \in 0 .. MaxDepth + 1
        PROVE  r[d] = Body(r[d + 1], d)
    <3>1. (MaxDepth + 1) - d \in 0 .. MaxDepth + 1 /\ r[d] = g[(MaxDepth + 1) - d]
      BY LimitsAreNumbers
    <3>2. CASE d = MaxDepth + 1
      <4>1. (MaxDepth + 1) - d = 0
        BY <3>2, LimitsAreNumbers
      <4>2. g[0] = Body(g, MaxDepth + 1)
        BY <1>4, <3>1, <4>1
      <4> HIDE DEF r
      <4>3. QED
        BY <1>1, <3>1, <3>2, <4>1, <4>2
    <3>3. CASE d \in 0 .. MaxDepth
      <4>1. /\ (MaxDepth + 1) - d # 0 /\ d + 1 \in 0 .. MaxDepth + 1
            /\ ((MaxDepth + 1) - d) - 1 = (MaxDepth + 1) - (d + 1)
            /\ MaxDepth + 1 - ((MaxDepth + 1) - d) = d
        BY <3>3, LimitsAreNumbers
      <4>2. r[d + 1] = g[(MaxDepth + 1) - (d + 1)]
        BY <4>1
      <4>3. g[(MaxDepth + 1) - d] =
                Body(g[((MaxDepth + 1) - d) - 1], MaxDepth + 1 - ((MaxDepth + 1) - d))
        BY <1>4, <3>1, <4>1
      <4> HIDE DEF r
      <4>4. QED
        BY <3>1, <4>1, <4>2, <4>3
    <3>4. QED
      BY <3>2, <3>3, LimitsAreNumbers
  <2>2. QED
    BY <2>1
<1>6. Defines(DecodedValue)
  <2> HIDE DEF Defines, r
  <2>1. QED
    BY <1>0, <1>5
<1>7. ASSUME NEW d \in 0 .. MaxDepth, NEW m \in Messages
      PROVE  DecodedValue[d][m] = ValueOf(m, DecodedValue[d + 1])
  <2>1. DecodedValue[d] = Body(DecodedValue[d + 1], d) /\ ~(d > MaxDepth)
    BY <1>6, LimitsAreNumbers
  <2>2. QED
    BY <2>1 DEF Body
<1>8. QED
  BY <1>7

\* Two loops over entries that their walks treat alike come to the same.
LEMMA LoopsAgree ==
    ASSUME NEW walk \in Walks(Values), NEW decoder \in Walks(Messages),
           NEW named \in BOOLEAN, NEW count \in Counts,
           NEW entries \in Seq(Entries(Values)), NEW fields \in Seq(Entries(Messages)),
           Len(fields) = Len(entries),
           \A i \in 1 .. Len(entries) :
                /\ fields[i].key = entries[i].key
                /\ \A c \in Counts : decoder[fields[i].value][c] = walk[entries[i].value][c]
    PROVE  Loop(decoder, Messages, named, count, fields) =
             Loop(walk, Values, named, count, entries)
<1> DEFINE m == Len(entries)
           turn == Turn(walk, Values, named)
           other == Turn(decoder, Messages, named)
<1>1. /\ m \in Nat
      /\ \A i \in 1 .. m : entries[i] \in Entries(Values) /\ fields[i] \in Entries(Messages)
  OBVIOUS
<1>2. count \in WalkResults
  BY DEF WalkResults
<1>3. PICK g \in [0 .. m -> WalkResults] : FoldsAlong(g, turn, count, entries)
  <2>1. turn \in [WalkResults -> [Entries(Values) -> WalkResults]]
    BY TurnType
  <2> HIDE DEF turn
  <2>2. QED
    BY <1>2, <2>1, FoldAlong
<1>4. PICK h \in [0 .. m -> WalkResults] : FoldsAlong(h, other, count, fields)
  <2>1. other \in [WalkResults -> [Entries(Messages) -> WalkResults]]
    BY TurnType
  <2> HIDE DEF other
  <2>2. \E h \in [0 .. Len(fields) -> WalkResults] : FoldsAlong(h, other, count, fields)
    BY <1>2, <2>1, FoldAlong
  <2>3. QED
    BY <2>2
<1> DEFINE T == {k \in Nat : k <= m => h[k] = g[k]}
<1>5. 0 \in T
  BY <1>3, <1>4 DEF FoldsAlong
<1>6. ASSUME NEW k \in Nat, k \in T
      PROVE  k + 1 \in T
  <2>1. CASE k + 1 <= m
    <3>1. k + 1 \in 1 .. m /\ (k + 1) - 1 = k /\ k \in 0 .. m /\ h[k] = g[k]
      BY <1>1, <1>6, <2>1
    <3> DEFINE e == entries[k + 1]
               f == fields[k + 1]
    <3>2. e \in Entries(Values) /\ f \in Entries(Messages) /\ f.key = e.key
      BY <1>1, <3>1
    <3>3. g[k + 1] = turn[g[k]][e] /\ g[k] \in WalkResults
      BY <1>3, <3>1 DEF FoldsAlong
    <3>4. h[k + 1] = other[g[k]][f]
      BY <1>4, <3>1 DEF FoldsAlong
    <3>5. g[k] # Refused => decoder[f.value][g[k]] = walk[e.value][g[k]]
      BY <3>1, <3>3 DEF WalkResults
    <3>6. turn[g[k]][e] = IF g[k] = Refused \/ (named /\ ~StringFits(e.key)) THEN Refused
                          ELSE walk[e.value][g[k]]
      BY <3>2, <3>3 DEF Turn, WalkResults
    <3>7. other[g[k]][f] = IF g[k] = Refused \/ (named /\ ~StringFits(f.key)) THEN Refused
                           ELSE decoder[f.value][g[k]]
      BY <3>2, <3>3 DEF Turn, WalkResults
    <3> HIDE DEF e, f, turn, other
    <3>8. QED
      BY <3>2, <3>3, <3>4, <3>5, <3>6, <3>7
  <2>2. QED
    BY <2>1
<1>7. h[m] = g[m]
  <2>1. m \in T
    <3> HIDE DEF T, m
    <3>1. QED
      BY <1>1, <1>5, <1>6, SetInduction
  <2>2. QED
    BY <1>1, <2>1
<1>8. QED
  BY <1>3, <1>4, <1>7 DEF Loop, FoldsAlong

LEMMA KindsReturn ==
    /\ DOMAIN Fields = {"null", "bool", "integer", "float", "string", "object", "list"}
    /\ \A kind \in DOMAIN Fields : KindOf(Fields[kind]) = kind
    /\ Fields["null"] = "null_value" /\ Fields["bool"] = "bool_value"
    /\ Fields["integer"] = "integer_value" /\ Fields["float"] = "float_value"
    /\ Fields["string"] = "string_value" /\ Fields["object"] = "object_value"
    /\ Fields["list"] = "list_value"
<1>1. DOMAIN Fields = {"null", "bool", "integer", "float", "string", "object", "list"}
  BY DEF Fields
<1>2. /\ Fields["null"] = "null_value" /\ Fields["bool"] = "bool_value"
      /\ Fields["integer"] = "integer_value" /\ Fields["float"] = "float_value"
      /\ Fields["string"] = "string_value" /\ Fields["object"] = "object_value"
      /\ Fields["list"] = "list_value"
  BY DEF Fields
<1>3. \A j, k \in DOMAIN Fields : Fields[j] = Fields[k] => j = k
  BY <1>1, <1>2
<1>4. ASSUME NEW kind \in DOMAIN Fields
      PROVE  KindOf(Fields[kind]) = kind
  BY <1>3 DEF KindOf
<1>5. QED
  BY <1>1, <1>2, <1>4

\* The entries of an encoded value, and those of what is decoded from it.
LEMMA EntriesReturn ==
    ASSUME NEW entries \in Seq(Entries(Values)), NEW encoded, NEW decoded,
           \A i \in 1 .. Len(entries) : decoded[encoded[entries[i].value]] = entries[i].value
    PROVE  LET fields == Nest(entries, encoded)
           IN  /\ DOMAIN fields = 1 .. Len(entries)
               /\ \A i \in 1 .. Len(entries) :
                    /\ fields[i].key = entries[i].key
                    /\ fields[i].value = encoded[entries[i].value]
               /\ Nest(fields, decoded) = entries
<1> DEFINE fields == Nest(entries, encoded)
           m == Len(entries)
<1>1. /\ m \in Nat /\ DOMAIN entries = 1 .. m /\ entries = [i \in 1 .. m |-> entries[i]]
      /\ \A i \in 1 .. m : entries[i] \in Entries(Values)
  OBVIOUS
<1>2. \A i \in 1 .. m : /\ entries[i] \in [key : Nat, value : Values]
                        /\ DOMAIN entries[i] = {"key", "value"}
  BY <1>1 DEF Entries
<1>3. /\ DOMAIN fields = 1 .. m
      /\ \A i \in 1 .. m : fields[i] = [entries[i] EXCEPT !.value = encoded[@]]
  BY <1>1 DEF Nest
<1>4. ASSUME NEW i \in 1 .. m
      PROVE  /\ fields[i] = [key |-> entries[i].key, value |-> encoded[entries[i].value]]
             /\ [fields[i] EXCEPT !.value = decoded[@]] = entries[i]
  <2>1. entries[i] = [key |-> entries[i].key, value |-> entries[i].value]
    BY <1>2
  <2>2. fields[i] = [key |-> entries[i].key, value |-> encoded[entries[i].value]]
    BY <1>3, <2>1
  <2>3. [fields[i] EXCEPT !.value = decoded[@]] =
            [key |-> entries[i].key, value |-> decoded[encoded[entries[i].value]]]
    BY <2>2
  <2>4. QED
    BY <2>1, <2>2, <2>3
<1>5. Nest(fields, decoded) = [i \in 1 .. m |-> [fields[i] EXCEPT !.value = decoded[@]]]
  <2> HIDE DEF fields
  <2>1. QED
    BY <1>3 DEF Nest
<1>6. Nest(fields, decoded) = entries
  <2> HIDE DEF fields
  <2>1. QED
    BY <1>1, <1>4, <1>5
<1>7. ASSUME NEW i \in 1 .. m
      PROVE  /\ fields[i].key = entries[i].key
             /\ fields[i].value = encoded[entries[i].value]
  <2> HIDE DEF fields
  <2>1. fields[i] = [key |-> entries[i].key, value |-> encoded[entries[i].value]]
    BY <1>4
  <2>2. QED
    BY <2>1
<1>8. DOMAIN fields = 1 .. m
  BY <1>3
<1> HIDE DEF fields
<1>9. /\ DOMAIN fields = 1 .. Len(entries)
      /\ \A i \in 1 .. Len(entries) :
            /\ fields[i].key = entries[i].key
            /\ fields[i].value = encoded[entries[i].value]
      /\ Nest(fields, decoded) = entries
  BY <1>6, <1>7, <1>8
<1>10. QED
  BY <1>9, Zenon DEF fields

\* The message of a value at a depth is walked like the value, and reads as the value.
Returns(d) ==
    \A v \in Values :
        Nests[MaxDepth - d][v] /\ EncodedValue[d][v] \in Messages =>
            /\ \A c \in Counts :
                Decoder[d][EncodedValue[d][v]][c] = Exact(MaxDepth - d, v, c)
            /\ DecodedValue[d][EncodedValue[d][v]] = v

LEMMA LevelReturns ==
    ASSUME NEW d \in 0 .. MaxDepth, d < MaxDepth => Returns(d + 1)
    PROVE  Returns(d)
<1> DEFINE n == MaxDepth - d
           encoded == EncodedValue[d + 1]
           decoded == DecodedValue[d + 1]
           decoder == Decoder[d + 1]
           walk == IF n = 0 THEN RefusingWalk ELSE ExactWalk(n - 1)
<1> SUFFICES ASSUME NEW v \in Values, Nests[n][v], EncodedValue[d][v] \in Messages
             PROVE  /\ \A c \in Counts : Decoder[d][EncodedValue[d][v]][c] = Exact(n, v, c)
                    /\ DecodedValue[d][EncodedValue[d][v]] = v
  BY DEF Returns
<1> DEFINE msg == EncodedValue[d][v]
           es == v.entries
           fs == msg.entries
           m == Len(es)
<1>1. /\ n \in 0 .. MaxDepth /\ d + 1 \in 0 .. MaxDepth + 1
      /\ n # 0 => n \in 1 .. MaxDepth /\ d < MaxDepth /\ MaxDepth - (d + 1) = n - 1
      /\ n - 1 \in Int
  BY LimitsAreNumbers
<1>2. msg = MessageOf(v, encoded)
  BY EncodedValueUnfolds
<1>3. msg.kind = Fields[v.kind] /\ msg.data = v.data /\ fs = Nest(es, encoded)
  BY <1>2 DEF MessageOf, OneOf
<1>4. /\ v.kind \in DOMAIN Fields
      /\ Sound(v)
      /\ n = 0 => es = << >>
      /\ n # 0 => \A i \in 1 .. m : Nests[n - 1][es[i].value]
  <2>1. Sound(v) /\ (n = 0 => es = << >>)
    BY <1>1, NestsUnfolds
  <2>2. n # 0 => \A i \in 1 .. m : Nests[n - 1][es[i].value]
    BY <1>1, NestsUnfolds, ValueFields
  <2>3. v.kind \in DOMAIN Fields
    BY <2>1, ValueFields DEF Sound
  <2>4. QED
    BY <2>1, <2>2, <2>3
<1>5. /\ es \in Seq(Entries(Values)) /\ m \in Nat /\ v.data \in Nat
      /\ \A i \in 1 .. m : es[i].value \in Values
  BY ValueFields
<1>6. /\ DOMAIN fs = 1 .. m
      /\ \A i \in 1 .. m : fs[i].key = es[i].key /\ fs[i].value = encoded[es[i].value]
  <2>1. DOMAIN es = 1 .. m /\ \A i \in 1 .. m : es[i] \in [key : Nat, value : Values]
    BY ValueFields DEF Entries
  <2>2. /\ DOMAIN fs = 1 .. m
        /\ \A i \in 1 .. m : fs[i] = [es[i] EXCEPT !.value = encoded[@]]
    BY <1>3, <2>1 DEF Nest
  <2>3. QED
    BY <2>1, <2>2
<1>7. /\ fs \in Seq(Entries(Messages)) /\ Len(fs) = m
      /\ \A i \in 1 .. m : fs[i].value \in Messages
  <2>1. /\ fs \in Seq(Entries(Messages)) /\ Len(fs) \in Nat /\ DOMAIN fs = 1 .. Len(fs)
        /\ \A i \in 1 .. Len(fs) : fs[i].value \in Messages
    BY MessageFields
  <2>2. Len(fs) = m
    BY <1>5, <1>6, <2>1
  <2>3. QED
    BY <2>1, <2>2
<1>8. ASSUME NEW i \in 1 .. m
      PROVE  /\ \A c \in Counts : decoder[fs[i].value][c] = walk[es[i].value][c]
             /\ decoded[encoded[es[i].value]] = es[i].value
  <2>1. n # 0
    <3>1. es = << >> => m = 0
      OBVIOUS
    <3>2. QED
      BY <1>4, <3>1
  <2>2. Returns(d + 1) /\ Nests[n - 1][es[i].value] /\ es[i].value \in Values
    BY <1>1, <1>4, <1>5, <2>1
  <2>3. encoded[es[i].value] \in Messages /\ fs[i].value = encoded[es[i].value]
    BY <1>6, <1>7
  <2>4. /\ \A c \in Counts : decoder[encoded[es[i].value]][c] = Exact(n - 1, es[i].value, c)
        /\ decoded[encoded[es[i].value]] = es[i].value
    <3> DEFINE x == es[i].value
    <3>1. d + 1 \in 0 .. MaxDepth /\ MaxDepth - (d + 1) = n - 1
      BY <1>1, <2>1, LimitsAreNumbers
    <3>2. Returns(d + 1) /\ x \in Values /\ encoded[x] \in Messages
      BY <2>2, <2>3
    <3>3. Nests[MaxDepth - (d + 1)][x]
      BY <2>2, <3>1
    <3> HIDE DEF x, es, n
    <3>4. /\ \A c \in Counts : decoder[encoded[x]][c] = Exact(MaxDepth - (d + 1), x, c)
          /\ decoded[encoded[x]] = x
      BY <3>2, <3>3, Zenon DEF Returns, encoded, decoder, decoded
    <3>5. QED
      BY <3>1, <3>4 DEF x
  <2>5. \A c \in Counts : walk[es[i].value][c] = Exact(n - 1, es[i].value, c)
    BY <2>1, <2>2 DEF ExactWalk
  <2>6. QED
    BY <2>3, <2>4, <2>5
<1> HIDE DEF es, fs, m, msg, encoded, decoded, decoder, walk, n
<1>9. DecodedValue[d][msg] = v
  <2>1. DecodedValue[d][msg] = ValueOf(msg, decoded)
    BY DecodedValueUnfolds DEF msg, decoded
  <2>2. Nest(fs, decoded) = es
    BY <1>3, <1>5, <1>8, EntriesReturn DEF m
  <2>3. ValueOf(msg, decoded) = [kind |-> v.kind, data |-> v.data, entries |-> es]
    BY <1>3, <1>4, <2>2, KindsReturn DEF ValueOf, fs
  <2>4. v = [kind |-> v.kind, data |-> v.data, entries |-> v.entries]
    BY ValuesAssumption
  <2>5. QED
    BY <2>1, <2>3, <2>4 DEF es
<1>10. ASSUME NEW c \in Counts
       PROVE  Decoder[d][msg][c] = Exact(n, v, c)
  <2>1. Decoder[d][msg][c] = DecodeValue(decoder, msg, 0, c) /\ ~(0 > MaxDepth)
    <3>1. Decoder[d] = DecodeLevel(decoder) /\ msg \in Messages
      BY DecoderDescends DEF msg, decoder
    <3>2. DecodeLevel(decoder)[msg][c] = DecodeValue(decoder, msg, 0, c)
      BY <3>1 DEF DecodeLevel
    <3>3. QED
      BY <3>1, <3>2, LimitsAreNumbers
  <2>2. CASE v.kind \in {"object", "list"}
    <3> DEFINE named == v.kind = "object"
               counted == CountItems(c, fs)
    <3>1. c \in Nat /\ c + m \in Nat /\ MaxItems \in Nat
      BY <1>5, LimitsAreNumbers DEF Counts
    <3>2. Exact(n, v, c) = CollectionExact(n, v, c)
      BY <1>1, <2>2, CollectionIsExact
    <3>3. CollectionExact(n, v, c) = IF c + m > MaxItems THEN Refused
                                     ELSE Loop(walk, Values, named, c + m, es)
      BY DEF CollectionExact, walk, es, m
    <3>4. counted = IF c + m > MaxItems THEN Refused ELSE c + m
      BY <1>7 DEF CountItems
    <3>5. c + m # Refused
      BY <3>1 DEF Refused
    <3>6. DecodeValue(decoder, msg, 0, c) =
            IF counted = Refused THEN Refused
            ELSE Loop(decoder, Messages, named, counted, fs)
      <4>1. CASE v.kind = "object"
        <5>1. msg.kind = "object_value" /\ named = TRUE
          BY <1>3, <4>1, KindsReturn
        <5> HIDE DEF named, counted
        <5>2. DecodeValue(decoder, msg, 0, c) = DecodeObject(decoder, msg, 0, c)
          BY <2>1, <5>1 DEF DecodeValue
        <5>3. QED
          BY <2>1, <5>1, <5>2 DEF DecodeObject, fs, counted
      <4>2. CASE v.kind = "list"
        <5>1. msg.kind = "list_value" /\ named = FALSE
          BY <1>3, <4>2, KindsReturn
        <5> HIDE DEF named, counted
        <5>2. DecodeValue(decoder, msg, 0, c) = DecodeList(decoder, msg, c)
          BY <2>1, <5>1 DEF DecodeValue
        <5>3. QED
          BY <5>1, <5>2 DEF DecodeList, fs, counted
      <4>3. QED
        BY <2>2, <4>1, <4>2
    <3>7. c + m <= MaxItems => Loop(decoder, Messages, named, c + m, fs) =
                                Loop(walk, Values, named, c + m, es)
      <4>1. SUFFICES ASSUME c + m <= MaxItems
                     PROVE  Loop(decoder, Messages, named, c + m, fs) =
                              Loop(walk, Values, named, c + m, es)
        OBVIOUS
      <4>2. c + m \in Counts /\ named \in BOOLEAN
        BY <3>1, <4>1 DEF Counts
      <4>3. decoder \in Walks(Messages)
        BY <1>1, DecoderDescends DEF decoder
      <4>4. walk \in Walks(Values)
        <5>1. n # 0 => n - 1 \in 0 .. MaxDepth
          BY <1>1, LimitsAreNumbers
        <5>2. RefusingWalk \in Walks(Values)
          BY DEF RefusingWalk, Walks, WalkResults
        <5>3. QED
          BY <5>1, <5>2, ExactType DEF walk
      <4>5. Len(fs) = Len(es) /\ \A i \in 1 .. Len(es) :
                /\ fs[i].key = es[i].key
                /\ \A k \in Counts : decoder[fs[i].value][k] = walk[es[i].value][k]
        BY <1>6, <1>7, <1>8 DEF m
      <4> HIDE DEF named
      <4>6. QED
        BY <1>5, <1>7, <4>2, <4>3, <4>4, <4>5, LoopsAgree
    <3> HIDE DEF named, counted
    <3>8. QED
      BY <2>1, <3>1, <3>2, <3>3, <3>4, <3>5, <3>6, <3>7
  <2>3. CASE v.kind \notin {"object", "list"}
    <3>1. v.kind \in {"null", "bool", "integer", "float", "string"}
      BY <1>4, <2>3, KindsReturn
    <3>2. v.kind \in {"integer", "float"} => v.data = 0
      BY <1>4 DEF Sound
    <3>3. Exact(n, v, c) =
             CASE v.kind \in {"null", "bool"} -> c
               [] v.kind \in {"integer", "float"} -> IF v.data = 0 THEN c ELSE Refused
               [] v.kind = "string" -> IF StringFits(v.data) THEN c ELSE Refused
               [] OTHER -> Refused
      BY <1>1, <2>3, ScalarExact
    <3>4. CASE v.kind \in {"null", "bool", "integer"}
      <4>1. msg.kind \in {"null_value", "bool_value", "integer_value"}
        BY <1>3, <3>4, KindsReturn
      <4>2. DecodeValue(decoder, msg, 0, c) = c
        BY <2>1, <4>1 DEF DecodeValue
      <4>3. Exact(n, v, c) = c
        BY <3>2, <3>3, <3>4
      <4>4. QED
        BY <2>1, <4>2, <4>3
    <3>5. CASE v.kind = "float"
      <4>1. msg.kind = "float_value" /\ msg.data = 0
        BY <1>3, <3>2, <3>5, KindsReturn
      <4>2. DecodeValue(decoder, msg, 0, c) = c
        BY <2>1, <4>1 DEF DecodeValue
      <4>3. Exact(n, v, c) = c
        BY <3>2, <3>3, <3>5
      <4>4. QED
        BY <2>1, <4>2, <4>3
    <3>6. CASE v.kind = "string"
      <4>1. msg.kind = "string_value" /\ msg.data = v.data
        BY <1>3, <3>6, KindsReturn
      <4>2. DecodeValue(decoder, msg, 0, c) = IF StringFits(v.data) THEN c ELSE Refused
        BY <2>1, <4>1 DEF DecodeValue
      <4>3. Exact(n, v, c) = IF StringFits(v.data) THEN c ELSE Refused
        BY <3>3, <3>6
      <4>4. QED
        BY <2>1, <4>2, <4>3
    <3>7. QED
      BY <3>1, <3>4, <3>5, <3>6
  <2>4. QED
    BY <2>2, <2>3
<1>11. QED
  BY <1>9, <1>10 DEF msg

LEMMA EveryLevelReturns == Returns(0)
<1> DEFINE T == {n \in Nat : n <= MaxDepth => Returns(MaxDepth - n)}
<1>1. 0 \in T
  <2>1. MaxDepth \in 0 .. MaxDepth /\ ~(MaxDepth < MaxDepth) /\ MaxDepth - 0 = MaxDepth
    BY LimitsAreNumbers
  <2>2. Returns(MaxDepth)
    BY <2>1, LevelReturns
  <2>3. QED
    BY <2>1, <2>2
<1>2. ASSUME NEW n \in Nat, n \in T
      PROVE  n + 1 \in T
  <2>1. CASE n + 1 <= MaxDepth
    <3>1. /\ MaxDepth - (n + 1) \in 0 .. MaxDepth /\ n <= MaxDepth
          /\ (MaxDepth - (n + 1)) + 1 = MaxDepth - n
      BY <2>1, LimitsAreNumbers
    <3>2. Returns((MaxDepth - (n + 1)) + 1)
      BY <1>2, <3>1
    <3>3. Returns(MaxDepth - (n + 1))
      BY <3>1, <3>2, LevelReturns
    <3>4. QED
      BY <3>3
  <2>2. QED
    BY <2>1
<1>3. MaxDepth \in T
  <2> HIDE DEF T
  <2>1. QED
    BY <1>1, <1>2, LimitsAreNumbers, SetInduction
<1>4. MaxDepth - MaxDepth = 0 /\ MaxDepth <= MaxDepth
  BY LimitsAreNumbers
<1>5. QED
  BY <1>3, <1>4

\* A canonical object is sent as a message that decodes to the object.
LEMMA ObjectReturns ==
    ASSUME NEW o \in Values, o.kind = "object", Canonical(o), Encoded(o) \in Messages
    PROVE  Decodes(Encoded(o)) /\ Decoded(Encoded(o)) = o
<1>1. /\ 0 \in 0 .. MaxDepth /\ 0 \in Counts /\ MaxDepth - 0 = MaxDepth /\ 0 + 1 = 1
      /\ ~(0 > MaxDepth)
  BY LimitsAreNumbers DEF Counts
<1>2. Nests[MaxDepth][o]
  BY DEF Canonical
<1>3. /\ Decoder[0][Encoded(o)][0] = Exact(MaxDepth, o, 0)
      /\ DecodedValue[0][Encoded(o)] = o
  BY <1>1, <1>2, EveryLevelReturns DEF Returns, Encoded
<1>4. Encoded(o).kind = "object_value"
  <2>1. Encoded(o) = MessageOf(o, EncodedValue[1])
    BY <1>1, EncodedValueUnfolds DEF Encoded
  <2>2. QED
    BY <2>1, KindsReturn DEF MessageOf, OneOf
<1>5. Decoder[0][Encoded(o)][0] = DecodeObject(Decoder[1], Encoded(o), 0, 0)
  <2>1. Decoder[0][Encoded(o)][0] = DecodeValue(Decoder[1], Encoded(o), 0, 0)
    <3>1. Decoder[0] = DecodeLevel(Decoder[1])
      BY <1>1, DecoderDescends
    <3>2. DecodeLevel(Decoder[1])[Encoded(o)][0] = DecodeValue(Decoder[1], Encoded(o), 0, 0)
      BY <1>1 DEF DecodeLevel
    <3>3. QED
      BY <3>1, <3>2
  <2>2. QED
    BY <1>1, <1>4, <2>1 DEF DecodeValue
<1>6. QED
  BY <1>3, <1>5, WalksAreExact DEF Decodes, Decoded

----
(* The inductive invariant and the properties *)

Arguments == [of : {"arguments"}, object : Objects, fits : BOOLEAN]

Inputs ==
    Arguments \cup ToolAnswers \cup AbortAnswers \cup LeaseAnswers \cup RunAnswers
              \cup CloseAnswers

IInv ==
    /\ message \in Inputs
    /\ LimitsAgree
    /\ RoundTrip
    /\ DecodedIsAccepted

LEMMA InputKinds ==
    ASSUME message \in Inputs
    PROVE  /\ message.of = "arguments" => message \in Arguments
           /\ message.of = "call_tool" => message \in ToolAnswers
           /\ message.of = "abort_task" => message \in AbortAnswers
           /\ message.of = "lease_task" => message \in LeaseAnswers
           /\ message.of = "create_run" => message \in RunAnswers
           /\ message.of = "close_run" => message \in CloseAnswers
<1>1. /\ \A a \in Arguments : a.of = "arguments"
      /\ \A a \in ToolAnswers : a.of = "call_tool"
      /\ \A a \in AbortAnswers : a.of = "abort_task"
      /\ \A a \in LeaseAnswers : a.of = "lease_task"
      /\ \A a \in RunAnswers : a.of = "create_run"
      /\ \A a \in CloseAnswers : a.of = "close_run"
  BY DEF Arguments, ToolAnswers, AbortAnswers, LeaseAnswers, RunAnswers, CloseAnswers
<1>2. QED
  BY <1>1 DEF Inputs

\* The walks of an object that is given as an argument.
LEMMA ArgumentWalks ==
    ASSUME message \in Inputs, message.of = "arguments"
    PROVE  /\ message.object \in Values /\ message.object.kind = "object"
           /\ message.fits \in BOOLEAN
           /\ IsValid(message.object) <=> Canonical(message.object)
           /\ Encodes(message.object) <=> Canonical(message.object)
           /\ Canonical(message.object) =>
                /\ Decodes(Encoded(message.object))
                /\ Decoded(Encoded(message.object)) = message.object
<1>1. message.object \in Objects /\ message.fits \in BOOLEAN
  BY InputKinds DEF Arguments
<1>2. /\ message.object \in Values /\ message.object.kind = "object"
      /\ Encodes(message.object) => Encoded(message.object) \in Messages
  BY <1>1, CodecAssumption
<1>3. /\ IsValid(message.object) <=> Canonical(message.object)
      /\ Encodes(message.object) <=> Canonical(message.object)
  BY <1>2, WalksAreExact
<1>4. Canonical(message.object) =>
        /\ Decodes(Encoded(message.object))
        /\ Decoded(Encoded(message.object)) = message.object
  BY <1>2, <1>3, ObjectReturns
<1>5. QED
  BY <1>1, <1>2, <1>3, <1>4

LEMMA StepSends ==
    ASSUME IInv, Send, UNCHANGED message
    PROVE  IInv'
<1> DEFINE o == message.object
<1>1. message \in Inputs /\ message.of = "arguments" /\ message' = message
  BY DEF IInv, Send
<1>2. /\ IsValid(o) <=> Canonical(o)
      /\ Encodes(o) <=> Canonical(o)
      /\ Canonical(o) => Decodes(Encoded(o)) /\ Decoded(Encoded(o)) = o
  BY <1>1, ArgumentWalks
<1>3. outcome' = IF ~Canonical(o) THEN [at |-> "client", sent |-> None]
                 ELSE IF message.fits THEN [at |-> "wire", sent |-> Encoded(o)]
                 ELSE [at |-> "codec", sent |-> None]
  BY <1>2 DEF Send
<1>4. /\ outcome'.at = "codec" <=> Canonical(o) /\ ~message.fits
      /\ outcome'.sent # None => Canonical(o) /\ outcome'.sent = Encoded(o)
      /\ outcome'.at # "session"
  BY <1>3
<1> HIDE DEF o
<1>5. LimitsAgree'
  BY <1>1, <1>2, <1>4 DEF LimitsAgree, o
<1>6. RoundTrip'
  BY <1>1, <1>2, <1>4 DEF RoundTrip, o
<1>7. DecodedIsAccepted'
  BY <1>4 DEF DecodedIsAccepted
<1>8. QED
  BY <1>1, <1>5, <1>6, <1>7 DEF IInv, Inputs, Arguments

LEMMA StepReceives ==
    ASSUME IInv, ReceiveTool \/ ReceiveAbort \/ ReceiveLease \/ ReceiveRun \/ ReceiveClose,
           UNCHANGED message
    PROVE  IInv'
<1>1. message \in Inputs /\ message' = message /\ message.of # "arguments"
  BY DEF IInv, ReceiveTool, ReceiveAbort, ReceiveLease, ReceiveRun, ReceiveClose
<1>2. /\ None \notin Completions /\ None \notin RunStates /\ None # "session"
      /\ None # "active"
  BY NoneAssumption DEF RunStates
<1>3. DecodedIsAccepted'
  <2>1. CASE ReceiveTool
    <3>1. message.of = "call_tool" /\ message \in ToolAnswers
      BY <1>1, <2>1, InputKinds DEF ReceiveTool
    <3>2. CASE ~DecodesToolCall(message)
      BY <2>1, <3>2 DEF ReceiveTool, DecodedIsAccepted
    <3>3. CASE DecodesToolCall(message)
      <4>1. outcome' = View(message.ids, Own(message), IsTerminal(message), Result(message))
        BY <2>1, <3>3 DEF ReceiveTool
      <4>2. CASE message.result = None
        <5>1. Result(message) = None /\ ~IsTerminal(message) /\ message.ids
          BY <3>3, <4>2 DEF Result, HasResult, DecodesToolCall, TerminalStateAgrees
        <5>2. QED
          BY <1>1, <1>2, <3>1, <4>1, <5>1 DEF DecodedIsAccepted, View, Completions, RunStates
      <4>3. CASE message.result # None
        <5>1. message.result \in TaskResults
          BY <3>1, <4>3 DEF ToolAnswers
        <5>2. /\ message.ids /\ IsTerminal(message) /\ Own(message)
              /\ Result(message) = message.result.reason
              /\ message.result.reason # "unspecified" /\ ReasonAgrees(message)
          BY <3>3, <4>3 DEF Result, Own, HasResult, DecodesToolCall, TerminalStateAgrees,
                            DecodesTaskResult
        <5>3. message.result.reason \in Completions
          BY <5>1, <5>2 DEF TaskResults
        <5>4. /\ message.result.reason # "aborted"
              /\ message.result.reason = "terminated" => message.terminated
              /\ message.result.reason \in {"truncated", "error"} => message.truncated
          BY <5>2 DEF ReasonAgrees
        <5>5. QED
          BY <1>1, <1>2, <3>1, <4>1, <5>2, <5>3, <5>4
             DEF DecodedIsAccepted, View, Completions
      <4>4. QED
        BY <4>2, <4>3
    <3>4. QED
      BY <3>2, <3>3
  <2>2. CASE ReceiveAbort
    <3>1. message.of = "abort_task" /\ message \in AbortAnswers
      BY <1>1, <2>2, InputKinds DEF ReceiveAbort
    <3>2. CASE ~DecodesAbortTask(message)
      BY <2>2, <3>2 DEF ReceiveAbort, DecodedIsAccepted
    <3>3. CASE DecodesAbortTask(message)
      <4>1. outcome' = View(message.run, Own(message), TRUE, Result(message))
        BY <2>2, <3>3 DEF ReceiveAbort
      <4>2. /\ message.run /\ message.result # None /\ message.result.own
            /\ message.result.reason # "unspecified"
        BY <3>3 DEF DecodesAbortTask, HasResult, DecodesTaskResult
      <4>3. message.result.reason \in Completions
        BY <3>1, <4>2 DEF AbortAnswers, TaskResults
      <4>4. Own(message) /\ Result(message) = message.result.reason
        BY <4>2 DEF Own, Result, HasResult
      <4>5. QED
        BY <1>1, <3>1, <4>1, <4>2, <4>3, <4>4 DEF DecodedIsAccepted, View, Completions
    <3>4. QED
      BY <3>2, <3>3
  <2>3. CASE ReceiveLease
    <3>1. message.of = "lease_task" /\ message \in LeaseAnswers
      BY <1>1, <2>3, InputKinds DEF ReceiveLease
    <3>2. CASE ~DecodesLeaseTask(message)
      BY <2>3, <3>2 DEF ReceiveLease, DecodedIsAccepted
    <3>3. CASE DecodesLeaseTask(message)
      <4>1. outcome' = View(message.run, TRUE, FALSE,
                            IF message.outcome = "leased" THEN "session" ELSE None)
        BY <2>3, <3>3 DEF ReceiveLease
      <4>2. message.run /\ message.outcome \in {"leased", "exhausted"}
        BY <3>1, <3>3 DEF DecodesLeaseTask, LeaseAnswers
      <4>3. QED
        BY <1>1, <1>2, <3>1, <4>1, <4>2 DEF DecodedIsAccepted, View
    <3>4. QED
      BY <3>2, <3>3
  <2>4. CASE ReceiveRun
    <3>1. message.of = "create_run" /\ message \in RunAnswers
      BY <1>1, <2>4, InputKinds DEF ReceiveRun
    <3>2. CASE DecodesRun(message) /\ message.state = "active"
      <4>1. outcome' = View(TRUE, TRUE, FALSE, "active")
        BY <2>4, <3>2 DEF ReceiveRun
      <4>2. QED
        BY <1>1, <3>1, <4>1 DEF DecodedIsAccepted, View
    <3>3. CASE ~(DecodesRun(message) /\ message.state = "active")
      <4>1. outcome'.at # "session"
        <5>1. CASE ~DecodesRun(message)
          <6>1. outcome' = [at |-> "codec", sent |-> None]
            BY <2>4, <5>1 DEF ReceiveRun
          <6>2. QED
            BY <6>1
        <5>2. CASE DecodesRun(message) /\ message.state # "active"
          <6>1. outcome' = [at |-> "client", sent |-> None]
            BY <2>4, <5>2 DEF ReceiveRun
          <6>2. QED
            BY <6>1
        <5>3. QED
          BY <3>3, <5>1, <5>2
      <4>2. QED
        BY <4>1 DEF DecodedIsAccepted
    <3>4. QED
      BY <3>2, <3>3
  <2>5. CASE ReceiveClose
    <3>1. message.of = "close_run" /\ message \in CloseAnswers
      BY <1>1, <2>5, InputKinds DEF ReceiveClose
    <3>2. CASE ~DecodesCloseRun(message)
      BY <2>5, <3>2 DEF ReceiveClose, DecodedIsAccepted
    <3>3. CASE DecodesCloseRun(message)
      <4>1. outcome' = View(message.run, TRUE, TRUE, message.state)
        BY <2>5, <3>3 DEF ReceiveClose
      <4>2. message.run /\ message.state \in {"closing", "closed"}
        BY <3>3 DEF DecodesCloseRun
      <4>3. QED
        BY <1>1, <3>1, <4>1, <4>2 DEF DecodedIsAccepted, View
    <3>4. QED
      BY <3>2, <3>3
  <2>6. QED
    BY <2>1, <2>2, <2>3, <2>4, <2>5
<1>4. LimitsAgree' /\ RoundTrip'
  BY <1>1 DEF LimitsAgree, RoundTrip
<1>5. QED
  BY <1>1, <1>3, <1>4 DEF IInv, Inputs, Arguments

\* The invariant holds in every state.
THEOREM CodecCorrect == Spec => []IInv
<1>1. Init => IInv
  <2> SUFFICES ASSUME Init
               PROVE  IInv
    OBVIOUS
  <2>1. message \in Inputs /\ outcome = None
    BY DEF Init, Inputs, Arguments
  <2>2. LimitsAgree
    BY <2>1, ArgumentWalks DEF LimitsAgree
  <2>3. RoundTrip /\ DecodedIsAccepted
    BY <2>1 DEF RoundTrip, DecodedIsAccepted
  <2>4. QED
    BY <2>1, <2>2, <2>3 DEF IInv
<1>2. IInv /\ [Next]_vars => IInv'
  <2> SUFFICES ASSUME IInv, [Next]_vars
               PROVE  IInv'
    OBVIOUS
  <2>1. CASE Next
    BY <2>1, StepSends, StepReceives DEF Next
  <2>2. CASE UNCHANGED vars
    BY <2>2 DEF vars, IInv, Inputs, Arguments, LimitsAgree, RoundTrip, DecodedIsAccepted
  <2>3. QED
    BY <2>1, <2>2
<1>3. QED
  BY <1>1, <1>2, PTL DEF Spec

\* The client's validator and the transport's encoder accept the same objects, for
\* all limits: those that nest at most as deep as the limit, have no more entries at
\* all levels than the limit, and only scalars and keys that the wire carries.
THEOREM BothLimitsAreExact == Spec => []LimitsAgree
BY CodecCorrect, PTL DEF IInv

\* An object of any shape that was sent decodes, under the same limits, to itself.
THEOREM SentObjectsReturn == Spec => []RoundTrip
BY CodecCorrect, PTL DEF IInv

\* What the decoders let through is what the session and the client accept.
THEOREM DecodersGuardTheSession == Spec => []DecodedIsAccepted
BY CodecCorrect, PTL DEF IInv

====
