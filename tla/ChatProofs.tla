----------------------------- MODULE ChatProofs -----------------------------
(***************************************************************************)
(* Proofs about the consumers of answer streams: what is on screen is of   *)
(* one request, isStreaming agrees with the requests that are under way,   *)
(* and the stream that is read can be stopped.                             *)
(***************************************************************************)
EXTENDS Chat, FiniteSetTheorems, TLAPS

-----------------------------------------------------------------------------
(* Induction without an operator parameter: the least number principle as a *)
(* fact about sets, and from it the existence and the values of a fold.     *)

\* A set of numbers that has a member has a least one.
LEMMA LeastNumber ==
    ASSUME NEW T \in SUBSET Nat, NEW t \in T
    PROVE  \E n \in T : \A m \in T : n <= m
<1> DEFINE I(m) == 0 .. m
           D == {I(m) : m \in {m \in T : m <= t}}
<1>1. \A m \in Nat : I(m) \in FiniteSubsetsOf(Nat)
  <2> SUFFICES ASSUME NEW m \in Nat PROVE I(m) \in FiniteSubsetsOf(Nat)
    OBVIOUS
  <2>1. IsFiniteSet(I(m))
    BY FS_Interval
  <2> QED BY <2>1 DEF FiniteSubsetsOf
<1>2. D \subseteq FiniteSubsetsOf(Nat) /\ D # {}
  BY <1>1
<1>3. \E x \in D : \A y \in D : <<y, x>> \notin StrictSubsetOrdering(Nat)
  <2>1. IsWellFoundedOn(StrictSubsetOrdering(Nat), FiniteSubsetsOf(Nat))
    BY FS_StrictSubsetOrderingWellFounded
  <2> HIDE DEF D
  <2> QED BY <1>2, <2>1, WFMin
<1>4. PICK n \in T : n <= t /\ \A y \in D : <<y, I(n)>> \notin StrictSubsetOrdering(Nat)
  BY <1>3
<1>5. ASSUME NEW m \in T, m < n PROVE FALSE
  <2>1. I(m) \in D
    BY <1>4, <1>5
  <2>2. I(m) \subseteq I(n) /\ I(m) # I(n)
    <3>1. n \in I(n) /\ n \notin I(m)
      BY <1>5
    <3> QED BY <1>5, <3>1
  <2>3. I(m) \in SUBSET Nat /\ I(n) \in SUBSET Nat
    OBVIOUS
  <2> HIDE DEF I, D
  <2> QED BY <1>4, <2>1, <2>2, <2>3 DEF StrictSubsetOrdering
<1> QED BY <1>4, <1>5

\* A set that has 0, and the successor of each of its members up to n, has all.
LEMMA SetInduction ==
    ASSUME NEW n \in Nat, NEW S, 0 \in S, \A k \in 0 .. n - 1 : k \in S => k + 1 \in S
    PROVE  \A k \in 0 .. n : k \in S
<1> DEFINE T == {k \in 0 .. n : k \notin S}
<1>1. SUFFICES ASSUME NEW t \in T PROVE FALSE
  OBVIOUS
<1>2. T \in SUBSET Nat
  OBVIOUS
<1>3. PICK m \in T : \A k \in T : m <= k
  <2> HIDE DEF T
  <2> QED BY <1>1, <1>2, LeastNumber
<1>4. m # 0 /\ m - 1 \in 0 .. n - 1 /\ ~(m <= m - 1)
  BY <1>3
<1>5. m - 1 \in S
  BY <1>3, <1>4
<1>6. (m - 1) + 1 \in S /\ (m - 1) + 1 = m
  BY <1>4, <1>5
<1> QED BY <1>6

-----------------------------------------------------------------------------
(* The fold over the positions 1 .. n, from the last one down. *)

\* f folds F over the subsets of 1 .. n.
Folds(f, n, V, base, F) ==
    f = [s \in SUBSET (1 .. n) |->
            IF s = {} THEN base ELSE F[f[s \ {Max(s)}]][Max(s)]]

\* Max of a set of positions is the greatest of them.
LEMMA MaxOfPositions ==
    ASSUME NEW n \in Nat, NEW s \in SUBSET (1 .. n), s # {}
    PROVE  Max(s) \in s /\ \A y \in s : y <= Max(s)
<1> DEFINE U == {m \in 0 .. n : \A y \in s : y <= m}
<1>1. PICK m \in U : \A k \in U : m <= k
  <2>1. n \in U /\ U \in SUBSET Nat
    OBVIOUS
  <2> HIDE DEF U
  <2> QED BY <2>1, LeastNumber
<1>2. m \in s
  <2>1. SUFFICES ASSUME m \notin s PROVE FALSE
    OBVIOUS
  <2>2. \A y \in s : y <= m - 1
    BY <1>1, <2>1
  <2>3. m # 0
    <3>1. PICK y \in s : TRUE
      OBVIOUS
    <3>2. y \in 1 .. n /\ y <= m - 1
      BY <2>2, <3>1
    <3> QED BY <3>2
  <2>4. m - 1 \in U
    BY <1>1, <2>2, <2>3
  <2> QED BY <1>1, <2>4
<1>3. \E x \in s : \A y \in s : x >= y
  BY <1>1, <1>2
<1> QED BY <1>3 DEF Max

\* Every fold over positions exists.
LEMMA FoldExists ==
    ASSUME NEW n \in Nat, NEW V, NEW base \in V, NEW F \in [V -> [1 .. n -> V]]
    PROVE  \E f \in [SUBSET (1 .. n) -> V] : Folds(f, n, V, base, F)
<1> DEFINE Has(m) == \E f \in [SUBSET (1 .. m) -> V] : Folds(f, m, V, base, F)
           S == {m \in 0 .. n : Has(m)}
<1>1. Has(0)
  <2> DEFINE f == [s \in SUBSET (1 .. 0) |-> base]
  <2>1. f \in [SUBSET (1 .. 0) -> V]
    OBVIOUS
  <2>2. \A s \in SUBSET (1 .. 0) : s = {}
    OBVIOUS
  <2>3. Folds(f, 0, V, base, F)
    BY <2>2 DEF Folds
  <2> QED BY <2>1, <2>3
<1>2. ASSUME NEW m \in 0 .. n - 1, Has(m) PROVE Has(m + 1)
  <2>1. PICK f \in [SUBSET (1 .. m) -> V] : Folds(f, m, V, base, F)
    BY <1>2
  <2> DEFINE k == m + 1
             g == [s \in SUBSET (1 .. k) |->
                      IF k \in s THEN F[f[s \ {k}]][k] ELSE f[s]]
  <2>2. ASSUME NEW s \in SUBSET (1 .. k)
        PROVE  /\ s \ {k} \in SUBSET (1 .. m)
               /\ k \notin s => s \in SUBSET (1 .. m)
               /\ k \in s => Max(s) = k
    <3>1. \A i \in 1 .. k : i # k => i \in 1 .. m
      OBVIOUS
    <3>2. ASSUME k \in s PROVE Max(s) = k
      <4>1. k \in Nat /\ s # {}
        BY <3>2
      <4>2. Max(s) \in s /\ \A y \in s : y <= Max(s)
        BY <4>1, MaxOfPositions
      <4>3. Max(s) \in 1 .. k /\ k <= Max(s)
        BY <3>2, <4>2
      <4>4. \A x \in 1 .. k : k <= x => x = k
        OBVIOUS
      <4> HIDE DEF k
      <4> QED BY <4>3, <4>4
    <3> HIDE DEF k
    <3> QED BY <3>1, <3>2
  <2>3. k \in 1 .. n
    OBVIOUS
  <2>4. g \in [SUBSET (1 .. k) -> V]
    <3> SUFFICES ASSUME NEW s \in SUBSET (1 .. k)
                 PROVE  (IF k \in s THEN F[f[s \ {k}]][k] ELSE f[s]) \in V
      OBVIOUS
    <3> HIDE DEF k
    <3>1. f[s \ {k}] \in V /\ (k \notin s => f[s] \in V)
      BY <2>2
    <3>2. F[f[s \ {k}]] \in [1 .. n -> V]
      BY <3>1
    <3>3. F[f[s \ {k}]][k] \in V
      BY <2>3, <3>2
    <3> QED BY <3>1, <3>3
  <2>5. ASSUME NEW s \in SUBSET (1 .. k)
        PROVE  g[s] = IF s = {} THEN base ELSE F[g[s \ {Max(s)}]][Max(s)]
    <3>1. CASE k \in s
      <4>1. s # {} /\ Max(s) = k
        BY <2>2, <3>1
      <4>2. s \ {k} \in SUBSET (1 .. k) /\ k \notin s \ {k}
        OBVIOUS
      <4> HIDE DEF k
      <4>3. g[s \ {k}] = f[s \ {k}] /\ g[s] = F[f[s \ {k}]][k]
        BY <3>1, <4>2
      <4> QED BY <4>1, <4>3
    <3>2. CASE k \notin s
      <4>1. s \in SUBSET (1 .. m)
        BY <2>2, <3>2
      <4>2. f[s] = IF s = {} THEN base ELSE F[f[s \ {Max(s)}]][Max(s)]
        BY <2>1, <4>1 DEF Folds
      <4>3. s \ {Max(s)} \in SUBSET (1 .. k) /\ k \notin s \ {Max(s)}
        BY <3>2
      <4> HIDE DEF k
      <4>4. g[s] = f[s] /\ g[s \ {Max(s)}] = f[s \ {Max(s)}]
        BY <3>2, <4>3
      <4> QED BY <4>2, <4>4
    <3> QED BY <3>1, <3>2
  <2>6. Folds(g, k, V, base, F)
    <3> HIDE DEF k
    <3>1. g = [s \in SUBSET (1 .. k) |-> g[s]]
      OBVIOUS
    <3> HIDE DEF g
    <3>2. g = [s \in SUBSET (1 .. k) |->
                 IF s = {} THEN base ELSE F[g[s \ {Max(s)}]][Max(s)]]
      BY <2>5, <3>1
    <3> QED BY <3>2 DEF Folds
  <2> HIDE DEF g, k
  <2> QED BY <2>4, <2>6 DEF k
<1> HIDE DEF Has
<1>3. \A m \in 0 .. n : m \in S
  <2>1. 0 \in S /\ \A m \in 0 .. n - 1 : m \in S => m + 1 \in S
    BY <1>1, <1>2
  <2> HIDE DEF S
  <2> QED BY <2>1, SetInduction
<1>4. Has(n)
  <2>1. n \in 0 .. n
    OBVIOUS
  <2> QED BY <1>3, <2>1
<1> QED BY <1>4 DEF Has

\* What the fold does on the positions up to k.
LEMMA PrefixPositions ==
    ASSUME NEW n \in Nat, NEW k \in 1 .. n
    PROVE  /\ 1 .. k \in SUBSET (1 .. n) /\ 1 .. k # {}
           /\ Max(1 .. k) = k /\ (1 .. k) \ {k} = 1 .. k - 1
<1>1. 1 .. k \in SUBSET (1 .. n) /\ 1 .. k # {}
  OBVIOUS
<1>2. Max(1 .. k) = k
  <2>1. Max(1 .. k) \in 1 .. k /\ \A y \in 1 .. k : y <= Max(1 .. k)
    BY <1>1, MaxOfPositions
  <2> QED BY <2>1
<1> QED BY <1>1, <1>2

LEMMA ElementOf ==
    ASSUME NEW S, NEW s \in Seq(S)
    PROVE  /\ DOMAIN s = 1 .. Len(s) /\ Len(s) \in Nat
           /\ \A k \in 1 .. Len(s) : s[k] \in S
OBVIOUS

-----------------------------------------------------------------------------
(* EventCount: the events of every stream are part of it. *)

LEMMA Bounds == MaxStreams \in Nat /\ MaxEvents \in Nat
BY StreamAssumption

LEMMA StreamFields ==
    ASSUME NEW ss \in Seq(Stream), NEW k \in 1 .. Len(ss)
    PROVE  /\ ss[k] \in Stream
           /\ ss[k].phase \in {"fetching", "open", "closed"}
           /\ ss[k].events \in 0 .. MaxEvents /\ ss[k].events \in Nat
           /\ ss[k].late \in BOOLEAN /\ ss[k].silent \in BOOLEAN
<1>1. ss[k] \in Stream
  OBVIOUS
<1>2. \A e \in 0 .. MaxEvents : e \in Nat
  BY Bounds
<1> QED BY <1>1, <1>2 DEF Stream

LEMMA EventTotals ==
    ASSUME streams \in Seq(Stream)
    PROVE  \E a \in [0 .. Latest -> Nat] :
              /\ \A k \in 1 .. Latest : a[k] = a[k - 1] + streams[k].events
              /\ EventCount = a[Latest]
<1> DEFINE n == Latest
           F == [v \in Nat |-> [i \in 1 .. n |-> v + streams[i].events]]
           It(f) == [s \in SUBSET (1 .. n) |->
                        IF s = {} THEN 0 ELSE f[s \ {Max(s)}] + streams[Max(s)].events]
           g == CHOOSE f : f = It(f)
<1>1. n \in Nat /\ DOMAIN streams = 1 .. n
  BY DEF Latest
<1>2. EventCount = g[1 .. n]
  BY <1>1 DEF EventCount, FoldLeft, MapThenFoldSet
<1>3. ASSUME NEW i \in 1 .. n PROVE streams[i].events \in Nat
  BY StreamFields DEF Latest
<1>4. F \in [Nat -> [1 .. n -> Nat]]
  BY <1>3
<1> HIDE DEF n
<1>5. PICK f \in [SUBSET (1 .. n) -> Nat] : Folds(f, n, Nat, 0, F)
  <2> HIDE DEF F
  <2> QED BY <1>1, <1>4, FoldExists, Zenon
<1>6. f = It(f)
  <2> SUFFICES ASSUME NEW s \in SUBSET (1 .. n), s # {}
               PROVE  F[f[s \ {Max(s)}]][Max(s)] = f[s \ {Max(s)}] + streams[Max(s)].events
    BY <1>5, Zenon DEF Folds
  <2>1. Max(s) \in 1 .. n
    BY <1>1, MaxOfPositions
  <2>2. s \ {Max(s)} \in SUBSET (1 .. n)
    OBVIOUS
  <2>3. f[s \ {Max(s)}] \in Nat
    BY <1>5, <2>2
  <2> QED BY <2>1, <2>3
<1>7. g = It(g)
  <2> HIDE DEF It
  <2> QED BY <1>6
<1>8. DOMAIN g = SUBSET (1 .. n)
  <2>1. DOMAIN It(g) = SUBSET (1 .. n)
    OBVIOUS
  <2> QED BY <1>7, <2>1
<1>9. g[1 .. 0] = 0
  <2>1. 1 .. 0 = {} /\ 1 .. 0 \in SUBSET (1 .. n)
    OBVIOUS
  <2>2. It(g)[1 .. 0] = 0
    BY <2>1
  <2> QED BY <1>7, <2>2
<1>10. ASSUME NEW k \in 1 .. n PROVE g[1 .. k] = g[1 .. k - 1] + streams[k].events
  <2>1. It(g)[1 .. k] = g[1 .. k - 1] + streams[k].events
    BY <1>1, PrefixPositions
  <2> QED BY <1>7, <2>1
<1> DEFINE S == {k \in 0 .. n : g[1 .. k] \in Nat}
           a == [k \in 0 .. n |-> g[1 .. k]]
<1> HIDE DEF g
<1>11. \A k \in 0 .. n : k \in S
  <2>1. 0 \in S
    BY <1>1, <1>9
  <2>2. ASSUME NEW k \in 0 .. n - 1, k \in S PROVE k + 1 \in S
    <3>1. k + 1 \in 1 .. n /\ (k + 1) - 1 = k /\ k + 1 \in 0 .. n
      BY <1>1
    <3>2. g[1 .. k + 1] = g[1 .. k] + streams[k + 1].events
      BY <1>10, <3>1
    <3>3. g[1 .. k] \in Nat
      BY <2>2
    <3>4. g[1 .. k + 1] \in Nat
      BY <1>3, <3>1, <3>2, <3>3
    <3> QED BY <3>1, <3>4
  <2> HIDE DEF S
  <2> QED BY <1>1, <2>1, <2>2, SetInduction
<1>12. a \in [0 .. n -> Nat]
  BY <1>11
<1>13. \A k \in 1 .. n : a[k] = a[k - 1] + streams[k].events
  <2> SUFFICES ASSUME NEW k \in 1 .. n PROVE a[k] = a[k - 1] + streams[k].events
    OBVIOUS
  <2>1. k \in 0 .. n /\ k - 1 \in 0 .. n
    BY <1>1
  <2> QED BY <1>10, <2>1
<1>14. a[n] = EventCount
  <2>1. n \in 0 .. n
    BY <1>1
  <2> QED BY <1>2, <2>1
<1> HIDE DEF a
<1> QED BY <1>12, <1>13, <1>14 DEF n
\* While EventCount is below its bound, so are the events of each stream.
LEMMA EventsCounted ==
    ASSUME streams \in Seq(Stream), NEW k \in 1 .. Latest
    PROVE  EventCount \in Nat /\ streams[k].events <= EventCount
<1>1. PICK a \in [0 .. Latest -> Nat] :
         /\ \A i \in 1 .. Latest : a[i] = a[i - 1] + streams[i].events
         /\ EventCount = a[Latest]
  BY EventTotals
<1>2. Latest \in Nat
  BY DEF Latest
<1> DEFINE n == Latest
           S == {j \in 0 .. n : k <= j => streams[k].events <= a[j]}
<1>3. ASSUME NEW i \in 1 .. n PROVE streams[i].events \in Nat /\ a[i - 1] \in Nat /\ a[i] \in Nat
  <2>1. streams[i].events \in Nat
    BY StreamFields DEF Latest
  <2>2. i \in 0 .. n /\ i - 1 \in 0 .. n
    BY <1>2
  <2> QED BY <1>1, <2>1, <2>2
<1> HIDE DEF n
<1>4. \A j \in 0 .. n : j \in S
  <2>1. 0 \in S
    BY <1>2 DEF n
  <2>2. ASSUME NEW j \in 0 .. n - 1, j \in S PROVE j + 1 \in S
    <3>1. j + 1 \in 1 .. n /\ (j + 1) - 1 = j /\ j + 1 \in 0 .. n
      BY <1>2 DEF n
    <3>2. a[j + 1] = a[j] + streams[j + 1].events
      BY <1>1, <3>1 DEF n
    <3>3. streams[j + 1].events \in Nat /\ a[j] \in Nat /\ streams[k].events \in Nat
      BY <1>3, <3>1 DEF n
    <3>4. CASE k <= j
      BY <2>2, <3>1, <3>2, <3>3, <3>4
    <3>5. CASE k = j + 1
      BY <3>1, <3>2, <3>3, <3>5
    <3>6. CASE k > j + 1
      BY <3>1, <3>6
    <3>7. k \in Nat /\ j \in Nat
      BY <1>2 DEF n
    <3> QED BY <3>4, <3>5, <3>6, <3>7
  <2> HIDE DEF S
  <2> QED BY <1>2, <2>1, <2>2, SetInduction DEF n
<1>5. n \in 0 .. n /\ k <= n
  BY <1>2 DEF n
<1> QED BY <1>1, <1>4, <1>5 DEF n
-----------------------------------------------------------------------------
(* AllCitationIds: what another chunk adds to the numbering. *)

\* An answer of chunks that cite something.
Cites(answer) == DOMAIN answer = 1 .. Len(answer) /\ Len(answer) \in Nat
                 /\ \A k \in 1 .. Len(answer) : answer[k].id \in CitedIds

\* a[k]: the ids after k chunks.
IdChain(a, answer) ==
    /\ a[0] = <<>>
    /\ \A k \in 1 .. Len(answer) :
          a[k] = IF Contains(a[k - 1], answer[k].id) THEN a[k - 1]
                 ELSE Append(a[k - 1], answer[k].id)

LEMMA IdChainExists ==
    ASSUME NEW answer, Cites(answer)
    PROVE  \E a \in [0 .. Len(answer) -> Seq(CitedIds)] :
              IdChain(a, answer) /\ AllCitationIds(answer) = a[Len(answer)]
<1> DEFINE n == Len(answer)
           V == Seq(CitedIds)
           Next1(v, i) == IF Contains(v, answer[i].id) THEN v ELSE Append(v, answer[i].id)
           F == [v \in V |-> [i \in 1 .. n |-> Next1(v, i)]]
           It(f) == [s \in SUBSET (1 .. n) |->
                        IF s = {} THEN <<>> ELSE Next1(f[s \ {Max(s)}], Max(s))]
           g == CHOOSE f : f = It(f)
<1>1. n \in Nat /\ DOMAIN answer = 1 .. n /\ \A i \in 1 .. n : answer[i].id \in CitedIds
  BY DEF Cites
<1>2. AllCitationIds(answer) = g[1 .. n]
  <2> DEFINE ids == CitedInOrder(answer)
             J(f) == [s \in SUBSET (1 .. n) |->
                        IF s = {} THEN <<>>
                        ELSE IF Contains(f[s \ {Max(s)}], ids[Max(s)]) THEN f[s \ {Max(s)}]
                        ELSE Append(f[s \ {Max(s)}], ids[Max(s)])]
             h == CHOOSE f : f = J(f)
  <2>1. DOMAIN ids = 1 .. n /\ \A i \in 1 .. n : ids[i] = answer[i].id
    BY <1>1 DEF CitedInOrder
  <2>2. AllCitationIds(answer) = h[1 .. n]
    BY <2>1 DEF AllCitationIds, FoldLeft, MapThenFoldSet
  <2>3. \A f : J(f) = It(f)
    <3> SUFFICES ASSUME NEW f, NEW s \in SUBSET (1 .. n), s # {}
                 PROVE  ids[Max(s)] = answer[Max(s)].id
      OBVIOUS
    <3>1. Max(s) \in 1 .. n
      BY <1>1, MaxOfPositions
    <3> HIDE DEF ids
    <3> QED BY <2>1, <3>1
  <2>4. h = g
    <3> HIDE DEF J, It
    <3> QED BY <2>3
  <2> QED BY <2>2, <2>4
<1>3. \A v \in V, i \in 1 .. n : Next1(v, i) \in V
  BY <1>1
<1>4. F \in [V -> [1 .. n -> V]]
  <2> HIDE DEF Next1, V
  <2> QED BY <1>3
<1>5. <<>> \in V
  OBVIOUS
<1> HIDE DEF n, V, Next1
<1>6. PICK f \in [SUBSET (1 .. n) -> V] : Folds(f, n, V, <<>>, F)
  <2> HIDE DEF F
  <2> QED BY <1>1, <1>4, <1>5, FoldExists
<1>7. f = It(f)
  <2> SUFFICES ASSUME NEW s \in SUBSET (1 .. n), s # {}
               PROVE  F[f[s \ {Max(s)}]][Max(s)] = Next1(f[s \ {Max(s)}], Max(s))
    BY <1>6 DEF Folds
  <2>1. Max(s) \in 1 .. n
    BY <1>1, MaxOfPositions
  <2>2. s \ {Max(s)} \in SUBSET (1 .. n)
    OBVIOUS
  <2>3. f[s \ {Max(s)}] \in V
    BY <1>6, <2>2
  <2> QED BY <2>1, <2>3
<1>8. g = It(g)
  <2> HIDE DEF It
  <2> QED BY <1>7
<1>9. g[1 .. 0] = <<>>
  <2>1. 1 .. 0 = {} /\ 1 .. 0 \in SUBSET (1 .. n)
    OBVIOUS
  <2>2. It(g)[1 .. 0] = <<>>
    BY <2>1
  <2> QED BY <1>8, <2>2
<1>10. ASSUME NEW k \in 1 .. n PROVE g[1 .. k] = Next1(g[1 .. k - 1], k)
  <2>1. It(g)[1 .. k] = Next1(g[1 .. k - 1], k)
    BY <1>1, PrefixPositions
  <2> QED BY <1>8, <2>1
<1> DEFINE S == {k \in 0 .. n : g[1 .. k] \in V}
           a == [k \in 0 .. n |-> g[1 .. k]]
<1> HIDE DEF g
<1>11. \A k \in 0 .. n : k \in S
  <2>1. 0 \in S
    BY <1>1, <1>5, <1>9
  <2>2. ASSUME NEW k \in 0 .. n - 1, k \in S PROVE k + 1 \in S
    <3>1. k + 1 \in 1 .. n /\ (k + 1) - 1 = k /\ k + 1 \in 0 .. n
      BY <1>1
    <3>2. g[1 .. k + 1] = Next1(g[1 .. k], k + 1)
      BY <1>10, <3>1
    <3>3. g[1 .. k + 1] \in V
      BY <1>3, <2>2, <3>1, <3>2
    <3> QED BY <3>1, <3>3
  <2> HIDE DEF S
  <2> QED BY <1>1, <2>1, <2>2, SetInduction
<1>12. a \in [0 .. n -> V]
  BY <1>11
<1>13. IdChain(a, answer)
  <2>1. 0 \in 0 .. n /\ \A k \in 1 .. n : k \in 0 .. n /\ k - 1 \in 0 .. n
    BY <1>1
  <2>2. a[0] = <<>>
    BY <1>9, <2>1
  <2>3. \A k \in 1 .. n : a[k] = Next1(a[k - 1], k)
    BY <1>10, <2>1
  <2> HIDE DEF a
  <2> QED BY <2>2, <2>3 DEF IdChain, Next1, n
<1>14. a[n] = AllCitationIds(answer)
  <2>1. n \in 0 .. n
    BY <1>1
  <2> QED BY <1>2, <2>1
<1> HIDE DEF a
<1> QED BY <1>12, <1>13, <1>14 DEF n, V
\* v starts with u.
StartsWith(v, u) == Len(u) <= Len(v) /\ \A i \in 1 .. Len(u) : v[i] = u[i]

LEMMA IdChainStep ==
    ASSUME NEW answer, Cites(answer), NEW a \in [0 .. Len(answer) -> Seq(CitedIds)],
           IdChain(a, answer), NEW k \in 1 .. Len(answer)
    PROVE  /\ StartsWith(a[k], a[k - 1])
           /\ Contains(a[k], answer[k].id)
<1>1. /\ Len(answer) \in Nat /\ answer[k].id \in CitedIds
      /\ k \in 0 .. Len(answer) /\ k - 1 \in 0 .. Len(answer)
  BY DEF Cites
<1>2. a[k] \in Seq(CitedIds) /\ a[k - 1] \in Seq(CitedIds)
  BY <1>1
<1>3. CASE Contains(a[k - 1], answer[k].id)
  <2>1. a[k] = a[k - 1]
    BY <1>3 DEF IdChain
  <2> QED BY <1>2, <1>3, <2>1 DEF StartsWith
<1>4. CASE ~Contains(a[k - 1], answer[k].id)
  <2> DEFINE u == a[k - 1]
             x == answer[k].id
  <2>1. a[k] = Append(u, x)
    BY <1>4 DEF IdChain
  <2>2. u \in Seq(CitedIds) /\ x \in CitedIds
    BY <1>1, <1>2
  <2> HIDE DEF u, x
  <2>3. /\ Len(Append(u, x)) = Len(u) + 1 /\ Len(u) \in Nat
        /\ \A i \in 1 .. Len(u) : Append(u, x)[i] = u[i]
        /\ Append(u, x)[Len(u) + 1] = x
    BY <2>2
  <2>4. StartsWith(Append(u, x), u) /\ Contains(Append(u, x), x)
    BY <2>3 DEF StartsWith, Contains
  <2> QED BY <2>1, <2>4 DEF u, x
<1> QED BY <1>3, <1>4

LEMMA StartsWithTransitive ==
    ASSUME NEW u \in Seq(CitedIds), NEW v \in Seq(CitedIds), NEW w \in Seq(CitedIds),
           StartsWith(v, u), StartsWith(w, v)
    PROVE  StartsWith(w, u)
BY DEF StartsWith

\* Later numberings start with earlier ones, and number all that was cited.
LEMMA IdChainGrows ==
    ASSUME NEW answer, Cites(answer), NEW a \in [0 .. Len(answer) -> Seq(CitedIds)],
           IdChain(a, answer), NEW m \in 0 .. Len(answer)
    PROVE  /\ \A k \in 0 .. Len(answer) : m <= k => StartsWith(a[k], a[m])
           /\ m > 0 => \A k \in 0 .. Len(answer) : m <= k => Contains(a[k], answer[m].id)
<1> DEFINE n == Len(answer)
           S == {k \in 0 .. n : m <= k => StartsWith(a[k], a[m])}
<1>1. n \in Nat /\ m \in Nat
  BY DEF Cites
<1>2. \A k \in 0 .. n : a[k] \in Seq(CitedIds)
  OBVIOUS
<1>3. \A k \in 0 .. n : k \in S
  <2>1. \A v \in Seq(CitedIds) : StartsWith(v, v)
    BY DEF StartsWith
  <2>2. 0 \in S
    <3>1. CASE m = 0
      BY <1>1, <1>2, <2>1, <3>1
    <3>2. CASE m # 0
      BY <1>1, <3>2
    <3> QED BY <3>1, <3>2
  <2>3. ASSUME NEW k \in 0 .. n - 1, k \in S PROVE k + 1 \in S
    <3>1. k + 1 \in 1 .. n /\ (k + 1) - 1 = k /\ k + 1 \in 0 .. n /\ k \in 0 .. n
      BY <1>1
    <3>2. StartsWith(a[k + 1], a[k])
      BY <3>1, IdChainStep
    <3>3. CASE m <= k
      <4>1. StartsWith(a[k], a[m])
        BY <2>3, <3>3
      <4>2. StartsWith(a[k + 1], a[m])
        BY <1>2, <3>1, <3>2, <4>1, StartsWithTransitive
      <4> QED BY <3>1, <4>2
    <3>4. CASE m = k + 1
      BY <1>2, <2>1, <3>1, <3>4
    <3>5. CASE m > k + 1
      BY <1>1, <3>1, <3>5
    <3> QED BY <1>1, <3>3, <3>4, <3>5
  <2> HIDE DEF S, n
  <2> QED BY <1>1, <2>2, <2>3, SetInduction
<1>4. ASSUME m > 0, NEW k \in 0 .. n, m <= k PROVE Contains(a[k], answer[m].id)
  <2>1. m \in 1 .. n
    BY <1>1, <1>4
  <2>2. Contains(a[m], answer[m].id)
    BY <2>1, IdChainStep
  <2>3. StartsWith(a[k], a[m])
    BY <1>3, <1>4
  <2> QED BY <1>2, <1>4, <2>2, <2>3 DEF StartsWith, Contains
<1> QED BY <1>3, <1>4

\* The numbering of a part of the answer is one of those of the whole.
LEMMA IdChainOfPart ==
    ASSUME NEW answer, Cites(answer), NEW a \in [0 .. Len(answer) -> Seq(CitedIds)],
           IdChain(a, answer),
           NEW part, Cites(part), Len(part) <= Len(answer),
           \A i \in 1 .. Len(part) : part[i] = answer[i]
    PROVE  AllCitationIds(part) = a[Len(part)]
<1>1. PICK b \in [0 .. Len(part) -> Seq(CitedIds)] :
         IdChain(b, part) /\ AllCitationIds(part) = b[Len(part)]
  BY IdChainExists
<1>2. Len(part) \in Nat /\ Len(answer) \in Nat
  BY DEF Cites
<1> DEFINE n == Len(part)
           S == {k \in 0 .. n : b[k] = a[k]}
<1>3. \A k \in 0 .. n : k \in S
  <2>1. 0 \in S
    BY <1>1, <1>2 DEF IdChain
  <2>2. ASSUME NEW k \in 0 .. n - 1, k \in S PROVE k + 1 \in S
    <3>1. /\ k + 1 \in 1 .. n /\ (k + 1) - 1 = k /\ k + 1 \in 0 .. n
          /\ k + 1 \in 1 .. Len(answer)
      BY <1>2
    <3>2. b[k + 1] = IF Contains(b[k], part[k + 1].id) THEN b[k] ELSE Append(b[k], part[k + 1].id)
      BY <1>1, <3>1 DEF IdChain
    <3>3. a[k + 1] = IF Contains(a[k], answer[k + 1].id) THEN a[k] ELSE Append(a[k], answer[k + 1].id)
      BY <3>1 DEF IdChain
    <3>4. b[k] = a[k] /\ part[k + 1] = answer[k + 1]
      BY <2>2, <3>1
    <3> QED BY <3>1, <3>2, <3>3, <3>4
  <2> HIDE DEF S, n
  <2> QED BY <1>2, <2>1, <2>2, SetInduction DEF n
<1>4. n \in 0 .. n
  BY <1>2
<1> QED BY <1>1, <1>3, <1>4
LEMMA MinIs ==
    ASSUME NEW S \in SUBSET Nat, NEW p \in S, \A y \in S : p <= y
    PROVE  Min(S) = p
<1>1. Min(S) \in S /\ \A y \in S : Min(S) <= y
  BY DEF Min
<1>2. \A x, y \in Nat : x <= y /\ y <= x => x = y
  OBVIOUS
<1> QED BY <1>1, <1>2

Positions(v, x) == {i \in 1 .. Len(v) : v[i] = x}

\* renderAsSequentialLinks gives an id the number it had before.
LEMMA NumberOfPrefix ==
    ASSUME NEW u \in Seq(CitedIds), NEW v \in Seq(CitedIds), StartsWith(v, u),
           NEW x, Contains(u, x)
    PROVE  Min(Positions(v, x)) = Min(Positions(u, x))
           /\ Positions(v, x) # {} /\ Positions(u, x) # {}
<1> DEFINE I == {i \in 1 .. Len(u) : u[i] = x}
           J == {i \in 1 .. Len(v) : v[i] = x}
<1>1. Len(u) \in Nat /\ Len(v) \in Nat /\ Len(u) <= Len(v)
  BY DEF StartsWith
<1>2. PICK t \in I : TRUE
  BY DEF Contains
<1>3. I \in SUBSET Nat /\ J \in SUBSET Nat
  OBVIOUS
<1>4. PICK p \in I : \A y \in I : p <= y
  <2> HIDE DEF I
  <2> QED BY <1>2, <1>3, LeastNumber
<1>5. p \in J
  BY <1>1, <1>4 DEF StartsWith
<1>6. \A y \in J : p <= y
  <2> SUFFICES ASSUME NEW y \in J, y < p PROVE FALSE
    BY <1>3, <1>5
  <2>1. y \in 1 .. Len(u)
    BY <1>1, <1>4
  <2>2. u[y] = v[y]
    BY <2>1 DEF StartsWith
  <2>3. y \in I
    BY <2>1, <2>2
  <2> QED BY <1>3, <1>4, <2>3
<1> HIDE DEF I, J
<1>7. Min(I) = p /\ Min(J) = p
  BY <1>3, <1>4, <1>5, <1>6, MinIs
<1>8. I # {} /\ J # {}
  BY <1>4, <1>5
<1> QED BY <1>7, <1>8 DEF I, J, Positions

LEMMA NumbersStable ==
    ASSUME NEW n \in Nat, NEW answer \in Seq([stream : 1 .. n, id : CitedIds]),
           NEW m \in 0 .. Len(answer), NEW id \in CitedResourceIds(SubSeq(answer, 1, m))
    PROVE  SequentialNum(SubSeq(answer, 1, m), id) = SequentialNum(answer, id)
<1> DEFINE part == SubSeq(answer, 1, m)
<1>1. Cites(answer)
  <2>1. ASSUME NEW k \in 1 .. Len(answer) PROVE answer[k].id \in CitedIds
    <3>1. answer[k] \in [stream : 1 .. n, id : CitedIds]
      BY ElementOf
    <3> QED BY <3>1
  <2> QED BY <2>1 DEF Cites
<1>2. Len(answer) \in Nat /\ m \in Nat /\ m <= Len(answer)
  OBVIOUS
<1>3. /\ DOMAIN part = 1 .. m /\ Len(part) = m
      /\ \A i \in 1 .. m : part[i] = answer[i]
  OBVIOUS
<1> HIDE DEF part
<1>4. Cites(part)
  <2>1. \A i \in 1 .. m : i \in 1 .. Len(answer)
    BY <1>2
  <2> QED BY <1>1, <1>2, <1>3, <2>1 DEF Cites
<1>5. PICK a \in [0 .. Len(answer) -> Seq(CitedIds)] :
         IdChain(a, answer) /\ AllCitationIds(answer) = a[Len(answer)]
  BY <1>1, IdChainExists
<1>6. AllCitationIds(part) = a[m]
  BY <1>1, <1>2, <1>3, <1>4, <1>5, IdChainOfPart
<1> DEFINE u == a[m]
           v == a[Len(answer)]
<1>7. u \in Seq(CitedIds) /\ v \in Seq(CitedIds) /\ StartsWith(v, u)
  <2>1. Len(answer) \in 0 .. Len(answer) /\ m <= Len(answer)
    BY <1>2
  <2> QED BY <1>1, <1>5, <2>1, IdChainGrows
<1>8. Contains(u, id)
  <2>1. PICK i \in 1 .. m : part[i].id = id
    BY <1>3 DEF part, CitedResourceIds, ToSet, CitedInOrder
  <2>2. i \in 0 .. Len(answer) /\ i > 0 /\ i <= m /\ answer[i].id = id
    BY <1>2, <1>3, <2>1
  <2> QED BY <1>1, <1>5, <2>2, IdChainGrows
<1>9. SequentialNum(part, id) = Min(Positions(u, id))
  <2>1. Positions(u, id) # {}
    BY <1>7, <1>8, NumberOfPrefix
  <2> QED BY <1>6, <2>1 DEF SequentialNum, SelectInSeq, Positions
<1>10. SequentialNum(answer, id) = Min(Positions(v, id))
  <2>1. Positions(v, id) # {}
    BY <1>7, <1>8, NumberOfPrefix
  <2> QED BY <1>5, <2>1 DEF SequentialNum, SelectInSeq, Positions
<1> HIDE DEF u, v
<1>11. Min(Positions(v, id)) = Min(Positions(u, id))
  BY <1>7, <1>8, NumberOfPrefix
<1> QED BY <1>9, <1>10, <1>11 DEF part
-----------------------------------------------------------------------------
(* The streams: what the caller's operations do to each of them. *)

StreamsType(ss, c) == ss \in Seq(Stream) /\ c \in 0 .. Len(ss)

LEMMA AbortedFields ==
    ASSUME NEW ss, StreamsType(ss, ctl)
    PROVE  /\ Aborted(ss) \in Seq(Stream) /\ Len(Aborted(ss)) = Len(ss)
           /\ \A k \in 1 .. Len(ss) :
                 LET hit == k = ctl /\ ss[k].phase = "open"
                 IN /\ Aborted(ss)[k].phase = IF hit THEN "closed" ELSE ss[k].phase
                    /\ Aborted(ss)[k].events = ss[k].events
                    /\ Aborted(ss)[k].late <=> ss[k].late
                    /\ Aborted(ss)[k].silent <=> (ss[k].silent \/ hit)
<1>0. ss \in Seq(Stream) /\ ctl \in 0 .. Len(ss) /\ Len(ss) \in Nat
  BY DEF StreamsType
<1>1. CASE ctl # 0 /\ ss[ctl].phase = "open"
  <2> DEFINE t == [ss[ctl] EXCEPT !.phase = "closed", !.silent = TRUE]
  <2>1. ctl \in 1 .. Len(ss)
    BY <1>0, <1>1
  <2>2. /\ t \in Stream /\ t.phase = "closed" /\ t.events = ss[ctl].events
        /\ (t.late <=> ss[ctl].late) /\ t.silent
    <3>1. ss[ctl] \in Stream
      BY <1>0, <2>1
    <3> QED BY <3>1 DEF Stream
  <2>3. Aborted(ss) = [ss EXCEPT ![ctl] = t]
    BY <1>1 DEF Aborted
  <2> HIDE DEF t
  <2>4. /\ [ss EXCEPT ![ctl] = t] \in Seq(Stream)
        /\ Len([ss EXCEPT ![ctl] = t]) = Len(ss)
        /\ \A k \in 1 .. Len(ss) : [ss EXCEPT ![ctl] = t][k] = IF k = ctl THEN t ELSE ss[k]
    BY <1>0, <2>1, <2>2
  <2>5. \A k \in 1 .. Len(ss) : Aborted(ss)[k] = IF k = ctl THEN t ELSE ss[k]
    BY <2>3, <2>4
  <2>6. \A k \in 1 .. Len(ss) : ss[k].silent \in BOOLEAN
    BY <1>0, StreamFields
  <2>7. Aborted(ss) \in Seq(Stream) /\ Len(Aborted(ss)) = Len(ss)
    BY <2>3, <2>4
  <2> QED BY <1>1, <2>2, <2>5, <2>6, <2>7
<1>2. CASE ~(ctl # 0 /\ ss[ctl].phase = "open")
  <2>1. Aborted(ss) = ss
    BY <1>2 DEF Aborted
  <2>2. \A k \in 1 .. Len(ss) : ~(k = ctl /\ ss[k].phase = "open")
    BY <1>0, <1>2
  <2>3. \A k \in 1 .. Len(ss) : ss[k].silent \in BOOLEAN
    BY <1>0, StreamFields
  <2> QED BY <1>0, <2>1, <2>2, <2>3
<1> QED BY <1>1, <1>2

LEMMA GiveUpFields ==
    ASSUME NEW ss, StreamsType(ss, ctl)
    PROVE  /\ GiveUp(ss) \in Seq(Stream) /\ Len(GiveUp(ss)) = Len(ss)
           /\ \A k \in 1 .. Len(ss) :
                 LET hit == k = ctl /\ ss[k].phase = "open"
                 IN /\ GiveUp(ss)[k].phase = IF hit THEN "closed" ELSE ss[k].phase
                    /\ GiveUp(ss)[k].late <=> (ss[k].late \/ ss[k].phase = "fetching")
                    /\ GiveUp(ss)[k].silent <=> (ss[k].silent \/ hit)
<1> DEFINE A == Aborted(ss)
           Left(k) == IF ss[k].phase = "fetching" THEN [A[k] EXCEPT !.late = TRUE] ELSE A[k]
<1>0. ss \in Seq(Stream) /\ DOMAIN ss = 1 .. Len(ss) /\ Len(ss) \in Nat
  BY DEF StreamsType
<1>1. /\ A \in Seq(Stream) /\ Len(A) = Len(ss)
      /\ \A k \in 1 .. Len(ss) :
            LET hit == k = ctl /\ ss[k].phase = "open"
            IN /\ A[k].phase = IF hit THEN "closed" ELSE ss[k].phase
               /\ A[k].late <=> ss[k].late
               /\ A[k].silent <=> (ss[k].silent \/ hit)
  BY AbortedFields
<1>2. GiveUp(ss) = [k \in 1 .. Len(ss) |-> Left(k)]
  BY <1>0 DEF GiveUp
<1> HIDE DEF A
<1>3. ASSUME NEW k \in 1 .. Len(ss)
      PROVE  LET hit == k = ctl /\ ss[k].phase = "open"
             IN /\ Left(k) \in Stream
                /\ Left(k).phase = IF hit THEN "closed" ELSE ss[k].phase
                /\ Left(k).late <=> (ss[k].late \/ ss[k].phase = "fetching")
                /\ Left(k).silent <=> (ss[k].silent \/ hit)
  <2>1. A[k] \in Stream
    BY <1>1
  <2>3. [A[k] EXCEPT !.late = TRUE] \in Stream
        /\ [A[k] EXCEPT !.late = TRUE].phase = A[k].phase
        /\ [A[k] EXCEPT !.late = TRUE].late
        /\ ([A[k] EXCEPT !.late = TRUE].silent <=> A[k].silent)
    BY <2>1 DEF Stream
  <2>4. CASE ss[k].phase = "fetching"
    <3>1. Left(k) = [A[k] EXCEPT !.late = TRUE]
      BY <2>4
    <3> HIDE DEF Left
    <3> QED BY <1>1, <2>3, <2>4, <3>1
  <2>5. CASE ss[k].phase # "fetching"
    <3>1. Left(k) = A[k]
      BY <2>5
    <3> HIDE DEF Left
    <3> QED BY <1>1, <2>1, <2>5, <3>1
  <2> QED BY <2>4, <2>5
<1> HIDE DEF Left
<1>4. /\ [k \in 1 .. Len(ss) |-> Left(k)] \in Seq(Stream)
      /\ Len([k \in 1 .. Len(ss) |-> Left(k)]) = Len(ss)
  BY <1>0, <1>3
<1>5. \A k \in 1 .. Len(ss) : GiveUp(ss)[k] = Left(k)
  BY <1>2
<1> QED BY <1>2, <1>3, <1>4, <1>5
\* One stream changes, and stays as late as it was.
Changed(ss, tt, k) ==
    /\ tt \in Seq(Stream) /\ Len(tt) = Len(ss)
    /\ \A j \in 1 .. Len(ss) : j # k => tt[j] = ss[j]
    /\ tt[k].late <=> ss[k].late

LEMMA Updated ==
    ASSUME NEW ss \in Seq(Stream), NEW k \in 1 .. Len(ss), NEW t \in Stream,
           t.late <=> ss[k].late
    PROVE  Changed(ss, [ss EXCEPT ![k] = t], k) /\ [ss EXCEPT ![k] = t][k] = t
BY DEF Changed

LEMMA ResolvesFields ==
    ASSUME streams \in Seq(Stream), NEW k \in 1 .. Latest, Resolves(k)
    PROVE  /\ Changed(streams, streams', k) /\ streams[k].phase = "fetching"
           /\ streams'[k].phase = "open" /\ (streams'[k].silent <=> streams[k].silent)
           /\ ctl' = k
<1> DEFINE t == [streams[k] EXCEPT !.phase = "open"]
<1>0. streams[k] \in Stream
  BY ElementOf DEF Latest
<1>1. t \in Stream /\ t.phase = "open"
      /\ (t.late <=> streams[k].late) /\ (t.silent <=> streams[k].silent)
  BY <1>0 DEF Stream
<1>2. streams' = [streams EXCEPT ![k] = t]
  BY DEF Resolves
<1> HIDE DEF t
<1>3. Changed(streams, [streams EXCEPT ![k] = t], k) /\ [streams EXCEPT ![k] = t][k] = t
  BY <1>1, Updated DEF Latest
<1> QED BY <1>1, <1>2, <1>3 DEF Resolves

LEMMA AnswersFields ==
    ASSUME streams \in Seq(Stream), NEW k \in 1 .. Latest, Answers(k)
    PROVE  /\ Changed(streams, streams', k) /\ streams[k].phase = "fetching"
           /\ streams'[k].phase = "closed" /\ (streams'[k].silent <=> streams[k].silent)
           /\ ctl' = 0
<1> DEFINE t == [streams[k] EXCEPT !.phase = "closed"]
<1>0. streams[k] \in Stream
  BY ElementOf DEF Latest
<1>1. t \in Stream /\ t.phase = "closed"
      /\ (t.late <=> streams[k].late) /\ (t.silent <=> streams[k].silent)
  BY <1>0 DEF Stream
<1>2. streams' = [streams EXCEPT ![k] = t]
  BY DEF Answers
<1> HIDE DEF t
<1>3. Changed(streams, [streams EXCEPT ![k] = t], k) /\ [streams EXCEPT ![k] = t][k] = t
  BY <1>1, Updated DEF Latest
<1> QED BY <1>1, <1>2, <1>3 DEF Answers

LEMMA LastEventFields ==
    ASSUME streams \in Seq(Stream), NEW k \in 1 .. Latest, LastEvent(k)
    PROVE  /\ Changed(streams, streams', k) /\ streams[k].phase = "open"
           /\ streams'[k].phase = "closed" /\ (streams'[k].silent <=> streams[k].silent)
           /\ ctl' = ctl
<1> DEFINE t == [streams[k] EXCEPT !.phase = "closed"]
<1>0. streams[k] \in Stream
  BY ElementOf DEF Latest
<1>1. t \in Stream /\ t.phase = "closed"
      /\ (t.late <=> streams[k].late) /\ (t.silent <=> streams[k].silent)
  BY <1>0 DEF Stream
<1>2. streams' = [streams EXCEPT ![k] = t]
  BY DEF LastEvent
<1> HIDE DEF t
<1>3. Changed(streams, [streams EXCEPT ![k] = t], k) /\ [streams EXCEPT ![k] = t][k] = t
  BY <1>1, Updated DEF Latest
<1> QED BY <1>1, <1>2, <1>3 DEF LastEvent

LEMMA EndsSilentlyFields ==
    ASSUME streams \in Seq(Stream), NEW k \in 1 .. Latest, EndsSilently(k)
    PROVE  /\ Changed(streams, streams', k) /\ streams[k].phase = "open"
           /\ streams'[k].phase = "closed" /\ streams'[k].silent
           /\ ctl' = ctl
<1> DEFINE t == [streams[k] EXCEPT !.phase = "closed", !.silent = TRUE]
<1>0. streams[k] \in Stream
  BY ElementOf DEF Latest
<1>1. t \in Stream /\ t.phase = "closed" /\ (t.late <=> streams[k].late) /\ t.silent
  BY <1>0 DEF Stream
<1>2. streams' = [streams EXCEPT ![k] = t]
  BY DEF EndsSilently
<1> HIDE DEF t
<1>3. Changed(streams, [streams EXCEPT ![k] = t], k) /\ [streams EXCEPT ![k] = t][k] = t
  BY <1>1, Updated DEF Latest
<1> QED BY <1>1, <1>2, <1>3 DEF EndsSilently

LEMMA EventFields ==
    ASSUME streams \in Seq(Stream), NEW k \in 1 .. Latest, Event(k)
    PROVE  /\ Changed(streams, streams', k) /\ streams[k].phase = "open"
           /\ streams'[k].phase = "open" /\ (streams'[k].silent <=> streams[k].silent)
           /\ ctl' = ctl
<1> DEFINE e == streams[k].events
           t == [streams[k] EXCEPT !.events = e + 1]
<1>1. e + 1 \in 0 .. MaxEvents
  <2>1. e \in Nat /\ e <= EventCount /\ EventCount \in Nat
    BY StreamFields, EventsCounted DEF Latest
  <2>2. EventCount < MaxEvents
    BY DEF Event
  <2> HIDE DEF e
  <2> QED BY <2>1, <2>2, Bounds
<1>2. t \in Stream /\ t.phase = streams[k].phase
      /\ (t.late <=> streams[k].late) /\ (t.silent <=> streams[k].silent)
  <2> HIDE DEF e
  <2>1. streams[k] \in Stream
    BY ElementOf DEF Latest
  <2> QED BY <1>1, <2>1 DEF Stream
<1>3. streams' = [streams EXCEPT ![k] = t]
  BY DEF Event
<1> HIDE DEF t
<1>4. Changed(streams, [streams EXCEPT ![k] = t], k) /\ [streams EXCEPT ![k] = t][k] = t
  BY <1>2, Updated DEF Latest
<1> QED BY <1>2, <1>3, <1>4 DEF Event
-----------------------------------------------------------------------------
(* One stream at a time, as long as none was given up before it resolved: the *)
(* invariant of the streams and of the controller.                            *)

OnTime(ss, n) == \A k \in 1 .. n : ~ss[k].late

OneAtATime(ss, c) ==
    OnTime(ss, Len(ss) - 1) =>
        /\ \A k \in 1 .. Len(ss) - 1 : ss[k].phase = "closed"
        /\ \A k \in 1 .. Len(ss) : ss[k].phase = "open" => c = k

StreamInv == StreamsType(streams, ctl) /\ OneAtATime(streams, ctl)

\* Nothing is left on time once it is given up.
GivenUp(ss) ==
    OnTime(ss, Len(ss) - 1) =>
        /\ \A k \in 1 .. Len(ss) - 1 : ss[k].phase = "closed"
        /\ \A k \in 1 .. Len(ss) : ss[k].phase # "open"
        /\ \A k \in 1 .. Len(ss) : ss[k].phase = "fetching" => ss[k].late

LEMMA GiveUpInv ==
    ASSUME StreamInv
    PROVE  /\ GiveUp(streams) \in Seq(Stream) /\ Len(GiveUp(streams)) = Latest
           /\ GivenUp(GiveUp(streams))
           /\ \A d : OneAtATime(GiveUp(streams), d)
<1> DEFINE g == GiveUp(streams)
           n == Len(streams)
<1>1. streams \in Seq(Stream) /\ ctl \in 0 .. n /\ n \in Nat /\ OneAtATime(streams, ctl)
  BY DEF StreamInv, StreamsType
<1>2. /\ g \in Seq(Stream) /\ Len(g) = n
      /\ \A k \in 1 .. n :
            LET hit == k = ctl /\ streams[k].phase = "open"
            IN /\ g[k].phase = IF hit THEN "closed" ELSE streams[k].phase
               /\ g[k].late <=> (streams[k].late \/ streams[k].phase = "fetching")
  BY GiveUpFields DEF StreamInv
<1> HIDE DEF g
<1>3. ASSUME OnTime(g, n - 1)
      PROVE  /\ \A k \in 1 .. n - 1 : g[k].phase = "closed"
             /\ \A k \in 1 .. n : g[k].phase # "open"
             /\ \A k \in 1 .. n : g[k].phase = "fetching" => g[k].late
  <2>1. \A k \in 1 .. n - 1 : k \in 1 .. n
    BY <1>1
  <2>2. OnTime(streams, n - 1)
    BY <1>2, <1>3, <2>1 DEF OnTime
  <2>3. /\ \A k \in 1 .. n - 1 : streams[k].phase = "closed"
        /\ \A k \in 1 .. n : streams[k].phase = "open" => ctl = k
    BY <1>1, <2>2 DEF OneAtATime
  <2> HIDE DEF n
  <2>4. \A k \in 1 .. n - 1 : g[k].phase = "closed"
    BY <1>2, <2>1, <2>3
  <2>5. \A k \in 1 .. n : g[k].phase # "open"
    BY <1>2, <2>3
  <2>6. \A k \in 1 .. n : g[k].phase = "fetching" => g[k].late
    BY <1>2
  <2> QED BY <2>4, <2>5, <2>6
<1>4. GivenUp(g) /\ \A d : OneAtATime(g, d)
  <2> HIDE DEF n
  <2> QED BY <1>2, <1>3 DEF GivenUp, OneAtATime
<1> QED BY <1>2, <1>4 DEF g, Latest

\* The request of the next question is the only one on time.
LEMMA FetchInv ==
    ASSUME StreamInv
    PROVE  LET f == Fetch(GiveUp(streams))
               n == Latest + 1
           IN /\ StreamsType(f, ctl) /\ OneAtATime(f, ctl) /\ Len(f) = n
              /\ f[n].phase = "fetching" /\ ~f[n].late /\ ~f[n].silent
<1> DEFINE g == GiveUp(streams)
           r == [phase |-> "fetching", events |-> 0, late |-> FALSE, silent |-> FALSE]
           n == Latest + 1
<1>1. Latest \in Nat /\ ctl \in 0 .. Latest
  BY DEF StreamInv, StreamsType, Latest
<1>2. g \in Seq(Stream) /\ Len(g) = Latest /\ GivenUp(g)
  BY GiveUpInv
<1>3. r \in Stream /\ r.phase = "fetching" /\ ~r.late /\ ~r.silent
  BY Bounds DEF Stream
<1> HIDE DEF g, r
<1>4. /\ Append(g, r) \in Seq(Stream) /\ Len(Append(g, r)) = n
      /\ \A k \in 1 .. Latest : Append(g, r)[k] = g[k]
      /\ Append(g, r)[n] = r
  BY <1>1, <1>2, <1>3
<1> DEFINE f == Append(g, r)
<1>5. Fetch(GiveUp(streams)) = f
  BY DEF Fetch, g, r
<1>6. n - 1 = Latest /\ ctl \in 0 .. n
  BY <1>1
<1> HIDE DEF f
<1>7. ASSUME OnTime(f, Latest)
      PROVE  /\ \A k \in 1 .. Latest : f[k].phase = "closed"
             /\ \A k \in 1 .. n : f[k].phase # "open"
  <2>1. \A k \in 1 .. Latest : f[k] = g[k]
    BY <1>4 DEF f
  <2>2. \A k \in 1 .. Latest - 1 : k \in 1 .. Latest
    BY <1>1
  <2>3. OnTime(g, Latest - 1) /\ OnTime(g, Latest)
    BY <1>7, <2>1, <2>2 DEF OnTime
  <2>4. \A k \in 1 .. Latest : g[k].phase # "open" /\ (g[k].phase = "fetching" => g[k].late)
    BY <1>2, <2>3 DEF GivenUp
  <2>5. \A k \in 1 .. Latest : g[k].phase \in {"fetching", "open", "closed"}
    BY <1>2, StreamFields
  <2>6. \A k \in 1 .. Latest : f[k].phase = "closed"
    BY <2>1, <2>3, <2>4, <2>5 DEF OnTime
  <2>7. f[n].phase = "fetching"
    BY <1>3, <1>4 DEF f
  <2>8. \A k \in 1 .. n : k = n \/ k \in 1 .. Latest
    BY <1>1
  <2> HIDE DEF n
  <2> QED BY <2>6, <2>7, <2>8
<1>8. OneAtATime(f, ctl)
  <2>1. Len(f) = n
    BY <1>4 DEF f
  <2> HIDE DEF n
  <2> QED BY <1>6, <1>7, <2>1 DEF OneAtATime
<1>9. StreamsType(f, ctl) /\ Len(f) = n /\ f[n] = r
  BY <1>4, <1>6 DEF f, StreamsType
<1> HIDE DEF n
<1> QED BY <1>3, <1>5, <1>8, <1>9 DEF n

LEMMA AbortedInv ==
    ASSUME StreamInv
    PROVE  /\ StreamsType(Aborted(streams), ctl) /\ OneAtATime(Aborted(streams), ctl)
           /\ Len(Aborted(streams)) = Latest
<1> DEFINE A == Aborted(streams)
           n == Len(streams)
<1>1. streams \in Seq(Stream) /\ ctl \in 0 .. n /\ n \in Nat /\ OneAtATime(streams, ctl)
  BY DEF StreamInv, StreamsType
<1>2. /\ A \in Seq(Stream) /\ Len(A) = n
      /\ \A k \in 1 .. n :
            LET hit == k = ctl /\ streams[k].phase = "open"
            IN /\ A[k].phase = IF hit THEN "closed" ELSE streams[k].phase
               /\ A[k].late <=> streams[k].late
  BY AbortedFields DEF StreamInv
<1> HIDE DEF A
<1>3. ASSUME OnTime(A, n - 1)
      PROVE  /\ \A k \in 1 .. n - 1 : A[k].phase = "closed"
             /\ \A k \in 1 .. n : A[k].phase = "open" => ctl = k
  <2>1. \A k \in 1 .. n - 1 : k \in 1 .. n
    BY <1>1
  <2>2. OnTime(streams, n - 1)
    BY <1>2, <1>3, <2>1 DEF OnTime
  <2>3. /\ \A k \in 1 .. n - 1 : streams[k].phase = "closed"
        /\ \A k \in 1 .. n : streams[k].phase = "open" => ctl = k
    BY <1>1, <2>2 DEF OneAtATime
  <2> HIDE DEF n
  <2> QED BY <1>2, <2>1, <2>3
<1>4. OneAtATime(A, ctl)
  <2> HIDE DEF n
  <2> QED BY <1>2, <1>3 DEF OneAtATime
<1> QED BY <1>1, <1>2, <1>4 DEF A, Latest, StreamsType

\* A step of one stream: only the latest is under way, while all are on time.
LEMMA ChangedInv ==
    ASSUME NEW ss, NEW c, StreamsType(ss, c), OneAtATime(ss, c),
           NEW tt, NEW d \in 0 .. Len(ss), NEW k \in 1 .. Len(ss), Changed(ss, tt, k),
           ss[k].phase # "closed",
           tt[k].phase = "open" => d = k \/ (d = c /\ ss[k].phase = "open")
    PROVE  /\ StreamsType(tt, d) /\ OneAtATime(tt, d)
           /\ OnTime(ss, Len(ss) - 1) => k = Len(ss)
           /\ \A n \in 0 .. Len(ss) : OnTime(tt, n) <=> OnTime(ss, n)
<1> DEFINE n == Len(ss)
<1>1. /\ ss \in Seq(Stream) /\ n \in Nat
      /\ tt \in Seq(Stream) /\ Len(tt) = n
      /\ \A j \in 1 .. n : j # k => tt[j] = ss[j]
      /\ tt[k].late <=> ss[k].late
  BY DEF StreamsType, Changed
<1>2. \A j \in 1 .. n : tt[j].late <=> ss[j].late
  BY <1>1
<1>3. \A m \in 0 .. n : OnTime(tt, m) <=> OnTime(ss, m)
  <2>1. \A m \in 0 .. n : \A j \in 1 .. m : j \in 1 .. n
    BY <1>1
  <2> HIDE DEF n
  <2> QED BY <1>2, <2>1 DEF OnTime
<1>4. n - 1 \in 0 .. n
  BY <1>1
<1>5. ASSUME OnTime(ss, n - 1)
      PROVE  /\ \A j \in 1 .. n - 1 : ss[j].phase = "closed"
             /\ \A j \in 1 .. n : ss[j].phase = "open" => c = j
  BY <1>5 DEF OneAtATime
<1>6. ASSUME OnTime(ss, n - 1) PROVE k = n
  <2>1. k \notin 1 .. n - 1
    BY <1>5, <1>6
  <2> QED BY <1>1, <2>1
<1>7. ASSUME OnTime(tt, n - 1)
      PROVE  /\ \A j \in 1 .. n - 1 : tt[j].phase = "closed"
             /\ \A j \in 1 .. n : tt[j].phase = "open" => d = j
  <2>1. OnTime(ss, n - 1)
    BY <1>3, <1>4, <1>7
  <2>2. k = n
    BY <1>6, <2>1
  <2>3. \A j \in 1 .. n - 1 : j \in 1 .. n /\ j # n
    BY <1>1
  <2>4. \A j \in 1 .. n : j = n \/ j \in 1 .. n - 1
    BY <1>1
  <2> HIDE DEF n
  <2>5. \A j \in 1 .. n - 1 : tt[j].phase = "closed"
    BY <1>1, <1>5, <2>1, <2>2, <2>3
  <2>6. tt[n].phase = "open" => d = n
    BY <1>5, <2>1, <2>2
  <2> QED BY <2>4, <2>5, <2>6
<1>8. OneAtATime(tt, d)
  <2> HIDE DEF n
  <2> QED BY <1>1, <1>7 DEF OneAtATime
<1>9. StreamsType(tt, d)
  BY <1>1 DEF StreamsType
<1> QED BY <1>3, <1>6, <1>8, <1>9
-----------------------------------------------------------------------------
(* isStreaming of a host against its streams. *)

Under(ss) == Len(ss) > 0 /\ ss[Len(ss)].phase # "closed"

Accounted(u, ss) ==
    u.mounted /\ u.streaming => Len(ss) > 0 /\ (Under(ss) \/ ss[Len(ss)].silent)

Busy(u, ss) == u.mounted /\ OnTime(ss, Len(ss)) /\ Under(ss) => u.streaming

Leakless(h, u, ss) ==
    ~u.mounted /\ h # "hook" /\ OnTime(ss, Len(ss) - 1) =>
        \A k \in 1 .. Len(ss) : ss[k].phase # "closed" => ss[k].late

Shown(h, u, ss) == Accounted(u, ss) /\ Busy(u, ss) /\ Leakless(h, u, ss)

\* A request was sent.
LEMMA ShownFetch ==
    ASSUME StreamInv, NEW h, NEW u, u.mounted, u.streaming
    PROVE  Shown(h, u, Fetch(GiveUp(streams)))
<1> DEFINE f == Fetch(GiveUp(streams))
<1>1. Len(f) = Latest + 1 /\ f[Latest + 1].phase = "fetching" /\ Latest \in Nat
  BY FetchInv DEF StreamInv, StreamsType, Latest
<1>2. Under(f)
  BY <1>1 DEF Under
<1> HIDE DEF f
<1>3. Shown(h, u, f)
  BY <1>1, <1>2 DEF Shown, Accounted, Busy, Leakless
<1> QED BY <1>3 DEF f

\* Everything was given up, and isStreaming cleared or the host unmounted.
LEMMA ShownGiveUp ==
    ASSUME StreamInv, NEW h, NEW u, ~u.mounted \/ ~u.streaming
    PROVE  Shown(h, u, GiveUp(streams)) /\ (OnTime(GiveUp(streams), Latest) => ~Under(GiveUp(streams)))
<1> DEFINE g == GiveUp(streams)
           n == Latest
<1>1. g \in Seq(Stream) /\ Len(g) = n /\ GivenUp(g) /\ n \in Nat
  BY GiveUpInv DEF StreamInv, StreamsType, Latest
<1> HIDE DEF g, n
<1>2. \A k \in 1 .. n : g[k].phase \in {"fetching", "open", "closed"}
  BY <1>1, StreamFields
<1>3. ASSUME OnTime(g, n - 1), NEW k \in 1 .. n, g[k].phase # "closed" PROVE g[k].late
  BY <1>1, <1>2, <1>3 DEF GivenUp
<1>4. ASSUME OnTime(g, n), Under(g) PROVE FALSE
  <2>1. n \in 1 .. n /\ g[n].phase # "closed" /\ \A k \in 1 .. n - 1 : k \in 1 .. n
    BY <1>1, <1>4 DEF Under
  <2>2. OnTime(g, n - 1)
    BY <1>4, <2>1 DEF OnTime
  <2> QED BY <1>3, <1>4, <2>1, <2>2 DEF OnTime
<1>5. Accounted(u, g)
  BY DEF Accounted
<1>6. Busy(u, g) /\ Leakless(h, u, g)
  BY <1>1, <1>3, <1>4 DEF Busy, Leakless
<1> QED BY <1>4, <1>5, <1>6 DEF Shown, g, n

\* The stream that could be aborted was, or the hook left it.
LEMMA ShownAborted ==
    ASSUME StreamInv, NEW h, NEW u, Shown(h, u, streams), NEW v,
           v.mounted, u.mounted, v.streaming <=> u.streaming
    PROVE  Shown(h, v, Aborted(streams))
<1> DEFINE A == Aborted(streams)
           n == Len(streams)
<1>1. streams \in Seq(Stream) /\ n \in Nat
  BY DEF StreamInv, StreamsType
<1>2. /\ Len(A) = n
      /\ \A k \in 1 .. n :
            LET hit == k = ctl /\ streams[k].phase = "open"
            IN /\ A[k].phase = IF hit THEN "closed" ELSE streams[k].phase
               /\ A[k].late <=> streams[k].late
               /\ A[k].silent <=> (streams[k].silent \/ hit)
  BY AbortedFields DEF StreamInv
<1> HIDE DEF A
<1>3. n > 0 => n \in 1 .. n
  BY <1>1
<1>4. OnTime(A, n) <=> OnTime(streams, n)
  BY <1>2 DEF OnTime
<1>5. Under(A) => Under(streams)
  BY <1>2, <1>3 DEF Under
<1>6. Accounted(v, A)
  BY <1>2, <1>3 DEF Shown, Accounted, Under
<1>7. Busy(v, A) /\ Leakless(h, v, A)
  BY <1>2, <1>4, <1>5 DEF Shown, Busy, Leakless
<1> QED BY <1>6, <1>7 DEF Shown, A

\* A step of one stream.
LEMMA ShownChanged ==
    ASSUME StreamInv, NEW h, NEW u, Shown(h, u, streams),
           NEW tt, NEW d \in 0 .. Latest, NEW k \in 1 .. Latest, Changed(streams, tt, k),
           streams[k].phase # "closed",
           tt[k].phase = "open" => d = k \/ (d = ctl /\ streams[k].phase = "open"),
           NEW v, v.mounted <=> u.mounted,
           \/ (v.streaming <=> u.streaming) /\ (tt[k].phase # "closed" \/ tt[k].silent)
           \/ (v.mounted => ~v.streaming) /\ tt[k].phase = "closed"
    PROVE  Shown(h, v, tt)
<1> DEFINE n == Len(streams)
<1>1. streams \in Seq(Stream) /\ n \in Nat /\ StreamsType(streams, ctl) /\ OneAtATime(streams, ctl)
  BY DEF StreamInv, StreamsType
<1>2. /\ Len(tt) = n
      /\ \A j \in 1 .. n : j # k => tt[j] = streams[j]
      /\ tt[k].late <=> streams[k].late
      /\ k \in 1 .. n
  BY DEF Changed, Latest
<1>3. /\ OnTime(streams, n - 1) => k = n
      /\ \A m \in 0 .. n : OnTime(tt, m) <=> OnTime(streams, m)
  <2>1. d \in 0 .. Len(streams) /\ k \in 1 .. Len(streams)
    BY DEF Latest
  <2> QED BY <1>1, <2>1, ChangedInv
<1>4. n \in 1 .. n /\ n \in 0 .. n /\ n - 1 \in 0 .. n /\ \A j \in 1 .. n - 1 : j \in 1 .. n
  BY <1>1, <1>2
<1>5. OnTime(streams, n) => k = n
  BY <1>3, <1>4 DEF OnTime
<1> HIDE DEF n
<1>6. Under(tt) => Under(streams)
  BY <1>2, <1>4 DEF Under, n
<1>7. Accounted(v, tt)
  <2>1. CASE (v.streaming <=> u.streaming) /\ (tt[k].phase # "closed" \/ tt[k].silent)
    <3>1. CASE k = n
      BY <1>1, <1>2, <1>4, <2>1, <3>1 DEF Accounted, Under, Shown
    <3>2. CASE k # n
      <4>1. tt[n] = streams[n]
        BY <1>2, <1>4, <3>2
      <4> QED BY <1>2, <1>4, <2>1, <4>1 DEF Accounted, Under, Shown, n
    <3> QED BY <3>1, <3>2
  <2>2. CASE v.mounted => ~v.streaming
    BY <2>2 DEF Accounted
  <2> QED BY <2>1, <2>2
<1>8. Busy(v, tt)
  <2> SUFFICES ASSUME v.mounted, OnTime(tt, n), Under(tt) PROVE v.streaming
    BY <1>2 DEF Busy
  <2>1. OnTime(streams, n) /\ k = n
    BY <1>3, <1>4, <1>5
  <2>2. tt[n].phase # "closed"
    BY <1>2 DEF Under
  <2>3. u.streaming
    BY <1>6, <2>1 DEF Shown, Busy, n
  <2> QED BY <2>1, <2>2, <2>3
<1>9. Leakless(h, v, tt)
  <2> SUFFICES ASSUME ~v.mounted, h # "hook", OnTime(tt, n - 1),
                      NEW j \in 1 .. n, tt[j].phase # "closed"
               PROVE  tt[j].late
    BY <1>2 DEF Leakless
  <2>1. OnTime(streams, n - 1)
    BY <1>3, <1>4
  <2>2. streams[j].phase # "closed"
    BY <1>2
  <2>3. streams[j].late
    BY <2>1, <2>2 DEF Shown, Leakless, n
  <2> QED BY <1>2, <2>3
<1> QED BY <1>7, <1>8, <1>9 DEF Shown
-----------------------------------------------------------------------------
(* The state of AnswerResults and of useAnswerStream. *)

AnswerOf(h, u, ss) ==
    /\ u \in AnswerUI(Len(ss))
    /\ h = "hook" => u.rating = NoRating
    /\ u.rating # NoRating => u.rated = u.query
    /\ OnTime(ss, Len(ss)) => \A i \in DOMAIN u.answer : u.answer[i].stream = Len(ss)

LEMMA StartStateFields ==
    ASSUME NEW n, NEW m, NEW u, u \in AnswerUI(n)
    PROVE  LET v == StartState(u)
           IN /\ v \in AnswerUI(m) /\ v.answer = <<>> /\ v.streaming
              /\ v.query = u.query /\ v.rating = u.rating /\ v.rated = u.rated
              /\ v.mounted = u.mounted
<1>1. <<>> \in Seq([stream : 1 .. m, id : CitedIds])
  OBVIOUS
<1> DEFINE C(k) == Seq([stream : 1 .. k, id : CitedIds])
           UI(S) == [query : Questions \cup {""}, submitted : BOOLEAN, cleanup : BOOLEAN,
                     answer : S, extras : SUBSET Parts, streaming : BOOLEAN,
                     error : BOOLEAN, mounted : BOOLEAN, rating : 0 .. NoRating,
                     rated : Questions \cup {""}, sent : BOOLEAN]
<1>2. u \in UI(C(n)) /\ AnswerUI(m) = UI(C(m)) /\ <<>> \in C(m)
  BY <1>1 DEF AnswerUI
<1> HIDE DEF C
<1> DEFINE v == StartState(u)
<1>3. v \in UI(C(m))
  BY <1>2 DEF StartState
<1>4. /\ v.answer = <<>> /\ v.streaming /\ v.mounted = u.mounted
      /\ v.query = u.query /\ v.rating = u.rating /\ v.rated = u.rated
  BY <1>2 DEF StartState
<1> QED BY <1>2, <1>3, <1>4

\* Another query resets the rating.
LEMMA ResetFeedbackFields ==
    ASSUME NEW n, ui.rating # NoRating => ui.rated = ui.query,
           NEW u, u \in AnswerUI(n), u.rating = ui.rating, u.rated = ui.rated
    PROVE  LET v == ResetFeedback(u)
           IN /\ v \in AnswerUI(n) /\ v.answer = u.answer
              /\ v.rating # NoRating => v.rated = v.query
              /\ v.rating \in {u.rating, NoRating}
              /\ v.mounted = u.mounted /\ v.streaming = u.streaming
<1>1. NoRating \in 0 .. NoRating
  BY AnswerAssumption DEF NoRating
<1>2. CASE u.query = ui.query
  BY <1>2 DEF ResetFeedback
<1>3. CASE u.query # ui.query
  <2> DEFINE v == [u EXCEPT !.rating = NoRating, !.rated = "", !.sent = FALSE]
  <2>1. ResetFeedback(u) = v
    BY <1>3 DEF ResetFeedback
  <2>2. /\ v \in AnswerUI(n) /\ v.answer = u.answer /\ v.rating = NoRating
        /\ v.mounted = u.mounted /\ v.streaming = u.streaming
    BY <1>1 DEF AnswerUI
  <2> QED BY <2>1, <2>2
<1> QED BY <1>2, <1>3
-----------------------------------------------------------------------------
(* The turns of ChatBar. *)

ChatOf(u, ss) ==
    /\ u \in ChatUI(Len(ss))
    /\ \A i \in DOMAIN u.turns : ToSet(u.turns[i].msg) \subseteq {u.turns[i].id}
    /\ u.mounted /\ OnTime(ss, Len(ss)) /\ Under(ss) =>
          \A i \in DOMAIN u.turns : u.turns[i].id = Len(ss) => u.turns[i].streaming

-----------------------------------------------------------------------------
(* The inductive invariant: the streams, and each host against them. *)

IInv ==
    /\ StreamInv /\ Latest <= MaxStreams
    /\ host \in {"answer", "hook", "chat"}
    /\ Shown(host, ui, streams)
    /\ host # "chat" => AnswerOf(host, ui, streams)
    /\ host = "chat" => ChatOf(ui, streams)

\* What the invariant says while an answer is shown.
LEMMA AnswerFacts ==
    ASSUME IInv, host # "chat"
    PROVE  /\ StreamInv /\ Shown(host, ui, streams) /\ host \in {"answer", "hook"}
           /\ streams \in Seq(Stream) /\ Latest \in Nat /\ ctl \in 0 .. Latest
           /\ Latest <= MaxStreams
           /\ ui \in AnswerUI(Latest)
           /\ host = "hook" => ui.rating = NoRating
           /\ ui.rating # NoRating => ui.rated = ui.query
           /\ OnTime(streams, Latest) => \A i \in DOMAIN ui.answer : ui.answer[i].stream = Latest
BY DEF IInv, AnswerOf, StreamInv, StreamsType, Latest

\* A step of an answer's host ends in the invariant when its parts are there.
LEMMA AnswerStepInv ==
    ASSUME host # "chat", host \in {"answer", "hook"}, host' = host,
           StreamsType(streams', ctl'), OneAtATime(streams', ctl'), Latest' <= MaxStreams,
           Shown(host, ui', streams'), AnswerOf(host, ui', streams')
    PROVE  IInv'
BY DEF IInv, StreamInv, AnswerOf, Shown

LEMMA AnswerSubmitInv ==
    ASSUME IInv, NEW q \in Questions, AnswerSubmit(q)
    PROVE  IInv'
<1>1. host = "answer" /\ host # "chat" /\ ui.mounted /\ Latest < MaxStreams
  BY DEF AnswerSubmit
<1>2. /\ StreamInv /\ ui \in AnswerUI(Latest)
      /\ ui.rating # NoRating => ui.rated = ui.query
      /\ Latest \in Nat
  BY <1>1, AnswerFacts
<1> DEFINE m == Latest + 1
           f == Fetch(GiveUp(streams))
           w == [ui EXCEPT !.query = q, !.submitted = TRUE, !.cleanup = TRUE]
           u == StartState(w)
           v == ResetFeedback(u)
<1>3. ui' = v /\ streams' = f /\ host' = host /\ ctl' = ctl
  BY DEF AnswerSubmit
<1>4. /\ StreamsType(f, ctl) /\ OneAtATime(f, ctl) /\ Len(f) = m
  BY <1>2, FetchInv
<1>5. /\ w \in AnswerUI(Latest) /\ w.rating = ui.rating /\ w.rated = ui.rated
      /\ w.mounted = ui.mounted
  BY <1>2 DEF AnswerUI
<1> HIDE DEF w, f
<1>6. /\ u \in AnswerUI(m) /\ u.rating = ui.rating /\ u.rated = ui.rated
      /\ u.answer = <<>> /\ u.mounted = ui.mounted /\ u.streaming
  BY <1>5, StartStateFields DEF w
<1> HIDE DEF u
<1>7. /\ v \in AnswerUI(m) /\ v.answer = <<>> /\ v.mounted /\ v.streaming
      /\ v.rating # NoRating => v.rated = v.query
  BY <1>1, <1>2, <1>6, ResetFeedbackFields
<1> HIDE DEF v
<1>8. AnswerOf(host, v, f)
  BY <1>1, <1>4, <1>7 DEF AnswerOf
<1>9. Shown(host, v, f)
  BY <1>2, <1>7, ShownFetch DEF f
<1>10. Latest' <= MaxStreams
  <2>1. Latest' = m /\ MaxStreams \in Nat
    BY <1>3, <1>4, Bounds DEF Latest
  <2> QED BY <1>1, <1>2, <2>1
<1>11. host' = host /\ ui' = v /\ streams' = f /\ ctl' = ctl
  BY <1>3 DEF v, u, w, f
<1> QED BY <1>1, <1>4, <1>8, <1>9, <1>10, <1>11, AnswerStepInv
\* The text stays, and no stream is on time again.
LEMMA AnswerKept ==
    ASSUME IInv, host # "chat", NEW v, v \in AnswerUI(Latest), v.answer = ui.answer,
           v.rating # NoRating => v.rated = v.query, host = "hook" => v.rating = NoRating,
           NEW tt, Len(tt) = Latest, OnTime(tt, Latest) => OnTime(streams, Latest)
    PROVE  AnswerOf(host, v, tt)
BY AnswerFacts DEF AnswerOf

LEMMA GiveUpOnTime ==
    ASSUME StreamInv
    PROVE  OnTime(GiveUp(streams), Latest) => OnTime(streams, Latest)
<1>1. \A k \in 1 .. Latest : streams[k].late => GiveUp(streams)[k].late
  BY GiveUpFields DEF StreamInv, Latest
<1> QED BY <1>1 DEF OnTime

LEMMA AbortedOnTime ==
    ASSUME StreamInv
    PROVE  OnTime(Aborted(streams), Latest) => OnTime(streams, Latest)
<1>1. \A k \in 1 .. Latest : streams[k].late => Aborted(streams)[k].late
  BY AbortedFields DEF StreamInv, Latest
<1> QED BY <1>1 DEF OnTime

LEMMA AnswerCleanupInv ==
    ASSUME IInv, NEW q \in Questions \cup {""}, AnswerCleanup(q)
    PROVE  IInv'
<1>1. host = "answer" /\ host # "chat" /\ ui.mounted
  BY DEF AnswerCleanup
<1>2. /\ StreamInv /\ Shown(host, ui, streams) /\ ui \in AnswerUI(Latest)
      /\ ui.rating # NoRating => ui.rated = ui.query
      /\ Latest <= MaxStreams
  BY <1>1, AnswerFacts
<1> DEFINE u == [ui EXCEPT !.query = q, !.cleanup = FALSE, !.submitted = @ /\ q = ui.query]
           v == ResetFeedback(u)
           tt == IF ui.cleanup THEN Aborted(streams) ELSE streams
<1>3. ui' = v /\ streams' = tt /\ host' = host /\ ctl' = ctl
  BY DEF AnswerCleanup
<1>4. /\ u \in AnswerUI(Latest) /\ u.rating = ui.rating /\ u.rated = ui.rated
      /\ u.answer = ui.answer /\ u.mounted = ui.mounted /\ u.streaming = ui.streaming
  <2>1. (ui.submitted /\ q = ui.query) \in BOOLEAN
    OBVIOUS
  <2> QED BY <1>2, <2>1 DEF AnswerUI
<1> HIDE DEF u
<1>5. /\ v \in AnswerUI(Latest) /\ v.answer = ui.answer
      /\ v.mounted = ui.mounted /\ v.streaming = ui.streaming
      /\ v.rating # NoRating => v.rated = v.query
  BY <1>2, <1>4, ResetFeedbackFields
<1> HIDE DEF v
<1>6. /\ StreamsType(tt, ctl) /\ OneAtATime(tt, ctl) /\ Len(tt) = Latest
      /\ OnTime(tt, Latest) => OnTime(streams, Latest)
  <2>1. CASE ui.cleanup
    BY <1>2, <2>1, AbortedInv, AbortedOnTime
  <2>2. CASE ~ui.cleanup
    BY <1>2, <2>2 DEF StreamInv, Latest
  <2> QED BY <2>1, <2>2
<1>7. Shown(host, v, tt)
  <2>1. CASE ui.cleanup
    BY <1>1, <1>2, <1>5, <2>1, ShownAborted
  <2>2. CASE ~ui.cleanup
    BY <1>1, <1>2, <1>5, <2>2 DEF Shown, Accounted, Busy, Leakless
  <2> QED BY <2>1, <2>2
<1> HIDE DEF tt
<1>8. AnswerOf(host, v, tt)
  BY <1>1, <1>5, <1>6, AnswerKept
<1>9. host' = host /\ ui' = v /\ streams' = tt /\ ctl' = ctl /\ Latest' <= MaxStreams
  BY <1>2, <1>3, <1>6 DEF v, u, tt, Latest
<1> QED BY <1>1, <1>6, <1>7, <1>8, <1>9, AnswerStepInv

LEMMA AnswerUnmountInv ==
    ASSUME IInv, AnswerUnmount
    PROVE  IInv'
<1>1. host \in {"answer", "hook"} /\ host # "chat" /\ ui.mounted
  BY DEF AnswerUnmount
<1>2. /\ StreamInv /\ Shown(host, ui, streams) /\ ui \in AnswerUI(Latest)
      /\ ui.rating # NoRating => ui.rated = ui.query
      /\ host = "hook" => ui.rating = NoRating
      /\ Latest <= MaxStreams /\ Latest \in Nat /\ ctl \in 0 .. Latest
  BY <1>1, AnswerFacts
<1> DEFINE v == [ui EXCEPT !.mounted = FALSE]
           tt == IF host = "answer" THEN GiveUp(streams) ELSE streams
<1>3. ui' = v /\ streams' = tt /\ host' = host /\ ctl' = ctl
  BY DEF AnswerUnmount
<1>4. /\ v \in AnswerUI(Latest) /\ v.answer = ui.answer /\ ~v.mounted
      /\ v.rating = ui.rating /\ v.rated = ui.rated /\ v.query = ui.query
  BY <1>2 DEF AnswerUI
<1> HIDE DEF v
<1>5. /\ StreamsType(tt, ctl) /\ OneAtATime(tt, ctl) /\ Len(tt) = Latest
      /\ OnTime(tt, Latest) => OnTime(streams, Latest)
  <2>1. CASE host = "answer"
    BY <1>2, <2>1, GiveUpInv, GiveUpOnTime DEF StreamsType
  <2>2. CASE host # "answer"
    BY <1>2, <2>2 DEF StreamInv, Latest
  <2> QED BY <2>1, <2>2
<1>6. Shown(host, v, tt)
  <2>1. CASE host = "answer"
    BY <1>2, <1>4, <2>1, ShownGiveUp
  <2>2. CASE host # "answer"
    BY <1>1, <1>4, <2>2 DEF Shown, Accounted, Busy, Leakless
  <2> QED BY <2>1, <2>2
<1> HIDE DEF tt
<1>7. AnswerOf(host, v, tt)
  BY <1>1, <1>2, <1>4, <1>5, AnswerKept
<1>8. host' = host /\ ui' = v /\ streams' = tt /\ ctl' = ctl /\ Latest' <= MaxStreams
  BY <1>2, <1>3, <1>5 DEF v, tt, Latest
<1> QED BY <1>1, <1>5, <1>6, <1>7, <1>8, AnswerStepInv

LEMMA FeedbackInv ==
    ASSUME IInv, HandleSubmit \/ \E r \in 0 .. Scale : HandleRate(r)
    PROVE  IInv'
<1>1. host = "answer" /\ host # "chat" /\ ui.mounted /\ host' = host
      /\ streams' = streams /\ ctl' = ctl
  BY DEF HandleSubmit, HandleRate, FeedbackShown
<1>2. /\ StreamInv /\ Shown(host, ui, streams) /\ ui \in AnswerUI(Latest)
      /\ ui.rating # NoRating => ui.rated = ui.query
      /\ Latest <= MaxStreams
  BY <1>1, AnswerFacts
<1>3. PICK v : /\ ui' = v /\ v \in AnswerUI(Latest) /\ v.answer = ui.answer
               /\ v.rating # NoRating => v.rated = v.query
               /\ v.mounted = ui.mounted /\ v.streaming = ui.streaming
  <2>1. CASE HandleSubmit
    <3> DEFINE v == [ui EXCEPT !.sent = TRUE]
    <3>1. ui' = v
      BY <2>1 DEF HandleSubmit
    <3>2. /\ v \in AnswerUI(Latest) /\ v.answer = ui.answer
          /\ v.rating # NoRating => v.rated = v.query
          /\ v.mounted = ui.mounted /\ v.streaming = ui.streaming
      BY <1>2 DEF AnswerUI
    <3> HIDE DEF v
    <3> QED BY <3>1, <3>2
  <2>2. CASE \E r \in 0 .. Scale : HandleRate(r)
    <3>1. PICK r \in 0 .. Scale : HandleRate(r)
      BY <2>2
    <3> DEFINE v == [ui EXCEPT !.rating = r, !.rated = ui.query]
    <3>2. ui' = v
      BY <3>1 DEF HandleRate
    <3>3. r \in 0 .. NoRating
      BY AnswerAssumption DEF NoRating
    <3>4. /\ v \in AnswerUI(Latest) /\ v.answer = ui.answer
          /\ v.rated = v.query
          /\ v.mounted = ui.mounted /\ v.streaming = ui.streaming
      BY <1>2, <3>3 DEF AnswerUI
    <3> HIDE DEF v
    <3> QED BY <3>2, <3>4
  <2> QED BY <2>1, <2>2
<1>4. Shown(host, v, streams)
  BY <1>2, <1>3 DEF Shown, Accounted, Busy, Leakless
<1>5. AnswerOf(host, v, streams)
  <2>1. Len(streams) = Latest
    BY DEF Latest
  <2> QED BY <1>1, <1>3, <2>1, AnswerKept
<1>6. StreamsType(streams, ctl) /\ OneAtATime(streams, ctl) /\ Latest' <= MaxStreams
  BY <1>1, <1>2 DEF StreamInv, Latest
<1> QED BY <1>1, <1>3, <1>4, <1>5, <1>6, AnswerStepInv
\* The buttons of useAnswerStream: all give up what runs.
LEMMA StartStreamInv ==
    ASSUME IInv, NEW q \in Questions, StartStream(q)
    PROVE  IInv'
<1>1. host = "hook" /\ host # "chat" /\ ui.mounted /\ Latest < MaxStreams
  BY DEF StartStream
<1>2. StreamInv /\ ui \in AnswerUI(Latest) /\ ui.rating = NoRating /\ Latest \in Nat
  BY <1>1, AnswerFacts
<1> DEFINE m == Latest + 1
           f == Fetch(GiveUp(streams))
           u == StartState(ui)
           v == [u EXCEPT !.query = q]
<1>3. ui' = v /\ streams' = f /\ host' = host /\ ctl' = ctl
  BY DEF StartStream
<1>4. StreamsType(f, ctl) /\ OneAtATime(f, ctl) /\ Len(f) = m
  BY <1>2, FetchInv
<1> HIDE DEF f
<1>5. /\ u \in AnswerUI(m) /\ u.rating = NoRating
      /\ u.answer = <<>> /\ u.mounted = ui.mounted /\ u.streaming
  BY <1>2, StartStateFields
<1> HIDE DEF u
<1>6. /\ v \in AnswerUI(m) /\ v.answer = <<>> /\ v.mounted /\ v.streaming
      /\ v.rating = NoRating
  <2> HIDE DEF m
  <2> QED BY <1>1, <1>5 DEF AnswerUI
<1> HIDE DEF v
<1>7. AnswerOf(host, v, f)
  BY <1>1, <1>4, <1>6 DEF AnswerOf
<1>8. Shown(host, v, f)
  BY <1>2, <1>6, ShownFetch DEF f
<1>9. Latest' <= MaxStreams
  <2>1. Latest' = m /\ MaxStreams \in Nat
    BY <1>3, <1>4, Bounds DEF Latest, v
  <2> QED BY <1>1, <1>2, <2>1
<1>10. host' = host /\ ui' = v /\ streams' = f /\ ctl' = ctl
  BY <1>3 DEF v
<1> QED BY <1>1, <1>4, <1>7, <1>8, <1>9, <1>10, AnswerStepInv

LEMMA StopInv ==
    ASSUME IInv, StopStream \/ Reset
    PROVE  IInv'
<1>1. host = "hook" /\ host # "chat" /\ ui.mounted /\ host' = host
      /\ streams' = GiveUp(streams) /\ ctl' = 0
  BY DEF StopStream, Reset
<1>2. /\ StreamInv /\ ui \in AnswerUI(Latest) /\ ui.rating = NoRating
      /\ Latest <= MaxStreams /\ Latest \in Nat
      /\ OnTime(streams, Latest) => \A i \in DOMAIN ui.answer : ui.answer[i].stream = Latest
  BY <1>1, AnswerFacts
<1>3. PICK v : /\ ui' = v /\ v \in AnswerUI(Latest) /\ ~v.streaming
               /\ v.answer = ui.answer \/ v.answer = <<>>
               /\ v.rating = NoRating
  <2>1. CASE StopStream
    <3> DEFINE v == [ui EXCEPT !.streaming = FALSE]
    <3>1. ui' = v
      BY <2>1 DEF StopStream
    <3>2. v \in AnswerUI(Latest) /\ ~v.streaming /\ v.answer = ui.answer /\ v.rating = NoRating
      BY <1>2 DEF AnswerUI
    <3> HIDE DEF v
    <3> QED BY <3>1, <3>2
  <2>2. CASE Reset
    <3> DEFINE v == [ui EXCEPT !.streaming = FALSE, !.answer = <<>>, !.extras = {},
                               !.error = FALSE]
    <3>1. ui' = v
      BY <2>2 DEF Reset
    <3>2. <<>> \in Seq([stream : 1 .. Latest, id : CitedIds])
      OBVIOUS
    <3>3. v \in AnswerUI(Latest) /\ ~v.streaming /\ v.answer = <<>> /\ v.rating = NoRating
      BY <1>2, <3>2 DEF AnswerUI
    <3> HIDE DEF v
    <3> QED BY <3>1, <3>3
  <2> QED BY <2>1, <2>2
<1> DEFINE g == GiveUp(streams)
<1>4. /\ g \in Seq(Stream) /\ Len(g) = Latest /\ OneAtATime(g, 0)
      /\ OnTime(g, Latest) => OnTime(streams, Latest)
  BY <1>2, GiveUpInv, GiveUpOnTime
<1>5. Shown(host, v, g)
  BY <1>2, <1>3, ShownGiveUp
<1> HIDE DEF g
<1>6. AnswerOf(host, v, g)
  BY <1>1, <1>2, <1>3, <1>4 DEF AnswerOf
<1>7. StreamsType(g, 0)
  BY <1>2, <1>4 DEF StreamsType
<1>8. streams' = g /\ Latest' <= MaxStreams
  BY <1>1, <1>2, <1>4 DEF g, Latest
<1> QED BY <1>1, <1>3, <1>4, <1>5, <1>6, <1>7, <1>8, AnswerStepInv

\* A step of a stream: what it adds to the text bears its number.
LEMMA AnswerStreamStepInv ==
    ASSUME IInv, host # "chat", host' = host, NEW k \in 1 .. Latest,
           Changed(streams, streams', k), streams[k].phase # "closed", ctl' \in 0 .. Latest,
           streams'[k].phase = "open" => ctl' = k \/ (ctl' = ctl /\ streams[k].phase = "open"),
           NEW v \in AnswerUI(Latest), ui' = v, v.mounted = ui.mounted,
           v.rating = ui.rating, v.rated = ui.rated, v.query = ui.query,
           \A i \in DOMAIN v.answer :
              \/ v.answer[i].stream = k
              \/ i \in DOMAIN ui.answer /\ v.answer[i] = ui.answer[i],
           \/ (v.streaming <=> ui.streaming)
              /\ (streams'[k].phase # "closed" \/ streams'[k].silent)
           \/ (v.mounted => ~v.streaming) /\ streams'[k].phase = "closed"
    PROVE  IInv'
<1>1. /\ StreamInv /\ Shown(host, ui, streams) /\ host \in {"answer", "hook"}
      /\ Latest <= MaxStreams /\ Latest \in Nat
      /\ host = "hook" => ui.rating = NoRating
      /\ ui.rating # NoRating => ui.rated = ui.query
      /\ OnTime(streams, Latest) => \A i \in DOMAIN ui.answer : ui.answer[i].stream = Latest
  BY AnswerFacts
<1>2. Shown(host, v, streams')
  BY <1>1, ShownChanged
<1>3. /\ StreamsType(streams', ctl') /\ OneAtATime(streams', ctl')
      /\ OnTime(streams, Latest - 1) => k = Latest
      /\ OnTime(streams', Latest) <=> OnTime(streams, Latest)
  <2>1. /\ StreamsType(streams, ctl) /\ OneAtATime(streams, ctl)
        /\ ctl' \in 0 .. Len(streams) /\ k \in 1 .. Len(streams)
    BY <1>1 DEF Latest, StreamInv
  <2>2. Latest \in 0 .. Latest /\ Latest = Len(streams)
    BY <1>1 DEF Latest
  <2> QED BY <2>1, <2>2, ChangedInv
<1>4. OnTime(streams, Latest) => k = Latest
  <2>1. \A j \in 1 .. Latest - 1 : j \in 1 .. Latest
    BY <1>1
  <2> QED BY <1>3, <2>1 DEF OnTime
<1>5. Len(streams') = Latest
  BY DEF Changed, Latest
<1>6. AnswerOf(host, v, streams')
  BY <1>1, <1>3, <1>4, <1>5 DEF AnswerOf
<1>7. Latest' <= MaxStreams
  BY <1>1, <1>5 DEF Latest
<1> QED BY <1>1, <1>2, <1>3, <1>6, <1>7, AnswerStepInv
LEMMA AnswerResolvesInv ==
    ASSUME IInv, host # "chat", NEW k \in 1 .. Latest,
           (Resolves(k) /\ UNCHANGED <<host, ui>>) \/ EndsSilently(k)
    PROVE  IInv'
<1>1. streams \in Seq(Stream) /\ ui \in AnswerUI(Latest) /\ Latest \in Nat /\ ctl \in 0 .. Latest
  BY AnswerFacts
<1>2. host' = host /\ ui' = ui
  BY DEF EndsSilently
<1>3. CASE Resolves(k)
  <2>1. /\ Changed(streams, streams', k) /\ streams[k].phase = "fetching"
        /\ streams'[k].phase = "open" /\ ctl' = k
    BY <1>1, <1>3, ResolvesFields
  <2>2. k \in 0 .. Latest
    BY <1>1
  <2> QED BY <1>1, <1>2, <2>1, <2>2, AnswerStreamStepInv
<1>4. CASE EndsSilently(k)
  <2>1. /\ Changed(streams, streams', k) /\ streams[k].phase = "open"
        /\ streams'[k].phase = "closed" /\ streams'[k].silent /\ ctl' = ctl
    BY <1>1, <1>4, EndsSilentlyFields
  <2> QED BY <1>1, <1>2, <2>1, AnswerStreamStepInv
<1> QED BY <1>3, <1>4

LEMMA OnEventInv ==
    ASSUME IInv, host # "chat", NEW k \in 1 .. Latest,
           \/ \E id \in CitedIds : OnGeneration(k, id)
           \/ \E part \in Parts : OnOther(k, part)
    PROVE  IInv'
<1>1. streams \in Seq(Stream) /\ ui \in AnswerUI(Latest) /\ Latest \in Nat /\ ctl \in 0 .. Latest
  BY AnswerFacts
<1>2. host' = host /\ Event(k)
  BY DEF OnGeneration, OnOther
<1>3. /\ Changed(streams, streams', k) /\ streams[k].phase = "open"
      /\ streams'[k].phase = "open" /\ ctl' = ctl
  BY <1>1, <1>2, EventFields
<1>4. PICK u \in AnswerUI(Latest) :
         /\ ui' = Mounted(u) /\ u.mounted = ui.mounted /\ (u.streaming <=> ui.streaming)
         /\ u.rating = ui.rating /\ u.rated = ui.rated /\ u.query = ui.query
         /\ \A i \in DOMAIN u.answer :
               \/ u.answer[i].stream = k
               \/ i \in DOMAIN ui.answer /\ u.answer[i] = ui.answer[i]
  <2>1. CASE \E id \in CitedIds : OnGeneration(k, id)
    <3>1. PICK id \in CitedIds : OnGeneration(k, id)
      BY <2>1
    <3> DEFINE C == [stream : 1 .. Latest, id : CitedIds]
               c == [stream |-> k, id |-> id]
               a == Append(ui.answer, c)
               u == [ui EXCEPT !.answer = a]
    <3>2. ui' = Mounted(u)
      BY <3>1 DEF OnGeneration
    <3>3. c \in C /\ c.stream = k
      OBVIOUS
    <3>4. ui.answer \in Seq(C)
      BY <1>1 DEF AnswerUI
    <3> HIDE DEF C, c
    <3>5. /\ a \in Seq(C)
          /\ \A i \in DOMAIN a :
                 (i \in DOMAIN ui.answer /\ a[i] = ui.answer[i]) \/ a[i] = c
      BY <3>3, <3>4
    <3> HIDE DEF a
    <3>6. /\ u \in AnswerUI(Latest) /\ u.mounted = ui.mounted /\ u.streaming = ui.streaming
          /\ u.rating = ui.rating /\ u.rated = ui.rated /\ u.query = ui.query
          /\ u.answer = a
      <4>1. a \in Seq([stream : 1 .. Latest, id : CitedIds])
        BY <3>5 DEF C
      <4> QED BY <1>1, <4>1 DEF AnswerUI
    <3> HIDE DEF u
    <3> QED BY <3>2, <3>3, <3>5, <3>6
  <2>2. CASE \E part \in Parts : OnOther(k, part)
    <3>1. PICK part \in Parts : OnOther(k, part)
      BY <2>2
    <3> DEFINE u == [ui EXCEPT !.extras = @ \cup {part}]
    <3>2. ui' = Mounted(u)
      BY <3>1 DEF OnOther
    <3>3. /\ u \in AnswerUI(Latest) /\ u.mounted = ui.mounted /\ u.streaming = ui.streaming
          /\ u.rating = ui.rating /\ u.rated = ui.rated /\ u.query = ui.query
          /\ u.answer = ui.answer
      BY <1>1 DEF AnswerUI
    <3> HIDE DEF u
    <3> QED BY <3>2, <3>3
  <2> QED BY <1>2, <2>1, <2>2
<1> DEFINE v == Mounted(u)
<1>5. /\ v \in AnswerUI(Latest) /\ v.mounted = ui.mounted
      /\ v.rating = ui.rating /\ v.rated = ui.rated /\ v.query = ui.query
      /\ \A i \in DOMAIN v.answer :
            \/ v.answer[i].stream = k
            \/ i \in DOMAIN ui.answer /\ v.answer[i] = ui.answer[i]
      /\ v.streaming <=> ui.streaming
  BY <1>1, <1>4 DEF Mounted
<1> HIDE DEF v
<1>6. ui' = v
  BY <1>4 DEF v
<1> QED BY <1>1, <1>2, <1>3, <1>5, <1>6, AnswerStreamStepInv

LEMMA OnEndInv ==
    ASSUME IInv, host # "chat", NEW k \in 1 .. Latest, OnDone(k) \/ OnError(k)
    PROVE  IInv'
<1>1. streams \in Seq(Stream) /\ ui \in AnswerUI(Latest) /\ Latest \in Nat /\ ctl \in 0 .. Latest
  BY AnswerFacts
<1>2. host' = host /\ (LastEvent(k) \/ Answers(k))
  BY DEF OnDone, OnError
<1>3. /\ Changed(streams, streams', k) /\ streams[k].phase # "closed"
      /\ streams'[k].phase = "closed" /\ ctl' \in 0 .. Latest
  BY <1>1, <1>2, LastEventFields, AnswersFields
<1>4. PICK u \in AnswerUI(Latest) :
         /\ ui' = Mounted(u) /\ u.mounted = ui.mounted /\ ~u.streaming
         /\ u.rating = ui.rating /\ u.rated = ui.rated /\ u.query = ui.query
         /\ \A i \in DOMAIN u.answer :
               \/ u.answer[i].stream = k
               \/ i \in DOMAIN ui.answer /\ u.answer[i] = ui.answer[i]
  <2>1. CASE OnDone(k)
    <3> DEFINE C == [stream : 1 .. Latest, id : CitedIds]
    <3>1. PICK full \in {<<>>} \cup {<<[stream |-> k, id |-> id]>> : id \in CitedIds} :
             ui' = Mounted([ui EXCEPT !.streaming = FALSE,
                               !.answer = IF host = "answer" THEN full ELSE @])
      BY <2>1 DEF OnDone
    <3>2. full \in Seq(C) /\ \A i \in DOMAIN full : full[i].stream = k
      <4>1. CASE full = <<>>
        BY <4>1
      <4>2. CASE full # <<>>
        <5>1. PICK id \in CitedIds : full = <<[stream |-> k, id |-> id]>>
          BY <3>1, <4>2
        <5> DEFINE c == [stream |-> k, id |-> id]
        <5>2. c \in C /\ c.stream = k
          OBVIOUS
        <5> HIDE DEF c, C
        <5>3. full = <<c>>
          BY <5>1 DEF c
        <5> QED BY <5>2, <5>3
      <4> QED BY <4>1, <4>2
    <3> DEFINE a == IF host = "answer" THEN full ELSE ui.answer
               u == [ui EXCEPT !.streaming = FALSE, !.answer = a]
    <3>3. ui' = Mounted(u)
      BY <3>1
    <3>4. ui.answer \in Seq(C)
      BY <1>1 DEF AnswerUI
    <3>5. /\ a \in Seq(C)
          /\ \A i \in DOMAIN a :
                a[i].stream = k \/ (i \in DOMAIN ui.answer /\ a[i] = ui.answer[i])
      <4> HIDE DEF C
      <4> QED BY <3>2, <3>4
    <3> HIDE DEF a
    <3>6. /\ u \in AnswerUI(Latest) /\ u.mounted = ui.mounted /\ ~u.streaming
          /\ u.rating = ui.rating /\ u.rated = ui.rated /\ u.query = ui.query
          /\ u.answer = a
      BY <1>1, <3>5 DEF AnswerUI
    <3> HIDE DEF u
    <3> QED BY <3>3, <3>5, <3>6
  <2>2. CASE OnError(k)
    <3> DEFINE u == [ui EXCEPT !.streaming = FALSE, !.error = TRUE]
    <3>1. ui' = Mounted(u)
      BY <2>2 DEF OnError
    <3>2. /\ u \in AnswerUI(Latest) /\ u.mounted = ui.mounted /\ ~u.streaming
          /\ u.rating = ui.rating /\ u.rated = ui.rated /\ u.query = ui.query
          /\ u.answer = ui.answer
      BY <1>1 DEF AnswerUI
    <3> HIDE DEF u
    <3> QED BY <3>1, <3>2
  <2> QED BY <2>1, <2>2
<1> DEFINE v == Mounted(u)
<1>5. /\ v \in AnswerUI(Latest) /\ v.mounted = ui.mounted
      /\ v.rating = ui.rating /\ v.rated = ui.rated /\ v.query = ui.query
      /\ \A i \in DOMAIN v.answer :
            \/ v.answer[i].stream = k
            \/ i \in DOMAIN ui.answer /\ v.answer[i] = ui.answer[i]
      /\ v.mounted => ~v.streaming
  BY <1>1, <1>4 DEF Mounted
<1> HIDE DEF v
<1>6. ui' = v
  BY <1>4 DEF v
<1> QED BY <1>1, <1>2, <1>3, <1>5, <1>6, AnswerStreamStepInv

LEMMA AnswerNextInv ==
    ASSUME IInv, host # "chat", AnswerNext
    PROVE  IInv'
BY AnswerSubmitInv, StartStreamInv, AnswerCleanupInv, AnswerUnmountInv, StopInv, FeedbackInv,
   AnswerResolvesInv, OnEventInv, OnEndInv DEF AnswerNext-----------------------------------------------------------------------------
(* The steps of the conversation. *)

LEMMA ChatFacts ==
    ASSUME IInv, host = "chat"
    PROVE  /\ StreamInv /\ Shown(host, ui, streams)
           /\ streams \in Seq(Stream) /\ Latest \in Nat /\ ctl \in 0 .. Latest
           /\ Latest <= MaxStreams
           /\ ui \in ChatUI(Latest)
           /\ \A i \in DOMAIN ui.turns : ToSet(ui.turns[i].msg) \subseteq {ui.turns[i].id}
           /\ ui.mounted /\ OnTime(streams, Latest) /\ Under(streams) =>
                 \A i \in DOMAIN ui.turns : ui.turns[i].id = Latest => ui.turns[i].streaming
<1>1. StreamInv /\ Shown(host, ui, streams) /\ Latest <= MaxStreams /\ ChatOf(ui, streams)
  BY DEF IInv
<1>2. streams \in Seq(Stream) /\ Latest \in Nat /\ ctl \in 0 .. Latest
  BY <1>1 DEF StreamInv, StreamsType, Latest
<1>3. Latest = Len(streams)
  BY DEF Latest
<1> QED BY <1>1, <1>2, <1>3 DEF ChatOf

LEMMA ChatStepInv ==
    ASSUME host = "chat", host' = host,
           StreamsType(streams', ctl'), OneAtATime(streams', ctl'), Latest' <= MaxStreams,
           Shown(host, ui', streams'), ChatOf(ui', streams')
    PROVE  IInv'
BY DEF IInv, StreamInv, ChatOf, Shown

\* The turns so far are turns of more requests.
LEMMA TurnsOfMore ==
    ASSUME NEW n \in Nat, NEW s \in Seq(ChatTurn(n))
    PROVE  s \in Seq(ChatTurn(n + 1))
<1>1. 1 .. n \subseteq 1 .. n + 1
  OBVIOUS
<1> DEFINE R == 1 .. n
           Q == 1 .. n + 1
           Of(X, Y) == [id : X, q : Questions, msg : Y, follow : BOOLEAN,
                        clarify : BOOLEAN, error : BOOLEAN, streaming : BOOLEAN]
           SR == Seq(R)
           SQ == Seq(Q)
<1>2. R \subseteq Q
  BY <1>1
<1> HIDE DEF R, Q
<1>3. SR \subseteq SQ
  BY <1>2
<1> HIDE DEF SR, SQ
<1>4. Of(R, SR) \subseteq Of(Q, SQ)
  BY <1>2, <1>3
<1>5. ChatTurn(n) = Of(R, SR) /\ ChatTurn(n + 1) = Of(Q, SQ)
  BY DEF ChatTurn, R, Q, SR, SQ
<1>6. ChatTurn(n) \subseteq ChatTurn(n + 1)
  BY <1>4, <1>5
<1> QED BY <1>6

LEMMA SendMessageInv ==
    ASSUME IInv, NEW q \in Questions, SendMessage(q)
    PROVE  IInv'
<1>1. host = "chat" /\ ui.mounted /\ Latest < MaxStreams
  BY DEF SendMessage
<1>2. /\ StreamInv /\ ui \in ChatUI(Latest) /\ Latest \in Nat
      /\ \A i \in DOMAIN ui.turns : ToSet(ui.turns[i].msg) \subseteq {ui.turns[i].id}
  BY <1>1, ChatFacts
<1> DEFINE m == Latest + 1
           f == Fetch(GiveUp(streams))
           t == Turn(m, q)
           s == Append(ui.turns, t)
           v == [ui EXCEPT !.turns = s, !.streaming = TRUE]
<1>3. ui' = v /\ streams' = f /\ host' = host /\ ctl' = ctl
  BY DEF SendMessage
<1>4. StreamsType(f, ctl) /\ OneAtATime(f, ctl) /\ Len(f) = m
  BY <1>2, FetchInv
<1> HIDE DEF f
<1>5. t \in ChatTurn(m) /\ t.id = m /\ t.msg = <<>> /\ t.streaming
  <2>1. m \in 1 .. m /\ <<>> \in Seq(1 .. m)
    BY <1>2
  <2> QED BY <2>1 DEF Turn, ChatTurn
<1>6. ui.turns \in Seq(ChatTurn(Latest)) /\ ui.turns \in Seq(ChatTurn(m))
  BY <1>2, TurnsOfMore DEF ChatUI
<1>7. \A i \in DOMAIN ui.turns : ui.turns[i].id # m
  <2> SUFFICES ASSUME NEW i \in 1 .. Len(ui.turns) PROVE ui.turns[i].id # m
    BY <1>6
  <2>1. ui.turns[i] \in ChatTurn(Latest)
    BY <1>6, ElementOf
  <2>2. ui.turns[i].id \in 1 .. Latest
    BY <2>1 DEF ChatTurn
  <2> QED BY <1>2, <2>2
<1> HIDE DEF t, m
<1>8. s \in Seq(ChatTurn(m)) /\ \A i \in DOMAIN s : s[i] = t \/ (i \in DOMAIN ui.turns /\ s[i] = ui.turns[i])
  <2> DEFINE C == ChatTurn(m)
  <2>1. ui.turns \in Seq(C) /\ t \in C
    BY <1>5, <1>6
  <2> HIDE DEF C
  <2>2. s \in Seq(C) /\ \A i \in DOMAIN s : s[i] = t \/ (i \in DOMAIN ui.turns /\ s[i] = ui.turns[i])
    BY <2>1
  <2> QED BY <2>2 DEF C
<1>9. \A i \in DOMAIN s : /\ ToSet(s[i].msg) \subseteq {s[i].id}
                          /\ s[i].id = m => s[i].streaming
  <2>1. ToSet(t.msg) = {}
    BY <1>5 DEF ToSet
  <2> HIDE DEF s
  <2> QED BY <1>2, <1>5, <1>7, <1>8, <2>1
<1> HIDE DEF s
<1>10. v \in ChatUI(m) /\ v.turns = s /\ v.mounted /\ v.streaming
  BY <1>1, <1>2, <1>8 DEF ChatUI
<1> HIDE DEF v
<1>11. ChatOf(v, f)
  BY <1>4, <1>9, <1>10 DEF ChatOf
<1>12. Shown(host, v, f)
  BY <1>2, <1>10, ShownFetch DEF f
<1>13. Latest' <= MaxStreams
  <2>1. Latest' = m /\ MaxStreams \in Nat
    BY <1>3, <1>4, Bounds DEF Latest, v, s, t
  <2> QED BY <1>1, <1>2, <2>1 DEF m
<1>14. host' = host /\ ui' = v /\ streams' = f /\ ctl' = ctl
  BY <1>3 DEF v, s, t, m, f
<1> QED BY <1>1, <1>4, <1>11, <1>12, <1>13, <1>14, ChatStepInv
\* The conversation is given up: no turn is streaming, or none is left.
LEMMA ChatGiveUpInv ==
    ASSUME IInv, ChatAbort \/ ChatReset \/ ChatUnmount
    PROVE  IInv'
<1>1. host = "chat" /\ ui.mounted /\ host' = host /\ streams' = GiveUp(streams) /\ ctl' = 0
  BY DEF ChatAbort, ChatReset, ChatUnmount
<1>2. /\ StreamInv /\ ui \in ChatUI(Latest) /\ Latest <= MaxStreams /\ Latest \in Nat
      /\ \A i \in DOMAIN ui.turns : ToSet(ui.turns[i].msg) \subseteq {ui.turns[i].id}
  BY <1>1, ChatFacts
<1>3. PICK v : /\ ui' = v /\ v \in ChatUI(Latest) /\ (~v.mounted \/ ~v.streaming)
               /\ \A i \in DOMAIN v.turns : ToSet(v.turns[i].msg) \subseteq {v.turns[i].id}
  <2> DEFINE C == ChatTurn(Latest)
             n == Len(ui.turns)
             x(i) == [ui.turns[i] EXCEPT !.streaming = FALSE]
             s == [i \in 1 .. n |-> x(i)]
             w == [ui EXCEPT !.streaming = FALSE, !.turns = s]
  <2>1. ui.turns \in Seq(C) /\ n \in Nat /\ DOMAIN ui.turns = 1 .. n
    BY <1>2 DEF ChatUI
  <2>2. Settled(ui) = w
    BY <1>2, <2>1 DEF Settled, ChatUI
  <2>3. ASSUME NEW i \in 1 .. n
        PROVE  x(i) \in C /\ x(i).msg = ui.turns[i].msg /\ x(i).id = ui.turns[i].id
    <3>1. ui.turns[i] \in C
      BY <2>1, ElementOf
    <3> QED BY <3>1 DEF ChatTurn
  <2> HIDE DEF x, C, n
  <2>4. s \in Seq(C) /\ DOMAIN s = 1 .. n /\ \A i \in 1 .. n : s[i] = x(i)
    BY <2>1, <2>3
  <2> HIDE DEF s
  <2>5. w \in ChatUI(Latest) /\ ~w.streaming /\ w.turns = s
    BY <1>2, <2>4 DEF ChatUI, C
  <2> HIDE DEF w
  <2>6. \A i \in DOMAIN w.turns : ToSet(w.turns[i].msg) \subseteq {w.turns[i].id}
    BY <1>2, <2>1, <2>3, <2>4, <2>5
  <2>7. CASE ChatAbort
    <3>1. ui' = w
      BY <2>2, <2>7 DEF ChatAbort
    <3> QED BY <2>5, <2>6, <3>1
  <2>8. CASE ChatReset
    <3> DEFINE v == [w EXCEPT !.turns = <<>>]
    <3>1. ui' = v
      BY <2>2, <2>8 DEF ChatReset
    <3>2. <<>> \in Seq(ChatTurn(Latest))
      OBVIOUS
    <3>3. v \in ChatUI(Latest) /\ ~v.streaming /\ v.turns = <<>>
      BY <2>5, <3>2 DEF ChatUI
    <3> HIDE DEF v
    <3> QED BY <3>1, <3>3
  <2>9. CASE ChatUnmount
    <3> DEFINE v == [ui EXCEPT !.mounted = FALSE]
    <3>1. ui' = v
      BY <2>9 DEF ChatUnmount
    <3>2. v \in ChatUI(Latest) /\ ~v.mounted /\ v.turns = ui.turns
      BY <1>2 DEF ChatUI
    <3> HIDE DEF v
    <3> QED BY <1>2, <3>1, <3>2
  <2> QED BY <2>7, <2>8, <2>9
<1> DEFINE g == GiveUp(streams)
<1>4. /\ g \in Seq(Stream) /\ Len(g) = Latest /\ OneAtATime(g, 0)
  BY <1>2, GiveUpInv
<1>5. Shown(host, v, g) /\ (OnTime(g, Latest) => ~Under(g))
  BY <1>2, <1>3, ShownGiveUp
<1> HIDE DEF g
<1>6. ChatOf(v, g)
  BY <1>3, <1>4, <1>5 DEF ChatOf
<1>7. StreamsType(g, 0)
  BY <1>2, <1>4 DEF StreamsType
<1>8. streams' = g /\ Latest' <= MaxStreams
  BY <1>1, <1>2, <1>4 DEF g, Latest
<1> QED BY <1>1, <1>3, <1>4, <1>5, <1>6, <1>7, <1>8, ChatStepInv

\* A step of a stream: the turns it leaves, against those there were.
LEMMA ChatStreamStepInv ==
    ASSUME IInv, host = "chat", host' = host, NEW k \in 1 .. Latest,
           Changed(streams, streams', k), streams[k].phase # "closed", ctl' \in 0 .. Latest,
           streams'[k].phase = "open" => ctl' = k \/ (ctl' = ctl /\ streams[k].phase = "open"),
           NEW v \in ChatUI(Latest), ui' = v, v.mounted = ui.mounted,
           DOMAIN v.turns = DOMAIN ui.turns,
           \A i \in DOMAIN v.turns :
              /\ v.turns[i].id = ui.turns[i].id
              /\ ToSet(ui.turns[i].msg) \subseteq {ui.turns[i].id} =>
                    ToSet(v.turns[i].msg) \subseteq {v.turns[i].id},
           \/ /\ v.streaming <=> ui.streaming
              /\ streams'[k].phase # "closed" \/ streams'[k].silent
           \/ (v.mounted => ~v.streaming) /\ streams'[k].phase = "closed",
           streams'[k].phase # "closed" =>
              \A i \in DOMAIN v.turns : v.turns[i].streaming <=> ui.turns[i].streaming
    PROVE  IInv'
<1>1. /\ StreamInv /\ Shown(host, ui, streams)
      /\ Latest <= MaxStreams /\ Latest \in Nat
      /\ \A i \in DOMAIN ui.turns : ToSet(ui.turns[i].msg) \subseteq {ui.turns[i].id}
      /\ ui.mounted /\ OnTime(streams, Latest) /\ Under(streams) =>
            \A i \in DOMAIN ui.turns : ui.turns[i].id = Latest => ui.turns[i].streaming
  BY ChatFacts
<1>2. Shown(host, v, streams')
  BY <1>1, ShownChanged
<1>3. /\ StreamsType(streams', ctl') /\ OneAtATime(streams', ctl')
      /\ OnTime(streams, Latest - 1) => k = Latest
      /\ OnTime(streams', Latest) <=> OnTime(streams, Latest)
  <2>1. /\ StreamsType(streams, ctl) /\ OneAtATime(streams, ctl)
        /\ ctl' \in 0 .. Len(streams) /\ k \in 1 .. Len(streams)
    BY <1>1 DEF Latest, StreamInv
  <2>2. Latest \in 0 .. Latest /\ Latest = Len(streams)
    BY <1>1 DEF Latest
  <2> QED BY <2>1, <2>2, ChangedInv
<1>4. OnTime(streams, Latest) => k = Latest
  <2>1. \A j \in 1 .. Latest - 1 : j \in 1 .. Latest
    BY <1>1
  <2> QED BY <1>3, <2>1 DEF OnTime
<1>5. Len(streams') = Latest /\ Len(streams) = Latest /\ Latest > 0
  BY <1>1 DEF Changed, Latest
<1>6. ASSUME v.mounted, OnTime(streams', Latest), Under(streams'),
             NEW i \in DOMAIN v.turns, v.turns[i].id = Latest
      PROVE  v.turns[i].streaming
  <2>1. k = Latest /\ OnTime(streams, Latest)
    BY <1>3, <1>4, <1>6
  <2>2. streams'[k].phase # "closed" /\ Under(streams)
    BY <1>5, <1>6, <2>1 DEF Under
  <2> QED BY <1>1, <1>6, <2>1, <2>2
<1>7. \A i \in DOMAIN v.turns : ToSet(v.turns[i].msg) \subseteq {v.turns[i].id}
  BY <1>1
<1>8. ChatOf(v, streams')
  BY <1>5, <1>6, <1>7 DEF ChatOf
<1>9. Latest' <= MaxStreams
  BY <1>1, <1>5 DEF Latest
<1> QED BY <1>1, <1>2, <1>3, <1>8, <1>9, ChatStepInv

LEMMA ChatResolvesInv ==
    ASSUME IInv, host = "chat", NEW k \in 1 .. Latest,
           (Resolves(k) /\ UNCHANGED <<host, ui>>) \/ EndsSilently(k)
    PROVE  IInv'
<1>1. streams \in Seq(Stream) /\ ui \in ChatUI(Latest) /\ Latest \in Nat /\ ctl \in 0 .. Latest
  BY ChatFacts
<1>2. host' = host /\ ui' = ui
  BY DEF EndsSilently
<1>3. CASE Resolves(k)
  <2>1. /\ Changed(streams, streams', k) /\ streams[k].phase = "fetching"
        /\ streams'[k].phase = "open" /\ ctl' = k
    BY <1>1, <1>3, ResolvesFields
  <2>2. k \in 0 .. Latest
    BY <1>1
  <2> QED BY <1>1, <1>2, <2>1, <2>2, ChatStreamStepInv
<1>4. CASE EndsSilently(k)
  <2>1. /\ Changed(streams, streams', k) /\ streams[k].phase = "open"
        /\ streams'[k].phase = "closed" /\ streams'[k].silent /\ ctl' = ctl
    BY <1>1, <1>4, EndsSilentlyFields
  <2> QED BY <1>1, <1>2, <2>1, ChatStreamStepInv
<1> QED BY <1>3, <1>4
\* A conversation w of the same turns, whose texts are still their own.
SameTurns(w, n) ==
    /\ w \in ChatUI(n) /\ w.mounted = ui.mounted
    /\ DOMAIN w.turns = DOMAIN ui.turns
    /\ \A i \in DOMAIN w.turns :
          /\ w.turns[i].id = ui.turns[i].id
          /\ ToSet(ui.turns[i].msg) \subseteq {ui.turns[i].id} =>
                ToSet(w.turns[i].msg) \subseteq {w.turns[i].id}

SameFlags(w) == \A i \in DOMAIN w.turns : w.turns[i].streaming <=> ui.turns[i].streaming

\* An update of a turn for stream k, and one that leaves its isStreaming.
Updates(F, k) ==
    \A t \in Turns : /\ F[t].id = t.id
                     /\ t.id = k /\ ToSet(t.msg) \subseteq {k} => ToSet(F[t].msg) \subseteq {k}

KeepsFlag(F) == \A t \in Turns : F[t].streaming <=> t.streaming

\* updateTurn leaves every turn but that of the stream.
LEMMA UpdateTurnFields ==
    ASSUME NEW n \in Nat, ui \in ChatUI(n), NEW k \in 1 .. n,
           NEW F \in [Turns -> ChatTurn(n)], Updates(F, k),
           NEW u, u = UpdateTurn(ui, k, F)
    PROVE  SameTurns(u, n) /\ u.streaming = ui.streaming /\ (KeepsFlag(F) => SameFlags(u))
<1> DEFINE C == ChatTurn(n)
           p == ui.turns
           m == Len(p)
           x(i) == IF p[i].id = k THEN F[p[i]] ELSE p[i]
           s == [i \in 1 .. m |-> x(i)]
<1>1. p \in Seq(C) /\ m \in Nat /\ DOMAIN p = 1 .. m
  BY DEF ChatUI
<1>2. u = [ui EXCEPT !.turns = s]
  BY <1>1 DEF UpdateTurn, ChatUI
<1>3. ASSUME NEW i \in 1 .. m
      PROVE  /\ x(i) \in C /\ x(i).id = p[i].id
             /\ ToSet(p[i].msg) \subseteq {p[i].id} => ToSet(x(i).msg) \subseteq {x(i).id}
             /\ KeepsFlag(F) => (x(i).streaming <=> p[i].streaming)
  <2> DEFINE t == p[i]
  <2>1. t \in C /\ t \in Turns
    BY <1>1, ElementOf DEF Turns
  <2>2. F[t] \in C
    BY <2>1
  <2>3. /\ F[t].id = t.id
        /\ t.id = k /\ ToSet(t.msg) \subseteq {k} => ToSet(F[t].msg) \subseteq {k}
        /\ KeepsFlag(F) => (F[t].streaming <=> t.streaming)
    BY <2>1 DEF Updates, KeepsFlag
  <2> HIDE DEF C, t
  <2>4. CASE t.id = k
    <3>1. x(i) = F[t]
      BY <2>4 DEF t
    <3> HIDE DEF x
    <3> QED BY <2>2, <2>3, <2>4, <3>1 DEF t
  <2>5. CASE t.id # k
    <3>1. x(i) = t
      BY <2>5 DEF t
    <3> HIDE DEF x
    <3> QED BY <2>1, <3>1 DEF t
  <2> QED BY <2>4, <2>5
<1> HIDE DEF C, x
<1>4. s \in Seq(C) /\ DOMAIN s = 1 .. m /\ \A i \in 1 .. m : s[i] = x(i)
  BY <1>1, <1>3
<1> HIDE DEF s
<1>5. /\ u \in ChatUI(n) /\ u.mounted = ui.mounted /\ u.streaming = ui.streaming
      /\ u.turns = s
  BY <1>2, <1>4 DEF ChatUI, C
<1> HIDE DEF m
<1>6. SameTurns(u, n)
  BY <1>1, <1>3, <1>4, <1>5 DEF SameTurns
<1>7. KeepsFlag(F) => SameFlags(u)
  BY <1>1, <1>3, <1>4, <1>5 DEF SameFlags
<1> QED BY <1>5, <1>6, <1>7

LEMMA ChatEventInv ==
    ASSUME IInv, host = "chat", NEW k \in 1 .. Latest, ChatGeneration(k) \/ ChatFollowup(k)
    PROVE  IInv'
<1>1. streams \in Seq(Stream) /\ ui \in ChatUI(Latest) /\ Latest \in Nat /\ ctl \in 0 .. Latest
  BY ChatFacts
<1>2. host' = host /\ Event(k)
  BY DEF ChatGeneration, ChatFollowup
<1>3. /\ Changed(streams, streams', k) /\ streams[k].phase = "open"
      /\ streams'[k].phase = "open" /\ ctl' = ctl
  BY <1>1, <1>2, EventFields
<1>4. \A t \in Turns : t \in ChatTurn(Latest)
  BY <1>1, ElementOf DEF Turns, ChatUI
<1>5. PICK F \in [Turns -> ChatTurn(Latest)] :
         ui' = Mounted(UpdateTurn(ui, k, F)) /\ Updates(F, k) /\ KeepsFlag(F)
  <2>1. CASE ChatGeneration(k)
    <3> DEFINE y(t) == [t EXCEPT !.msg = Append(@, k)]
               F == [t \in Turns |-> y(t)]
    <3>1. ui' = Mounted(UpdateTurn(ui, k, F))
      BY <2>1 DEF ChatGeneration
    <3>2. ASSUME NEW t \in Turns
          PROVE  /\ y(t) \in ChatTurn(Latest) /\ y(t).id = t.id /\ (y(t).streaming <=> t.streaming)
                 /\ ToSet(t.msg) \subseteq {k} => ToSet(y(t).msg) \subseteq {k}
      <4> DEFINE a == Append(t.msg, k)
                 R == 1 .. Latest
      <4>1. t.msg \in Seq(R) /\ k \in R
        BY <1>4 DEF ChatTurn
      <4> HIDE DEF R
      <4>2. a \in Seq(R) /\ \A i \in DOMAIN a : a[i] = k \/ (i \in DOMAIN t.msg /\ a[i] = t.msg[i])
        BY <4>1
      <4> HIDE DEF a
      <4>3. /\ y(t) \in ChatTurn(Latest) /\ y(t).id = t.id /\ y(t).streaming = t.streaming
            /\ y(t).msg = a
        <5>1. y(t) = [t EXCEPT !.msg = a]
          BY DEF a
        <5> QED BY <1>4, <4>2, <5>1 DEF ChatTurn, R
      <4> HIDE DEF y
      <4> QED BY <4>2, <4>3 DEF ToSet
    <3> HIDE DEF y
    <3>3. F \in [Turns -> ChatTurn(Latest)] /\ Updates(F, k) /\ KeepsFlag(F)
      BY <3>2 DEF Updates, KeepsFlag
    <3> HIDE DEF F
    <3> QED BY <3>1, <3>3
  <2>2. CASE ChatFollowup(k)
    <3> DEFINE y(t) == [t EXCEPT !.follow = TRUE]
               F == [t \in Turns |-> y(t)]
    <3>1. ui' = Mounted(UpdateTurn(ui, k, F))
      BY <2>2 DEF ChatFollowup
    <3>2. ASSUME NEW t \in Turns
          PROVE  /\ y(t) \in ChatTurn(Latest) /\ y(t).id = t.id /\ (y(t).streaming <=> t.streaming)
                 /\ y(t).msg = t.msg
      BY <1>4 DEF ChatTurn
    <3> HIDE DEF y
    <3>3. F \in [Turns -> ChatTurn(Latest)] /\ Updates(F, k) /\ KeepsFlag(F)
      BY <3>2 DEF Updates, KeepsFlag
    <3> HIDE DEF F
    <3> QED BY <3>1, <3>3
  <2> QED BY <2>1, <2>2
<1> DEFINE u == UpdateTurn(ui, k, F)
           v == Mounted(u)
<1>6. SameTurns(u, Latest) /\ u.streaming = ui.streaming /\ SameFlags(u)
  <2> HIDE DEF u
  <2>1. u = UpdateTurn(ui, k, F)
    BY DEF u
  <2> QED BY <1>1, <1>5, <2>1, UpdateTurnFields
<1>7. SameTurns(ui, Latest) /\ SameFlags(ui)
  BY <1>1 DEF SameTurns, SameFlags
<1> HIDE DEF u
<1>8. v = u \/ v = ui
  BY DEF Mounted
<1> HIDE DEF v
<1>9. SameTurns(v, Latest) /\ v.streaming = ui.streaming /\ SameFlags(v)
  BY <1>6, <1>7, <1>8
<1>10. ui' = v
  BY <1>5 DEF u, v
<1> QED BY <1>1, <1>2, <1>3, <1>9, <1>10, ChatStreamStepInv DEF SameTurns, SameFlags

LEMMA ChatEndInv ==
    ASSUME IInv, host = "chat", NEW k \in 1 .. Latest, ChatDone(k) \/ ChatError(k)
    PROVE  IInv'
<1>1. streams \in Seq(Stream) /\ ui \in ChatUI(Latest) /\ Latest \in Nat /\ ctl \in 0 .. Latest
  BY ChatFacts
<1>2. host' = host /\ (LastEvent(k) \/ Answers(k))
  BY DEF ChatDone, ChatError
<1>3. /\ Changed(streams, streams', k) /\ streams[k].phase # "closed"
      /\ streams'[k].phase = "closed" /\ ctl' \in 0 .. Latest
  BY <1>1, <1>2, LastEventFields, AnswersFields
<1>4. \A t \in Turns : t \in ChatTurn(Latest)
  BY <1>1, ElementOf DEF Turns, ChatUI
<1>5. PICK F \in [Turns -> ChatTurn(Latest)] :
         ui' = Mounted([UpdateTurn(ui, k, F) EXCEPT !.streaming = FALSE]) /\ Updates(F, k)
  <2>1. CASE ChatDone(k)
    <3>1. PICK more \in BOOLEAN, clarify \in BOOLEAN :
             LET G == [t \in Turns |-> [t EXCEPT !.msg = <<k>>, !.follow = more,
                                                 !.clarify = clarify, !.streaming = FALSE]]
             IN ui' = Mounted([UpdateTurn(ui, k, G) EXCEPT !.streaming = FALSE])
      BY <2>1 DEF ChatDone
    <3> DEFINE y(t) == [t EXCEPT !.msg = <<k>>, !.follow = more,
                                 !.clarify = clarify, !.streaming = FALSE]
               F == [t \in Turns |-> y(t)]
    <3>2. ui' = Mounted([UpdateTurn(ui, k, F) EXCEPT !.streaming = FALSE])
      BY <3>1
    <3>3. <<k>> \in Seq(1 .. Latest) /\ ToSet(<<k>>) \subseteq {k}
      BY DEF ToSet
    <3>4. ASSUME NEW t \in Turns
          PROVE  y(t) \in ChatTurn(Latest) /\ y(t).id = t.id /\ y(t).msg = <<k>>
      <4> DEFINE a == <<k>>
      <4>1. a \in Seq(1 .. Latest)
        BY <3>3
      <4> HIDE DEF a
      <4>2. [t EXCEPT !.msg = a] \in ChatTurn(Latest) /\ [t EXCEPT !.msg = a].id = t.id
            /\ [t EXCEPT !.msg = a].msg = a
        BY <1>4, <4>1 DEF ChatTurn
      <4> DEFINE w == [t EXCEPT !.msg = a]
      <4>3. y(t) = [w EXCEPT !.follow = more, !.clarify = clarify, !.streaming = FALSE]
        BY <1>4 DEF ChatTurn, a
      <4> HIDE DEF w
      <4>4. LET z == [w EXCEPT !.follow = more, !.clarify = clarify, !.streaming = FALSE]
            IN z \in ChatTurn(Latest) /\ z.id = w.id /\ z.msg = w.msg
        BY <4>2 DEF ChatTurn, w
      <4> HIDE DEF y
      <4> QED BY <4>2, <4>3, <4>4 DEF w, a
    <3> HIDE DEF y
    <3>5. F \in [Turns -> ChatTurn(Latest)] /\ Updates(F, k)
      BY <3>3, <3>4 DEF Updates
    <3> HIDE DEF F
    <3> QED BY <3>2, <3>5
  <2>2. CASE ChatError(k)
    <3> DEFINE y(t) == [t EXCEPT !.error = TRUE, !.streaming = FALSE]
               F == [t \in Turns |-> y(t)]
    <3>1. ui' = Mounted([UpdateTurn(ui, k, F) EXCEPT !.streaming = FALSE])
      BY <2>2 DEF ChatError
    <3>2. ASSUME NEW t \in Turns
          PROVE  y(t) \in ChatTurn(Latest) /\ y(t).id = t.id /\ y(t).msg = t.msg
      BY <1>4 DEF ChatTurn
    <3> HIDE DEF y
    <3>3. F \in [Turns -> ChatTurn(Latest)] /\ Updates(F, k)
      BY <3>2 DEF Updates
    <3> HIDE DEF F
    <3> QED BY <3>1, <3>3
  <2> QED BY <2>1, <2>2
<1> DEFINE u == UpdateTurn(ui, k, F)
           z == [u EXCEPT !.streaming = FALSE]
           v == Mounted(z)
<1>6. SameTurns(u, Latest)
  <2> HIDE DEF u
  <2>1. u = UpdateTurn(ui, k, F)
    BY DEF u
  <2> QED BY <1>1, <1>5, <2>1, UpdateTurnFields
<1> HIDE DEF u
<1>7. z \in ChatUI(Latest) /\ z.mounted = ui.mounted /\ z.turns = u.turns /\ ~z.streaming
  BY <1>6 DEF ChatUI, SameTurns
<1> HIDE DEF z
<1>8. SameTurns(z, Latest) /\ SameTurns(ui, Latest)
  BY <1>1, <1>6, <1>7 DEF SameTurns
<1>9. v = z \/ (v = ui /\ ~ui.mounted)
  BY DEF Mounted
<1> HIDE DEF v
<1>10. SameTurns(v, Latest) /\ (v.mounted => ~v.streaming)
  BY <1>7, <1>8, <1>9 DEF SameTurns
<1>11. ui' = v
  BY <1>5 DEF u, z, v
<1> QED BY <1>1, <1>2, <1>3, <1>10, <1>11, ChatStreamStepInv DEF SameTurns

LEMMA ChatNextInv ==
    ASSUME IInv, host = "chat", ChatStep
    PROVE  IInv'
BY SendMessageInv, ChatGiveUpInv, ChatEventInv, ChatEndInv DEF ChatStep

-----------------------------------------------------------------------------
(* The invariant holds. *)

LEMMA InitInv ==
    ASSUME Init
    PROVE  IInv
<1>1. streams = <<>> /\ ctl = 0
  BY DEF Init, AnswerInit, ChatInit
<1>2. Latest = 0 /\ Len(streams) = 0 /\ streams \in Seq(Stream)
  BY <1>1 DEF Latest
<1>3. StreamInv /\ Latest <= MaxStreams
  BY <1>1, <1>2, Bounds DEF StreamInv, StreamsType, OneAtATime
<1>4. CASE AnswerInit
  <2>1. ui \in AnswerUI(0)
    <3>1. <<>> \in Seq([stream : 1 .. 0, id : CitedIds]) /\ NoRating \in 0 .. NoRating
      BY AnswerAssumption DEF NoRating
    <3> QED BY <1>4, <3>1 DEF AnswerInit, AnswerState, AnswerUI
  <2>2. /\ ui.mounted /\ ~ui.streaming /\ ui.rating = NoRating /\ ui.answer = <<>>
        /\ host \in {"answer", "hook"} /\ host # "chat"
    BY <1>4 DEF AnswerInit, AnswerState
  <2>3. Shown(host, ui, streams)
    BY <1>2, <2>2 DEF Shown, Accounted, Busy, Leakless, Under
  <2>4. AnswerOf(host, ui, streams)
    BY <1>2, <2>1, <2>2 DEF AnswerOf
  <2> QED BY <1>3, <2>2, <2>3, <2>4 DEF IInv
<1>5. CASE ChatInit
  <2>1. ui \in ChatUI(0) /\ ui.turns = <<>> /\ ui.mounted /\ ~ui.streaming /\ host = "chat"
    BY <1>5 DEF ChatInit, ChatUI
  <2>2. Shown(host, ui, streams)
    BY <1>2, <2>1 DEF Shown, Accounted, Busy, Leakless, Under
  <2>3. ChatOf(ui, streams)
    BY <1>2, <2>1 DEF ChatOf
  <2> QED BY <1>3, <2>1, <2>2, <2>3 DEF IInv
<1> QED BY <1>4, <1>5 DEF Init

LEMMA NextInv ==
    ASSUME IInv, [Next]_vars
    PROVE  IInv'
<1>1. CASE Next
  <2>1. CASE host # "chat" /\ AnswerNext
    BY <2>1, AnswerNextInv
  <2>2. CASE ChatStep
    <3>1. host = "chat"
      BY <2>2 DEF ChatStep, SendMessage, ChatAbort, ChatReset, ChatUnmount,
                  ChatGeneration, ChatFollowup, ChatDone, ChatError
    <3> QED BY <2>2, <3>1, ChatNextInv
  <2>3. CASE host = "chat" /\ \E k \in 1 .. Latest :
                (Resolves(k) /\ UNCHANGED <<host, ui>>) \/ EndsSilently(k)
    BY <2>3, ChatResolvesInv
  <2> QED BY <1>1, <2>1, <2>2, <2>3 DEF Next
<1>2. CASE UNCHANGED vars
  <2>1. host' = host /\ ui' = ui /\ streams' = streams /\ ctl' = ctl
    BY <1>2 DEF vars
  <2> QED BY <2>1 DEF IInv, StreamInv, Latest
<1> QED BY <1>1, <1>2

LEMMA Invariance == Spec => []IInv
<1>1. Init => IInv
  BY InitInv
<1>2. IInv /\ [Next]_vars => IInv'
  BY NextInv
<1> QED BY <1>1, <1>2, PTL DEF Spec

-----------------------------------------------------------------------------
(* What it says. *)

\* StreamsControlled: while no request is given up unresolved, the one stream
\* that is read is the latest and abortControllerRef holds its controller, and
\* an unmounted AnswerResults or ChatBar reads nothing. For any number of
\* requests and events.
THEOREM Controlled == Spec => []StreamsControlled
<1>1. ASSUME IInv PROVE StreamsControlled
  <2>1. /\ OneAtATime(streams, ctl) /\ Leakless(host, ui, streams)
        /\ Latest = Len(streams) /\ Latest \in Nat
    BY <1>1 DEF IInv, StreamInv, StreamsType, Shown, Latest
  <2>2. \A k \in 1 .. Latest - 1 : k \in 1 .. Latest
    BY <2>1
  <2>3. \A k \in 1 .. Latest : k = Latest \/ k \in 1 .. Latest - 1
    BY <2>1
  <2>4. OneOpenStream
    <3> SUFFICES ASSUME NoneLate, NEW k \in 1 .. Latest, streams[k].phase = "open"
                 PROVE  k = Latest /\ ctl = k
      BY DEF OneOpenStream
    <3>1. OnTime(streams, Latest - 1)
      BY <2>2 DEF NoneLate, OnTime
    <3> QED BY <2>1, <2>3, <3>1 DEF OneAtATime
  <2>5. NoneLeaked
    BY <2>1 DEF NoneLeaked, Leakless, OnTime, Active
  <2> QED BY <2>4, <2>5 DEF StreamsControlled
<1> QED BY <1>1, Invariance, PTL

\* StreamingHonest: a host that says isStreaming has a request under way or one
\* that ended without calling back; and a request under way is shown, by text,
\* spinner or error, in AnswerResults and in its turn of ChatBar.
THEOREM Honest == Spec => []StreamingHonest
<1>1. ASSUME IInv PROVE StreamingHonest
  <2>1. /\ StreamInv /\ Shown(host, ui, streams) /\ Latest = Len(streams)
        /\ Latest <= MaxStreams /\ host \in {"answer", "hook", "chat"}
        /\ host # "chat" => AnswerOf(host, ui, streams)
        /\ host = "chat" => ChatOf(ui, streams)
    BY <1>1 DEF IInv, Latest
  <2>2. TypeOK
    BY <2>1 DEF TypeOK, StreamInv, StreamsType, AnswerOf, ChatOf
  <2>3. StreamingAccounted
    BY <2>1 DEF StreamingAccounted, Shown, Accounted, Under, Active
  <2>4. BusyIsShown
    <3> SUFFICES ASSUME ui.mounted, NoneLate, Latest > 0, Active(Latest)
                 PROVE  /\ host # "chat" => "empty" \notin AnswerPanel
                        /\ host = "chat" => \A i \in DOMAIN ui.turns :
                              ui.turns[i].id = Latest => TurnPanel(ui.turns[i]) # {}
      BY DEF BusyIsShown
    <3>1. OnTime(streams, Latest) /\ Under(streams)
      BY <2>1 DEF OnTime, NoneLate, Under, Active
    <3>2. ui.streaming
      BY <2>1, <3>1 DEF Shown, Busy
    <3>3. ASSUME host # "chat" PROVE "empty" \notin AnswerPanel
      <4>1. "empty" \notin ui.extras
        BY <2>1, <3>3 DEF AnswerOf, AnswerUI, Parts
      <4> QED BY <3>2, <4>1 DEF AnswerPanel
    <3>4. ASSUME host = "chat", NEW i \in DOMAIN ui.turns, ui.turns[i].id = Latest
          PROVE  TurnPanel(ui.turns[i]) # {}
      <4>1. ui.turns[i].streaming
        BY <2>1, <3>1, <3>4 DEF ChatOf
      <4> QED BY <4>1 DEF TurnPanel
    <3> QED BY <3>3, <3>4
  <2> QED BY <2>2, <2>3, <2>4 DEF StreamingHonest
<1> QED BY <1>1, Invariance, PTL

\* TextOfItsRequest: an answer and the text of a turn come from one request, a
\* rating is for the query it was given on, and the citations of an answer keep
\* the number they had in any part of it, however long it becomes.
THEOREM OfItsRequest == Spec => []TextOfItsRequest
<1>1. ASSUME IInv PROVE TextOfItsRequest
  <2>1. CASE host # "chat"
    <3>1. /\ ui \in AnswerUI(Latest) /\ Latest \in Nat
          /\ ui.rating # NoRating => ui.rated = ui.query
          /\ OnTime(streams, Latest) => \A i \in DOMAIN ui.answer : ui.answer[i].stream = Latest
      BY <1>1, <2>1, AnswerFacts
    <3>2. AnswersUnmixed
      BY <3>1 DEF AnswersUnmixed, NoneLate, OnTime
    <3>3. CitationNumbersStable
      <4>1. ui.answer \in Seq([stream : 1 .. Latest, id : CitedIds])
        BY <3>1 DEF AnswerUI
      <4> QED BY <3>1, <4>1, NumbersStable DEF CitationNumbersStable
    <3> QED BY <2>1, <3>1, <3>2, <3>3 DEF TextOfItsRequest, TurnsUnmixed, RatingForItsQuestion
  <2>2. CASE host = "chat"
    <3>1. TurnsUnmixed
      BY <1>1, <2>2, ChatFacts DEF TurnsUnmixed
    <3> QED BY <2>2, <3>1 DEF TextOfItsRequest, AnswersUnmixed, RatingForItsQuestion,
                              CitationNumbersStable
  <2> QED BY <2>1, <2>2
<1> QED BY <1>1, Invariance, PTL
=============================================================================
