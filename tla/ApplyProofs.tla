---------------------------- MODULE ApplyProofs ----------------------------
(***************************************************************************)
(* The apply path is sound on every replica: however the committed entries *)
(* are cut into commits, coalesced, snapshotted and installed, a replica's *)
(* documents are those that the entries make one at a time.                *)
(***************************************************************************)
EXTENDS ApplyPath, WellFoundedInduction, TLAPS

-----------------------------------------------------------------------------
(***************************************************************************)
(* Least elements, by which facts about all indexes are proved.            *)
(***************************************************************************)

\* A set of naturals has a least element, and Min is it.
LEMMA Least ==
  ASSUME NEW T, T \subseteq Nat, T # {}
  PROVE  Min(T) \in T /\ \A n \in T : Min(T) <= n
  <1> DEFINE R == OpToRel(<, Nat)
  <1>1. IsWellFoundedOn(R, Nat)
    BY NatLessThanWellFounded
  <1>2. \A m, n \in Nat : n < m => <<n, m>> \in R
    BY DEF OpToRel
  <1> HIDE DEF R
  <1>3. PICK m \in T : \A n \in T : ~(<<n, m>> \in R)
    BY <1>1, WFMin
  <1>4. ASSUME NEW n \in T PROVE m <= n
    <2>1. m \in Nat /\ n \in Nat /\ ~(n < m)
      BY <1>2, <1>3
    <2> QED
      BY <2>1
  <1> QED
    BY <1>3, <1>4 DEF Min

-----------------------------------------------------------------------------
(***************************************************************************)
(* Replaying the log.                                                      *)
(***************************************************************************)

\* f is the document of k after each of the first N entries of l.
IsReplay(f, N, l, S, k) ==
    f = [n \in 0 .. N |->
            IF n = 0 THEN <<>>
            ELSE IF n \in S /\ l[n].kind = "batch" THEN OneKey(f[n - 1], l[n], n, k)
            ELSE f[n - 1]]

LEMMA ReplayValue ==
  ASSUME NEW f, NEW N \in Nat, NEW l, NEW S, NEW k, IsReplay(f, N, l, S, k)
  PROVE  /\ f[0] = <<>>
         /\ \A n \in 1 .. N :
               f[n] = IF n \in S /\ l[n].kind = "batch" THEN OneKey(f[n - 1], l[n], n, k)
                      ELSE f[n - 1]
  <1> DEFINE V(n) == IF n = 0 THEN <<>>
                     ELSE IF n \in S /\ l[n].kind = "batch" THEN OneKey(f[n - 1], l[n], n, k)
                     ELSE f[n - 1]
  <1>1. f = [n \in 0 .. N |-> V(n)]
    BY DEF IsReplay
  <1>2. V(0) = <<>> /\ \A n \in 1 .. N :
          V(n) = IF n \in S /\ l[n].kind = "batch" THEN OneKey(f[n - 1], l[n], n, k) ELSE f[n - 1]
    OBVIOUS
  <1> HIDE DEF V
  <1>3. \A n \in 0 .. N : f[n] = V(n)
    BY <1>1
  <1>4. 0 \in 0 .. N /\ \A n \in 1 .. N : n \in 0 .. N
    OBVIOUS
  <1> QED
    BY <1>2, <1>3, <1>4

\* The recursion of ReplayOf has a solution.
LEMMA ReplayExists ==
  ASSUME NEW N \in Nat, NEW l, NEW S, NEW k
  PROVE  \E f : IsReplay(f, N, l, S, k)
  <1> DEFINE T == {n \in Nat : ~\E f : IsReplay(f, n, l, S, k)}
  <1> SUFFICES ASSUME T # {} PROVE FALSE
    OBVIOUS
  <1> DEFINE m == Min(T)
  <1>1. m \in T /\ \A n \in T : m <= n
    BY Least
  <1> HIDE DEF m
  <1>2. CASE m = 0
    <2>1. IsReplay([n \in 0 .. 0 |-> <<>>], 0, l, S, k)
      BY DEF IsReplay
    <2> QED
      BY <1>1, <1>2, <2>1
  <1>3. CASE m # 0
    <2>1. m - 1 \in Nat /\ m \in Nat /\ m - 1 \notin T
      BY <1>1, <1>3
    <2>2. PICK f : IsReplay(f, m - 1, l, S, k)
      BY <2>1
    <2> DEFINE v == IF m \in S /\ l[m].kind = "batch" THEN OneKey(f[m - 1], l[m], m, k) ELSE f[m - 1]
               g == [n \in 0 .. m |-> IF n = m THEN v ELSE f[n]]
               V(h, n) == IF n = 0 THEN <<>>
                          ELSE IF n \in S /\ l[n].kind = "batch" THEN OneKey(h[n - 1], l[n], n, k)
                          ELSE h[n - 1]
    <2>3. /\ f[0] = <<>>
          /\ \A n \in 1 .. m - 1 : f[n] = V(f, n)
      BY <2>1, <2>2, ReplayValue
    <2>4. \A n \in 0 .. m - 1 : g[n] = f[n]
      BY <2>1
    <2>5. g[m] = v
      BY <2>1
    <2>6. \A n \in 0 .. m : g[n] = V(g, n)
      <3> SUFFICES ASSUME NEW n \in 0 .. m PROVE g[n] = V(g, n)
        OBVIOUS
      <3>1. CASE n = 0
        BY <2>1, <2>3, <2>4, <3>1, <1>3
      <3>2. CASE n \in 1 .. m - 1
        <4>1. g[n] = f[n] /\ g[n - 1] = f[n - 1] /\ f[n] = V(f, n) /\ n # 0
          BY <2>1, <2>3, <2>4, <3>2
        <4> HIDE DEF g
        <4> QED
          BY <4>1
      <3>3. CASE n = m
        <4>1. g[m - 1] = f[m - 1] /\ m # 0
          BY <2>1, <2>4, <1>3
        <4> HIDE DEF g
        <4> QED
          BY <2>5, <3>3, <4>1
      <3> QED
        BY <2>1, <3>1, <3>2, <3>3
    <2>7. g = [n \in 0 .. m |-> g[n]]
      OBVIOUS
    <2> HIDE DEF g
    <2>8. g = [n \in 0 .. m |-> V(g, n)]
      BY <2>6, <2>7
    <2>9. IsReplay(g, m, l, S, k)
      BY <2>8 DEF IsReplay
    <2> QED
      BY <1>1, <2>9
  <1> QED
    BY <1>2, <1>3

\* ReplayOf is the last value of the recursion.
LEMMA ReplayIs ==
  ASSUME NEW l, Len(l) \in Nat, NEW S, NEW k
  PROVE  \E f : IsReplay(f, Len(l), l, S, k) /\ ReplayOf(l, S, k) = f[Len(l)]
  <1> DEFINE f == CHOOSE h : IsReplay(h, Len(l), l, S, k)
  <1>1. IsReplay(f, Len(l), l, S, k)
    BY ReplayExists
  <1>2. ReplayOf(l, S, k) = f[Len(l)]
    BY DEF ReplayOf, IsReplay
  <1> QED
    BY <1>1, <1>2

\* Two logs, and what is replayed of them, agree up to m; nothing of S that is
\* replayed lies behind m.
SameUpTo(m, l1, S1, l2, S2) ==
    \A n \in 1 .. m : l1[n] = l2[n] /\ (l1[n].kind = "batch" => (n \in S1 <=> n \in S2))
NoneAfter(m, N, l, S) == \A n \in m + 1 .. N : n \notin S \/ l[n].kind # "batch"

\* Where two logs and sets of indexes agree, so do their replays.
LEMMA ReplayAgree ==
  ASSUME NEW l1, NEW l2, NEW S1, NEW S2, NEW k, NEW N1 \in Nat, NEW N2 \in Nat,
         NEW f, IsReplay(f, N1, l1, S1, k), NEW g, IsReplay(g, N2, l2, S2, k),
         NEW m \in Nat, m <= N1, m <= N2, SameUpTo(m, l1, S1, l2, S2)
  PROVE  \A n \in 0 .. m : f[n] = g[n]
  <1> DEFINE T == {n \in 0 .. m : f[n] # g[n]}
  <1> SUFFICES ASSUME T # {} PROVE FALSE
    OBVIOUS
  <1> DEFINE t == Min(T)
  <1>1. t \in T /\ \A n \in T : t <= n
    BY Least
  <1> HIDE DEF t
  <1>2. f[0] = <<>> /\ g[0] = <<>>
    BY ReplayValue
  <1>3. t \in 1 .. m /\ t - 1 \in 0 .. m /\ t - 1 \notin T
    BY <1>1, <1>2
  <1>4. f[t - 1] = g[t - 1]
    BY <1>3
  <1>5. t \in 1 .. N1 /\ t \in 1 .. N2
    BY <1>3
  <1>6. f[t] = IF t \in S1 /\ l1[t].kind = "batch" THEN OneKey(f[t - 1], l1[t], t, k) ELSE f[t - 1]
    BY <1>5, ReplayValue
  <1>7. g[t] = IF t \in S2 /\ l2[t].kind = "batch" THEN OneKey(g[t - 1], l2[t], t, k) ELSE g[t - 1]
    BY <1>5, ReplayValue
  <1>8. l1[t] = l2[t] /\ (l1[t].kind = "batch" => (t \in S1 <=> t \in S2))
    BY <1>3 DEF SameUpTo
  <1>9. f[t] = g[t]
    BY <1>4, <1>6, <1>7, <1>8
  <1> QED
    BY <1>1, <1>9

\* Entries that are not replayed change nothing.
LEMMA ReplayRest ==
  ASSUME NEW l, NEW S, NEW k, NEW N \in Nat, NEW f, IsReplay(f, N, l, S, k),
         NEW m \in 0 .. N, NoneAfter(m, N, l, S)
  PROVE  f[N] = f[m]
  <1> DEFINE T == {n \in m .. N : f[n] # f[m]}
  <1> SUFFICES ASSUME T # {} PROVE FALSE
    OBVIOUS
  <1> DEFINE t == Min(T)
  <1>1. t \in T /\ \A n \in T : t <= n
    BY Least
  <1> HIDE DEF t
  <1>2. t \in m + 1 .. N /\ t \in 1 .. N /\ t - 1 \in m .. N /\ t - 1 \notin T
    BY <1>1
  <1>3. f[t - 1] = f[m]
    BY <1>2
  <1>4. f[t] = IF t \in S /\ l[t].kind = "batch" THEN OneKey(f[t - 1], l[t], t, k) ELSE f[t - 1]
    BY <1>2, ReplayValue
  <1>5. f[t] = f[m]
    BY <1>2, <1>3, <1>4 DEF NoneAfter
  <1> QED
    BY <1>1, <1>5

\* An entry that comes behind all others, applied alone.
LEMMA ReplayAdd ==
  ASSUME NEW l, Len(l) \in Nat, NEW S, NEW k, NEW i \in 1 .. Len(l), \A j \in S : j \in Nat /\ j < i
  PROVE  ReplayOf(l, S \cup {i}, k) =
             IF l[i].kind = "batch" THEN OneKey(ReplayOf(l, S, k), l[i], i, k) ELSE ReplayOf(l, S, k)
  <1> DEFINE N == Len(l)
  <1>1. PICK f : IsReplay(f, N, l, S, k) /\ ReplayOf(l, S, k) = f[N]
    BY ReplayIs
  <1>2. PICK g : IsReplay(g, N, l, S \cup {i}, k) /\ ReplayOf(l, S \cup {i}, k) = g[N]
    BY ReplayIs
  <1> DEFINE h == i - 1
  <1>3. h \in Nat /\ h \in 0 .. N /\ h <= N /\ N \in Nat /\ i \in 0 .. N
    OBVIOUS
  <1> HIDE DEF N
  <1>4. SameUpTo(h, l, S, l, S \cup {i})
    BY DEF SameUpTo
  <1>5. f[h] = g[h]
    <2>1. \A n \in 0 .. h : f[n] = g[n]
      BY <1>1, <1>2, <1>3, <1>4, ReplayAgree
    <2> QED
      BY <1>3, <2>1
  <1>6. f[N] = f[h]
    <2>1. NoneAfter(h, N, l, S)
      BY <1>3 DEF NoneAfter
    <2> QED
      BY <1>1, <1>3, <2>1, ReplayRest
  <1>7. g[N] = g[i]
    <2>1. NoneAfter(i, N, l, S \cup {i})
      BY <1>3 DEF NoneAfter
    <2> QED
      BY <1>2, <1>3, <2>1, ReplayRest
  <1>8. g[i] = IF l[i].kind = "batch" THEN OneKey(g[h], l[i], i, k) ELSE g[h]
    <2>1. i \in 1 .. N /\ i \in S \cup {i}
      BY DEF N
    <2> QED
      BY <1>2, <1>3, <2>1, ReplayValue
  <1> QED
    BY <1>1, <1>2, <1>5, <1>6, <1>7, <1>8

\* New entries change no replay of older ones.
LEMMA ReplayGrows ==
  ASSUME NEW l, NEW E, l \in Seq(E), NEW e, NEW k, NEW S, S \subseteq 1 .. Len(l)
  PROVE  ReplayOf(Append(l, e), S, k) = ReplayOf(l, S, k)
  <1> DEFINE N == Len(l)
             M == Len(Append(l, e))
             a == Append(l, e)
  <1>1. /\ N \in Nat /\ M = N + 1 /\ M \in Nat
        /\ \A n \in 1 .. N : a[n] = l[n]
    <2>1. l \in Seq(E \cup {e}) /\ e \in E \cup {e}
      OBVIOUS
    <2> QED
      BY <2>1
  <1>2. PICK f : IsReplay(f, N, l, S, k) /\ ReplayOf(l, S, k) = f[N]
    BY <1>1, ReplayIs
  <1>3. PICK g : IsReplay(g, M, a, S, k) /\ ReplayOf(a, S, k) = g[M]
    BY <1>1, ReplayIs
  <1>4. S \subseteq 1 .. N
    OBVIOUS
  <1> HIDE DEF N, M, a
  <1>5. SameUpTo(N, l, S, a, S)
    BY <1>1 DEF SameUpTo
  <1>6. N <= N /\ N <= M /\ N \in 0 .. N /\ N \in 0 .. M
    BY <1>1
  <1>7. f[N] = g[N]
    <2>1. \A n \in 0 .. N : f[n] = g[n]
      BY <1>1, <1>2, <1>3, <1>5, <1>6, ReplayAgree
    <2> QED
      BY <1>6, <2>1
  <1>8. g[M] = g[N]
    <2>1. NoneAfter(N, M, a, S)
      BY <1>1, <1>4 DEF NoneAfter
    <2> QED
      BY <1>1, <1>3, <1>6, <2>1, ReplayRest
  <1> QED
    BY <1>2, <1>3, <1>7, <1>8 DEF a

-----------------------------------------------------------------------------
(***************************************************************************)
(* Coalescing batches is applying them one at a time.                      *)
(***************************************************************************)

\* Documents and pending changes that name entries up to n.
Partial(S) == UNION {[K -> S] : K \in SUBSET Keys}
Document(n) == Seq([of : 1 .. n, ts : Nat])
Docs(n) == [Keys -> Document(n)]
Change(n) == [upsert : BOOLEAN, ops : Seq(1 .. n)]
Pending(n) == [writes : Partial(1 .. n), deletes : SUBSET Keys, transforms : Partial(Change(n)),
               ts : Nat, of : SUBSET (1 .. n)]

LEMMA ChangeIs ==
  ASSUME NEW n
  PROVE  /\ \A u \in BOOLEAN, s \in Seq(1 .. n) : [upsert |-> u, ops |-> s] \in Change(n)
         /\ \A t \in Change(n) : /\ t.upsert \in BOOLEAN /\ t.ops \in Seq(1 .. n)
                                 /\ \A x : [t EXCEPT !.ops = x] = [upsert |-> t.upsert, ops |-> x]
  <1>1. ASSUME NEW t \in Change(n), NEW x
        PROVE  [t EXCEPT !.ops = x] = [upsert |-> t.upsert, ops |-> x]
    <2>1. t = [upsert |-> t.upsert, ops |-> t.ops]
      BY DEF Change
    <2> QED
      BY <2>1
  <1> QED
    BY <1>1 DEF Change

LEMMA PartialIs ==
  ASSUME NEW S, NEW f
  PROVE  f \in Partial(S) <=>
            /\ DOMAIN f \subseteq Keys /\ f = [k \in DOMAIN f |-> f[k]]
            /\ \A k \in DOMAIN f : f[k] \in S
  BY DEF Partial

\* What the transforms of a key append to its document.
Marks(ops, ts) == [j \in DOMAIN ops |-> Stored(ops[j], ts)]

LEMMA MarksType ==
  ASSUME NEW n \in Nat, NEW ops \in Seq(1 .. n), NEW ts \in Nat
  PROVE  Marks(ops, ts) \in Document(n) /\ Len(Marks(ops, ts)) = Len(ops)
  <1> DEFINE D == [of : 1 .. n, ts : Nat]
             N == Len(ops)
  <1>1. N \in Nat /\ DOMAIN ops = 1 .. N /\ \A j \in 1 .. N : ops[j] \in 1 .. n
    OBVIOUS
  <1>2. \A j \in 1 .. N : Stored(ops[j], ts) \in D
    BY <1>1 DEF Stored
  <1> HIDE DEF D, N
  <1>3. Marks(ops, ts) = [j \in 1 .. N |-> Stored(ops[j], ts)]
    BY <1>1 DEF Marks
  <1>4. Marks(ops, ts) \in Seq(D) /\ Len(Marks(ops, ts)) = N
    BY <1>1, <1>2, <1>3
  <1> QED
    BY <1>4 DEF D, N, Document

\* A document, the transforms of its key, and one more of entry i.
Joining(n, doc, ops, i, ts) ==
    n \in Nat /\ doc \in Document(n) /\ ops \in Seq(1 .. n) /\ i \in 1 .. n /\ ts \in Nat

Joined(doc, ops, i, ts) ==
    /\ doc \o Marks(Append(ops, i), ts) = Append(doc \o Marks(ops, ts), Stored(i, ts))
    /\ doc \o Marks(<<i>>, ts) = Append(doc, Stored(i, ts))
    /\ doc # <<>> => doc \o Marks(ops, ts) # <<>>

LEMMA MarksAppend ==
  ASSUME NEW n, NEW doc, NEW ops, NEW i, NEW ts, Joining(n, doc, ops, i, ts)
  PROVE  Joined(doc, ops, i, ts)
  <1> DEFINE D == [of : 1 .. n, ts : Nat]
             x == Stored(i, ts)
             m == Marks(ops, ts)
  <1>0. n \in Nat /\ doc \in Document(n) /\ ops \in Seq(1 .. n) /\ i \in 1 .. n /\ ts \in Nat
    BY DEF Joining
  <1>1. x \in D
    BY <1>0 DEF Stored
  <1>2. m \in Seq(D) /\ doc \in Seq(D)
    BY <1>0, MarksType DEF Document
  <1>3. Marks(Append(ops, i), ts) = Append(m, x)
    BY <1>0 DEF Marks
  <1>4. Marks(<<i>>, ts) = <<x>>
    BY DEF Marks
  <1> HIDE DEF x, m, D
  <1>5. doc \o Append(m, x) = Append(doc \o m, x)
    BY <1>1, <1>2
  <1>6. doc \o <<x>> = Append(doc, x)
    BY <1>1, <1>2
  <1>7. doc # <<>> => doc \o m # <<>>
    BY <1>2
  <1> QED
    BY <1>3, <1>4, <1>5, <1>6, <1>7 DEF x, m, Joined

LEMMA BatchIs ==
  ASSUME NEW b \in BatchOps
  PROVE  /\ b.kind = "batch" /\ b.ts \in Nat /\ b.writes \subseteq Keys /\ b.deletes \subseteq Keys
         /\ DOMAIN b.transforms \subseteq Keys
         /\ \A k \in DOMAIN b.transforms : b.transforms[k] \in BOOLEAN
  <1>1. b.transforms \in Partial(BOOLEAN)
    BY DEF BatchOps, Partial
  <1> QED
    BY <1>1, PartialIs DEF BatchOps

\* The fields of what is pending after a batch.
LEMMA CoalesceIs ==
  ASSUME NEW n \in Nat, NEW p \in Pending(n), NEW b \in BatchOps, NEW i \in 1 .. n,
         NEW q, q = Coalesce(p, b, i)
  PROVE  /\ DOMAIN q.writes = (DOMAIN p.writes \ (b.deletes \cup DOMAIN b.transforms)) \cup b.writes
         /\ \A k \in DOMAIN q.writes : q.writes[k] = IF k \in b.writes THEN i ELSE p.writes[k]
         /\ q.deletes = (p.deletes \ (b.writes \cup DOMAIN b.transforms)) \cup b.deletes
         /\ DOMAIN q.transforms =
               (DOMAIN p.transforms \ (b.deletes \cup b.writes)) \cup DOMAIN b.transforms
         /\ \A k \in DOMAIN q.transforms :
               q.transforms[k] =
                  IF k \notin DOMAIN p.transforms \ (b.deletes \cup b.writes)
                  THEN [upsert |-> b.transforms[k], ops |-> <<i>>]
                  ELSE IF k \in DOMAIN b.transforms
                  THEN [upsert |-> p.transforms[k].upsert, ops |-> Append(p.transforms[k].ops, i)]
                  ELSE p.transforms[k]
         /\ q.ts = IF p.ts = 0 THEN b.ts ELSE p.ts
         /\ q.of = p.of \cup {i}
  <1> DEFINE W == Restrict(p.writes, DOMAIN p.writes \ (b.deletes \cup DOMAIN b.transforms))
             T == Restrict(p.transforms, DOMAIN p.transforms \ (b.deletes \cup b.writes))
  <1>1. /\ DOMAIN W = DOMAIN p.writes \ (b.deletes \cup DOMAIN b.transforms)
        /\ \A k \in DOMAIN W : W[k] = p.writes[k]
        /\ DOMAIN T = DOMAIN p.transforms \ (b.deletes \cup b.writes)
        /\ \A k \in DOMAIN T : T[k] = p.transforms[k]
    BY DEF Restrict
  <1>2. \A k \in DOMAIN p.transforms : p.transforms[k] \in Change(n)
    BY PartialIs DEF Pending
  <1>3. \A t \in Change(n) :
           [t EXCEPT !.ops = Append(@, i)] = [upsert |-> t.upsert, ops |-> Append(t.ops, i)]
    BY ChangeIs
  <1>4. q = [writes |-> [k \in DOMAIN W \cup b.writes |-> IF k \in b.writes THEN i ELSE W[k]],
             deletes |-> (p.deletes \ (b.writes \cup DOMAIN b.transforms)) \cup b.deletes,
             transforms |-> [k \in DOMAIN T \cup DOMAIN b.transforms |->
                IF k \notin DOMAIN T THEN [upsert |-> b.transforms[k], ops |-> <<i>>]
                ELSE IF k \in DOMAIN b.transforms THEN [T[k] EXCEPT !.ops = Append(@, i)]
                ELSE T[k]],
             ts |-> IF p.ts = 0 THEN b.ts ELSE p.ts,
             of |-> p.of \cup {i}]
    BY DEF Coalesce
  <1> HIDE DEF W, T
  <1>5. /\ DOMAIN q.writes = DOMAIN W \cup b.writes
        /\ \A k \in DOMAIN q.writes : q.writes[k] = IF k \in b.writes THEN i ELSE W[k]
    BY <1>4
  <1>6. /\ DOMAIN q.transforms = DOMAIN T \cup DOMAIN b.transforms
        /\ \A k \in DOMAIN q.transforms : q.transforms[k] =
              IF k \notin DOMAIN T THEN [upsert |-> b.transforms[k], ops |-> <<i>>]
              ELSE IF k \in DOMAIN b.transforms THEN [T[k] EXCEPT !.ops = Append(@, i)]
              ELSE T[k]
    BY <1>4
  <1>7. /\ q.deletes = (p.deletes \ (b.writes \cup DOMAIN b.transforms)) \cup b.deletes
        /\ q.ts = IF p.ts = 0 THEN b.ts ELSE p.ts
        /\ q.of = p.of \cup {i}
    BY <1>4
  <1>8. \A k \in DOMAIN q.writes : q.writes[k] = IF k \in b.writes THEN i ELSE p.writes[k]
    BY <1>1, <1>5
  <1>9. \A k \in DOMAIN q.transforms :
           q.transforms[k] =
              IF k \notin DOMAIN T THEN [upsert |-> b.transforms[k], ops |-> <<i>>]
              ELSE IF k \in DOMAIN b.transforms
              THEN [upsert |-> p.transforms[k].upsert, ops |-> Append(p.transforms[k].ops, i)]
              ELSE p.transforms[k]
    <2> SUFFICES ASSUME NEW k \in DOMAIN q.transforms, k \in DOMAIN T, k \in DOMAIN b.transforms
                 PROVE  [T[k] EXCEPT !.ops = Append(@, i)] =
                        [upsert |-> p.transforms[k].upsert, ops |-> Append(p.transforms[k].ops, i)]
      BY <1>1, <1>6
    <2>1. T[k] = p.transforms[k] /\ T[k] \in Change(n)
      BY <1>1, <1>2
    <2> QED
      BY <1>3, <2>1
  <1> QED
    BY <1>1, <1>5, <1>6, <1>7, <1>8, <1>9

LEMMA CoalesceType ==
  ASSUME NEW n \in Nat, NEW p \in Pending(n), NEW b \in BatchOps, NEW i \in 1 .. n
  PROVE  Coalesce(p, b, i) \in Pending(n)
  <1> DEFINE q == Coalesce(p, b, i)
  <1>1. q = [writes |-> q.writes, deletes |-> q.deletes, transforms |-> q.transforms,
             ts |-> q.ts, of |-> q.of]
    BY DEF Coalesce
  <1>2. /\ q.writes = [k \in DOMAIN q.writes |-> q.writes[k]]
        /\ q.transforms = [k \in DOMAIN q.transforms |-> q.transforms[k]]
    BY DEF Coalesce
  <1> HIDE DEF q
  <1>3. q.writes \in Partial(1 .. n)
    <2>1. DOMAIN p.writes \subseteq Keys /\ \A k \in DOMAIN p.writes : p.writes[k] \in 1 .. n
      BY PartialIs DEF Pending
    <2>2. /\ DOMAIN q.writes \subseteq DOMAIN p.writes \cup b.writes
          /\ \A k \in DOMAIN q.writes : k \notin b.writes => k \in DOMAIN p.writes
          /\ \A k \in DOMAIN q.writes : q.writes[k] = IF k \in b.writes THEN i ELSE p.writes[k]
      BY CoalesceIs DEF q
    <2> QED
      BY <1>2, <2>1, <2>2, PartialIs, BatchIs
  <1>4. q.transforms \in Partial(Change(n))
    <2>1. /\ DOMAIN p.transforms \subseteq Keys
          /\ \A k \in DOMAIN p.transforms : p.transforms[k] \in Change(n)
      BY PartialIs DEF Pending
    <2>2. /\ DOMAIN q.transforms =
               (DOMAIN p.transforms \ (b.deletes \cup b.writes)) \cup DOMAIN b.transforms
          /\ \A k \in DOMAIN q.transforms :
               q.transforms[k] =
                  IF k \notin DOMAIN p.transforms \ (b.deletes \cup b.writes)
                  THEN [upsert |-> b.transforms[k], ops |-> <<i>>]
                  ELSE IF k \in DOMAIN b.transforms
                  THEN [upsert |-> p.transforms[k].upsert, ops |-> Append(p.transforms[k].ops, i)]
                  ELSE p.transforms[k]
      BY CoalesceIs DEF q
    <2>3. <<i>> \in Seq(1 .. n) /\ \A s \in Seq(1 .. n) : Append(s, i) \in Seq(1 .. n)
      OBVIOUS
    <2>4. \A k \in DOMAIN q.transforms : q.transforms[k] \in Change(n)
      <3> SUFFICES ASSUME NEW k \in DOMAIN q.transforms PROVE q.transforms[k] \in Change(n)
        OBVIOUS
      <3>1. CASE k \notin DOMAIN p.transforms \ (b.deletes \cup b.writes)
        <4>1. k \in DOMAIN b.transforms /\ b.transforms[k] \in BOOLEAN
          BY <2>2, <3>1, BatchIs
        <4>2. [upsert |-> b.transforms[k], ops |-> <<i>>] \in Change(n)
          BY <2>3, <4>1, ChangeIs
        <4>3. q.transforms[k] = [upsert |-> b.transforms[k], ops |-> <<i>>]
          BY <2>2, <3>1
        <4> QED
          BY <4>2, <4>3
      <3>2. CASE k \in DOMAIN p.transforms \ (b.deletes \cup b.writes)
        <4>1. /\ p.transforms[k] \in Change(n) /\ p.transforms[k].upsert \in BOOLEAN
              /\ Append(p.transforms[k].ops, i) \in Seq(1 .. n)
          BY <2>1, <2>3, <3>2, ChangeIs
        <4>2. [upsert |-> p.transforms[k].upsert, ops |-> Append(p.transforms[k].ops, i)] \in Change(n)
          BY <4>1, ChangeIs
        <4>3. \/ q.transforms[k] =
                    [upsert |-> p.transforms[k].upsert, ops |-> Append(p.transforms[k].ops, i)]
              \/ q.transforms[k] = p.transforms[k]
          BY <2>2, <3>2
        <4> QED
          BY <4>1, <4>2, <4>3
      <3> QED
        BY <3>1, <3>2
    <2> QED
      BY <1>2, <2>1, <2>2, <2>4, PartialIs, BatchIs
  <1>5. q.deletes \subseteq Keys /\ q.ts \in Nat /\ q.of \subseteq 1 .. n
    <2>1. /\ q.deletes = (p.deletes \ (b.writes \cup DOMAIN b.transforms)) \cup b.deletes
          /\ q.ts = IF p.ts = 0 THEN b.ts ELSE p.ts
          /\ q.of = p.of \cup {i}
      BY CoalesceIs DEF q
    <2> QED
      BY <2>1, BatchIs DEF Pending
  <1>6. q \in Pending(n)
    BY <1>1, <1>3, <1>4, <1>5 DEF Pending
  <1> QED
    BY <1>6 DEF q

\* A flush, key by key.
LEMMA FlushValue ==
  ASSUME NEW docs, NEW p, NEW k \in Keys
  PROVE  FlushBatch(docs, p)[k] =
            IF k \in p.deletes THEN <<>>
            ELSE IF k \in DOMAIN p.transforms /\ (docs[k] # <<>> \/ p.transforms[k].upsert)
                 THEN docs[k] \o Marks(p.transforms[k].ops, p.ts)
            ELSE IF k \in DOMAIN p.writes THEN <<Stored(p.writes[k], p.ts)>>
            ELSE docs[k]
  <1> DEFINE R == ResolveTransforms(docs, p)
  <1>1. /\ k \in DOMAIN R <=>
              k \in DOMAIN p.transforms /\ (docs[k] # <<>> \/ p.transforms[k].upsert)
        /\ k \in DOMAIN R => R[k] = docs[k] \o Marks(p.transforms[k].ops, p.ts)
    BY DEF ResolveTransforms, Marks
  <1>2. FlushBatch(docs, p)[k] = IF k \in p.deletes THEN <<>>
                                 ELSE IF k \in DOMAIN R THEN R[k]
                                 ELSE IF k \in DOMAIN p.writes THEN <<Stored(p.writes[k], p.ts)>>
                                 ELSE docs[k]
    BY DEF FlushBatch
  <1> HIDE DEF R
  <1> QED
    BY <1>1, <1>2

LEMMA NothingIs ==
  ASSUME NEW n \in Nat
  PROVE  /\ Nothing \in Pending(n) /\ ~HasPending(Nothing) /\ Nothing.ts = 0 /\ Nothing.of = {}
         /\ DOMAIN Nothing.writes = {} /\ DOMAIN Nothing.transforms = {} /\ Nothing.deletes = {}
  <1>1. /\ ~HasPending(Nothing) /\ Nothing.ts = 0 /\ Nothing.of = {}
        /\ DOMAIN Nothing.writes = {} /\ DOMAIN Nothing.transforms = {} /\ Nothing.deletes = {}
    BY DEF Nothing, HasPending
  <1>2. <<>> \in Partial(1 .. n) /\ <<>> \in Partial(Change(n))
    <2>1. \A S : <<>> \in [{} -> S]
      OBVIOUS
    <2>2. {} \in SUBSET Keys
      OBVIOUS
    <2> QED
      BY <2>1, <2>2 DEF Partial
  <1>3. Nothing \in Pending(n)
    BY <1>2 DEF Nothing, Pending
  <1> QED
    BY <1>1, <1>3

LEMMA FlushType ==
  ASSUME NEW n \in Nat, NEW docs \in Docs(n), NEW p \in Pending(n)
  PROVE  FlushBatch(docs, p) \in Docs(n)
  <1> DEFINE D == [of : 1 .. n, ts : Nat]
  <1>1. ASSUME NEW k \in Keys PROVE FlushBatch(docs, p)[k] \in Seq(D)
    <2>1. docs[k] \in Seq(D) /\ p.ts \in Nat
      BY DEF Docs, Document, Pending
    <2> DEFINE F == FlushBatch(docs, p)[k]
               c == k \in DOMAIN p.transforms /\ (docs[k] # <<>> \/ p.transforms[k].upsert)
    <2>2. F = IF k \in p.deletes THEN <<>>
              ELSE IF c THEN docs[k] \o Marks(p.transforms[k].ops, p.ts)
              ELSE IF k \in DOMAIN p.writes THEN <<Stored(p.writes[k], p.ts)>>
              ELSE docs[k]
      BY FlushValue
    <2>3. c => k \in DOMAIN p.transforms
      OBVIOUS
    <2> HIDE DEF F, c
    <2> SUFFICES F \in Seq(D)
      BY DEF F
    <2>4. CASE k \in p.deletes
      <3>1. F = <<>>
        BY <2>4, <2>2
      <3> QED
        BY <3>1
    <2>5. CASE k \notin p.deletes /\ c
      <3>1. F = docs[k] \o Marks(p.transforms[k].ops, p.ts)
        BY <2>5, <2>2
      <3>2. p.transforms[k].ops \in Seq(1 .. n)
        BY <2>5, <2>3, PartialIs, ChangeIs DEF Pending
      <3>3. Marks(p.transforms[k].ops, p.ts) \in Seq(D)
        BY <2>1, <3>2, MarksType DEF Document
      <3> HIDE DEF D
      <3> QED
        BY <2>1, <3>1, <3>3
    <2>6. CASE k \notin p.deletes /\ ~c /\ k \in DOMAIN p.writes
      <3>1. F = <<Stored(p.writes[k], p.ts)>>
        BY <2>6, <2>2
      <3>2. p.writes[k] \in 1 .. n
        BY <2>6, PartialIs DEF Pending
      <3>3. Stored(p.writes[k], p.ts) \in D
        BY <2>1, <3>2 DEF Stored
      <3> HIDE DEF D
      <3> QED
        BY <3>1, <3>3
    <2>7. CASE k \notin p.deletes /\ ~c /\ k \notin DOMAIN p.writes
      <3>1. F = docs[k]
        BY <2>7, <2>2
      <3> QED
        BY <2>1, <3>1
    <2> QED
      BY <2>4, <2>5, <2>6, <2>7
  <1>2. FlushBatch(docs, p) = [k \in Keys |-> FlushBatch(docs, p)[k]]
    BY DEF FlushBatch
  <1> HIDE DEF D
  <1>3. FlushBatch(docs, p) \in [Keys -> Seq(D)]
    BY <1>1, <1>2
  <1> QED
    BY <1>3 DEF D, Docs, Document

\* A batch with a timestamp leaves something pending.
LEMMA CoalescePending ==
  ASSUME NEW n \in Nat, NEW p \in Pending(n), NEW b \in BatchOps, NEW i \in 1 .. n,
         p.ts # 0 => HasPending(p), b.ts # 0 => ~IsEmpty(b), HasPending(p) => p.ts = b.ts
  PROVE  /\ Coalesce(p, b, i).ts = b.ts
         /\ b.ts # 0 => HasPending(Coalesce(p, b, i))
         /\ Coalesce(p, b, i).of = p.of \cup {i}
  <1> DEFINE q == Coalesce(p, b, i)
  <1>1. /\ DOMAIN q.writes = (DOMAIN p.writes \ (b.deletes \cup DOMAIN b.transforms)) \cup b.writes
        /\ q.deletes = (p.deletes \ (b.writes \cup DOMAIN b.transforms)) \cup b.deletes
        /\ DOMAIN q.transforms =
               (DOMAIN p.transforms \ (b.deletes \cup b.writes)) \cup DOMAIN b.transforms
        /\ q.ts = IF p.ts = 0 THEN b.ts ELSE p.ts
        /\ q.of = p.of \cup {i}
    BY CoalesceIs
  <1> HIDE DEF q
  <1>2. q.ts = b.ts
    BY <1>1
  <1>3. b.ts # 0 => HasPending(q)
    BY <1>1 DEF HasPending, IsEmpty
  <1> QED
    BY <1>1, <1>2, <1>3 DEF q

\* A batch that joins what is pending has the effect that it has alone, but for
\* the keys that MixedUp names.
LEMMA CoalesceKey ==
  ASSUME NEW n \in Nat, NEW docs \in Docs(n), NEW p \in Pending(n), NEW b \in BatchOps,
         NEW i \in 1 .. n, p.ts # 0 => HasPending(p), HasPending(p) => p.ts = b.ts,
         NEW k \in Keys, k \notin MixedUp(p, b)
  PROVE  FlushBatch(docs, Coalesce(p, b, i))[k] = OneKey(FlushBatch(docs, p)[k], b, i, k)
  <1> DEFINE q == Coalesce(p, b, i)
             F == FlushBatch(docs, p)[k]
             G == FlushBatch(docs, q)[k]
             x == Stored(i, b.ts)
             d == docs[k]
  <1>0. q = Coalesce(p, b, i)
    OBVIOUS
  <1> HIDE DEF q
  <1>1. /\ k \in DOMAIN q.writes <=>
              (k \in DOMAIN p.writes /\ k \notin b.deletes \cup DOMAIN b.transforms) \/ k \in b.writes
        /\ k \in DOMAIN q.writes => q.writes[k] = IF k \in b.writes THEN i ELSE p.writes[k]
        /\ k \in q.deletes <=>
              (k \in p.deletes /\ k \notin b.writes \cup DOMAIN b.transforms) \/ k \in b.deletes
        /\ k \in DOMAIN q.transforms <=>
              \/ k \in DOMAIN p.transforms /\ k \notin b.deletes \cup b.writes
              \/ k \in DOMAIN b.transforms
    BY <1>0, CoalesceIs
  <1>2. q.ts = b.ts
    <2>1. q.ts = IF p.ts = 0 THEN b.ts ELSE p.ts
      BY <1>0, CoalesceIs
    <2> QED
      BY <2>1
  <1>3. /\ DOMAIN q.transforms =
                (DOMAIN p.transforms \ (b.deletes \cup b.writes)) \cup DOMAIN b.transforms
        /\ \A j \in DOMAIN q.transforms : q.transforms[j] =
              IF j \notin DOMAIN p.transforms \ (b.deletes \cup b.writes)
              THEN [upsert |-> b.transforms[j], ops |-> <<i>>]
              ELSE IF j \in DOMAIN b.transforms
              THEN [upsert |-> p.transforms[j].upsert, ops |-> Append(p.transforms[j].ops, i)]
              ELSE p.transforms[j]
    BY CoalesceIs DEF q
  <1>4. G = IF k \in q.deletes THEN <<>>
            ELSE IF k \in DOMAIN q.transforms /\ (d # <<>> \/ q.transforms[k].upsert)
                 THEN d \o Marks(q.transforms[k].ops, q.ts)
            ELSE IF k \in DOMAIN q.writes THEN <<Stored(q.writes[k], q.ts)>>
            ELSE d
    BY FlushValue
  <1>5. F = IF k \in p.deletes THEN <<>>
            ELSE IF k \in DOMAIN p.transforms /\ (d # <<>> \/ p.transforms[k].upsert)
                 THEN d \o Marks(p.transforms[k].ops, p.ts)
            ELSE IF k \in DOMAIN p.writes THEN <<Stored(p.writes[k], p.ts)>>
            ELSE d
    BY FlushValue
  <1>6. d \in Document(n) /\ b.ts \in Nat
    BY BatchIs DEF Docs
  <1>7. /\ k \in DOMAIN b.transforms =>
              /\ k \notin DOMAIN p.writes /\ k \notin p.deletes /\ k \notin b.writes
              /\ k \in DOMAIN p.transforms => p.transforms[k].upsert = b.transforms[k]
        /\ k \in DOMAIN p.writes \/ k \in DOMAIN p.transforms => p.ts = b.ts
    BY DEF MixedUp, HasPending
  <1> HIDE DEF F, G, x, d
  <1>8. OneKey(F, b, i, k) =
           IF k \in b.deletes THEN <<>>
           ELSE IF k \in b.writes
                THEN IF k \in DOMAIN b.transforms THEN Append(<<x>>, x) ELSE <<x>>
           ELSE IF k \in DOMAIN b.transforms /\ (F # <<>> \/ b.transforms[k]) THEN Append(F, x)
           ELSE F
    BY DEF OneKey, x
  <1>9. CASE k \in b.deletes
    BY <1>1, <1>4, <1>8, <1>9 DEF F, G, q
  <1>10. CASE k \notin b.deletes /\ k \in b.writes
    <2>1. /\ k \notin DOMAIN b.transforms /\ k \notin q.deletes /\ k \notin DOMAIN q.transforms
          /\ k \in DOMAIN q.writes /\ q.writes[k] = i
      BY <1>1, <1>7, <1>10
    <2>2. G = <<x>>
      BY <1>2, <1>4, <2>1 DEF x
    <2> QED
      BY <1>8, <1>10, <2>1, <2>2 DEF F, G, q
  <1>11. CASE k \notin b.deletes /\ k \notin b.writes /\ k \in DOMAIN b.transforms
    <2>1. k \notin q.deletes /\ k \notin DOMAIN q.writes /\ k \in DOMAIN q.transforms
      BY <1>1, <1>7, <1>11
    <2>2. CASE k \in DOMAIN p.transforms
      <3> DEFINE ops == p.transforms[k].ops
                 u == p.transforms[k].upsert
                 t == q.transforms[k]
      <3>1. ops \in Seq(1 .. n)
        BY <2>2, PartialIs, ChangeIs DEF Pending
      <3>2. b.transforms[k] = u /\ p.ts = b.ts /\ k \notin p.deletes /\ k \notin DOMAIN p.writes
        BY <1>7, <1>11, <2>2
      <3>3. t = [upsert |-> u, ops |-> Append(ops, i)]
        BY <1>3, <1>11, <2>1, <2>2
      <3> HIDE DEF ops, u, t
      <3>4. t.upsert = u /\ t.ops = Append(ops, i)
        BY <3>3
      <3>5. /\ d \o Marks(Append(ops, i), b.ts) = Append(d \o Marks(ops, b.ts), x)
            /\ d # <<>> => d \o Marks(ops, b.ts) # <<>>
        <4>0. Joining(n, d, ops, i, b.ts)
          BY <1>6, <3>1 DEF Joining
        <4>1. Joined(d, ops, i, b.ts)
          BY <4>0, MarksAppend
        <4> QED
          BY <4>1 DEF Joined, x
      <3>6. CASE d # <<>> \/ u
        <4>1. F = d \o Marks(ops, b.ts)
          BY <1>5, <2>2, <3>2, <3>6 DEF ops, u
        <4>2. G = d \o Marks(Append(ops, i), b.ts)
          BY <1>2, <1>4, <2>1, <3>4, <3>6 DEF t
        <4>3. F # <<>> \/ u
          BY <3>5, <3>6, <4>1
        <4>4. OneKey(F, b, i, k) = Append(F, x)
          BY <1>8, <1>11, <3>2, <4>3
        <4> QED
          BY <3>5, <4>1, <4>2, <4>4 DEF F, G, q
      <3>7. CASE ~(d # <<>> \/ u)
        <4>1. F = <<>>
          BY <1>5, <2>2, <3>2, <3>7 DEF u
        <4>2. G = <<>>
          BY <1>4, <2>1, <3>4, <3>7 DEF t
        <4>3. OneKey(F, b, i, k) = F
          BY <1>8, <1>11, <3>2, <3>7, <4>1
        <4> QED
          BY <4>1, <4>2, <4>3 DEF F, G, q
      <3> QED
        BY <3>6, <3>7
    <2>3. CASE k \notin DOMAIN p.transforms
      <3> DEFINE u == b.transforms[k]
                 t == q.transforms[k]
      <3>1. F = d
        BY <1>5, <1>7, <1>11, <2>3
      <3>2. t = [upsert |-> u, ops |-> <<i>>]
        BY <1>3, <2>1, <2>3
      <3> HIDE DEF u, t
      <3>3. t.upsert = u /\ t.ops = <<i>>
        BY <3>2
      <3>4. d \o Marks(<<i>>, b.ts) = Append(d, x)
        <4>1. Joining(n, d, <<>>, i, b.ts)
          BY <1>6 DEF Joining
        <4>2. Joined(d, <<>>, i, b.ts)
          BY <4>1, MarksAppend
        <4> QED
          BY <4>2 DEF Joined, x
      <3>5. G = IF d # <<>> \/ u THEN Append(d, x) ELSE d
        BY <1>2, <1>4, <2>1, <3>3, <3>4 DEF t
      <3>6. OneKey(F, b, i, k) = IF F # <<>> \/ u THEN Append(F, x) ELSE F
        BY <1>8, <1>11 DEF u
      <3> QED
        BY <3>1, <3>5, <3>6 DEF F, G, q
    <2> QED
      BY <2>2, <2>3
  <1>12. CASE k \notin b.deletes /\ k \notin b.writes /\ k \notin DOMAIN b.transforms
    <2>1. /\ k \in q.deletes <=> k \in p.deletes
          /\ k \in DOMAIN q.writes <=> k \in DOMAIN p.writes
          /\ k \in DOMAIN q.writes => q.writes[k] = p.writes[k]
          /\ k \in DOMAIN q.transforms <=> k \in DOMAIN p.transforms
      BY <1>1, <1>12
    <2>2. k \in DOMAIN q.transforms => q.transforms[k] = p.transforms[k]
      BY <1>3, <1>12, <2>1
    <2>3. G = F
      BY <1>2, <1>4, <1>5, <1>7, <2>1, <2>2
    <2>4. OneKey(F, b, i, k) = F
      BY <1>8, <1>12
    <2> QED
      BY <2>3, <2>4 DEF F, G, q
  <1> QED
    BY <1>9, <1>10, <1>11, <1>12

-----------------------------------------------------------------------------
(***************************************************************************)
(* The inductive invariant.                                                *)
(***************************************************************************)

History(n) == [done : SUBSET (1 .. n), mixed : SUBSET Keys, whole : BOOLEAN]
Snap(n) == [index : 0 .. n, docs : Docs(n), history : History(n)]
Disk(n) == [commit : 0 .. n, compacted : 0 .. n, docs : Docs(n), snap : Snap(n)]
LoopState(n) ==
    [pc : {"ready", "publish", "snapshot", "trigger"}, upto : 0 .. n, wait : BOOLEAN]
Node(n) == [appliedIndex : 0 .. n, snapshotIndex : 0 .. n, next : 1 .. n + 1, loop : LoopState(n)]
Reader(n) == [kind : {"none", "entries", "snapshot"}, ents : SUBSET (1 .. n), pending : Pending(n)]

\* Everything names only entries of the log.
Types ==
    /\ log \in Seq(Entries) /\ Len(log) <= MaxLog /\ crashes \in 0 .. MaxCrashes
    /\ disk \in [Replicas -> Disk(Len(log))]
    /\ node \in [Replicas -> Node(Len(log))]
    /\ reader \in [Replicas -> Reader(Len(log))]
    /\ history \in [Replicas -> History(Len(log))]

\* The order of what is compacted, in the snapshot, published and saved. It is
\* broken only between the save of a snapshot and publishSnapshot.
Indexes(r) ==
    /\ disk[r].compacted <= disk[r].snap.index
    /\ disk[r].snap.index <= node[r].appliedIndex \/ Loop(r, "snapshot")
    /\ node[r].snapshotIndex <= node[r].appliedIndex
    /\ disk[r].snap.index <= disk[r].commit /\ node[r].appliedIndex <= disk[r].commit
    /\ Loop(r, "publish") => node[r].loop.upto = disk[r].commit
    /\ Loop(r, "snapshot") => node[r].loop.upto = disk[r].commit /\ disk[r].snap.index = disk[r].commit

\* readCommits takes entries that come behind all that it has taken before, and
\* has nothing pending between two commits.
Order(r) ==
    /\ \A i \in reader[r].ents : \A j \in history[r].done \cup reader[r].pending.of : j < i
    /\ history[r].done \cup InFlight(r) \subseteq
          DataUpTo(IF Loop(r, "snapshot") THEN disk[r].snap.index ELSE node[r].appliedIndex)
    /\ disk[r].snap.history.done \subseteq DataUpTo(disk[r].snap.index)
    /\ reader[r].kind # "entries" => reader[r].ents = {} /\ reader[r].pending = Nothing
    /\ reader[r].pending.ts # 0 => HasPending(reader[r].pending)

\* The documents are those of the entries that are done; flushing what is
\* pending makes them those of the entries that were taken.
Contents(r) ==
    /\ AgreesWith(disk[r].docs, history[r])
    /\ \A k \in Keys \ history[r].mixed :
          FlushBatch(disk[r].docs, reader[r].pending)[k] =
              Replay(history[r].done \cup reader[r].pending.of, k)
    /\ AgreesWith(disk[r].snap.docs, disk[r].snap.history)

\* Nothing is skipped unless whole says so; a snapshot that waits to be loaded
\* has everything that was published.
Complete(r) ==
    /\ history[r].whole /\ reader[r].kind # "snapshot" /\ ~Loop(r, "snapshot") =>
          history[r].done \cup InFlight(r) = DataUpTo(node[r].appliedIndex)
    /\ disk[r].snap.history.whole => disk[r].snap.history.done = DataUpTo(disk[r].snap.index)
    /\ disk[r].snap.history.whole /\ reader[r].kind = "snapshot" /\ ~Loop(r, "snapshot") =>
          DataUpTo(disk[r].snap.index) = DataUpTo(node[r].appliedIndex)

ReplicaInv(r) == Indexes(r) /\ Order(r) /\ Contents(r) /\ Complete(r)

IInv == Types /\ \A r \in Replicas : ReplicaInv(r)
-----------------------------------------------------------------------------
(***************************************************************************)
(* Types.                                                                  *)
(***************************************************************************)

\* Only operations, batches and empty entries are in the log.
LEMMA EntriesAre ==
  ASSUME NEW e \in Entries
  PROVE  /\ e.kind \in {"batch", "op", "empty"}
         /\ e.kind = "batch" => e \in BatchOps /\ (e.ts # 0 => ~IsEmpty(e))
  <1>1. CASE e \in Batches
    BY <1>1, ApplyAssumption, BatchIs
  <1>2. CASE e \in {Empty, OtherOp}
    BY <1>2 DEF Empty, OtherOp
  <1>3. CASE e \in {MergeProposals(ops) : ops \in Together}
    <2>1. PICK ops \in Together : e = MergeProposals(ops)
      BY <1>3
    <2> DEFINE changing(k) == {i \in DOMAIN ops : k \in DOMAIN ops[i].transforms}
               W == UNION {ops[i].writes : i \in DOMAIN ops}
               D == UNION {ops[i].deletes : i \in DOMAIN ops}
               C == UNION {DOMAIN ops[i].transforms : i \in DOMAIN ops}
               T == [k \in C |-> ops[Min(changing(k))].transforms[k]]
    <2>2. \A i \in DOMAIN ops : i \in Nat /\ ops[i] \in BatchOps
      BY ApplyAssumption
    <2>3. W \subseteq Keys /\ D \subseteq Keys /\ C \subseteq Keys
      BY <2>2, BatchIs
    <2>4. ASSUME NEW k \in C PROVE T[k] \in BOOLEAN
      <3>1. changing(k) \subseteq Nat /\ changing(k) # {}
        BY <2>2
      <3> DEFINE m == Min(changing(k))
      <3>2. m \in changing(k)
        BY <3>1, Least
      <3> HIDE DEF m
      <3>3. m \in DOMAIN ops /\ k \in DOMAIN ops[m].transforms
        BY <3>2
      <3>4. ops[m].transforms[k] \in BOOLEAN
        BY <2>2, <3>3, BatchIs
      <3> QED
        BY <3>4 DEF m
    <2>5. T \in Partial(BOOLEAN)
      <3>1. DOMAIN T = C /\ T = [k \in DOMAIN T |-> T[k]]
        OBVIOUS
      <3> HIDE DEF T, C
      <3> QED
        BY <2>3, <2>4, <3>1, PartialIs
    <2>6. e = [kind |-> "batch", ts |-> 0, writes |-> W, deletes |-> D, transforms |-> T]
      BY <2>1 DEF MergeProposals, BatchOp
    <2> HIDE DEF W, D, T
    <2>7. e \in BatchOps
      BY <2>3, <2>5, <2>6 DEF BatchOps, Partial
    <2> QED
      BY <2>6, <2>7
  <1> QED
    BY <1>1, <1>2, <1>3 DEF Entries

LEMMA LogIs ==
  ASSUME Types
  PROVE  /\ Len(log) \in Nat
         /\ \A i \in 1 .. Len(log) :
               /\ log[i].kind \in {"batch", "op", "empty"}
               /\ log[i].kind = "batch" => log[i] \in BatchOps /\ (log[i].ts # 0 => ~IsEmpty(log[i]))
  <1>1. Len(log) \in Nat /\ \A i \in 1 .. Len(log) : log[i] \in Entries
    BY DEF Types
  <1> QED
    BY <1>1, EntriesAre

\* The fields of a replica.
LEMMA FieldsAre ==
  ASSUME Types, NEW r \in Replicas, NEW n, n = Len(log)
  PROVE  /\ n \in Nat
         /\ disk[r].commit \in 0 .. n /\ disk[r].compacted \in 0 .. n /\ disk[r].docs \in Docs(n)
         /\ disk[r].snap \in Snap(n) /\ disk[r].snap.index \in 0 .. n
         /\ disk[r].snap.docs \in Docs(n) /\ disk[r].snap.history \in History(n)
         /\ disk[r].snap.history.done \subseteq 1 .. n
         /\ node[r].appliedIndex \in 0 .. n /\ node[r].snapshotIndex \in 0 .. n
         /\ node[r].next \in 1 .. n + 1 /\ node[r].loop \in LoopState(n)
         /\ node[r].loop.upto \in 0 .. n
         /\ reader[r].kind \in {"none", "entries", "snapshot"}
         /\ reader[r].ents \subseteq 1 .. n /\ reader[r].pending \in Pending(n)
         /\ reader[r].pending.of \subseteq 1 .. n /\ reader[r].pending.ts \in Nat
         /\ history[r].done \subseteq 1 .. n /\ history[r].mixed \subseteq Keys
  <1>1. n \in Nat
    BY DEF Types
  <1>2. disk[r] \in Disk(n) /\ node[r] \in Node(n) /\ reader[r] \in Reader(n) /\ history[r] \in History(n)
    BY DEF Types
  <1>3. /\ disk[r].commit \in 0 .. n /\ disk[r].compacted \in 0 .. n /\ disk[r].docs \in Docs(n)
        /\ disk[r].snap \in Snap(n)
    BY <1>2 DEF Disk
  <1>4. /\ disk[r].snap.index \in 0 .. n
        /\ disk[r].snap.docs \in Docs(n) /\ disk[r].snap.history \in History(n)
    BY <1>3 DEF Snap
  <1>5. /\ node[r].appliedIndex \in 0 .. n /\ node[r].snapshotIndex \in 0 .. n
        /\ node[r].next \in 1 .. n + 1 /\ node[r].loop \in LoopState(n)
    BY <1>2 DEF Node
  <1>6. node[r].loop.upto \in 0 .. n
    BY <1>5 DEF LoopState
  <1>7. /\ reader[r].kind \in {"none", "entries", "snapshot"}
        /\ reader[r].ents \subseteq 1 .. n /\ reader[r].pending \in Pending(n)
    BY <1>2 DEF Reader
  <1>8. reader[r].pending.of \subseteq 1 .. n /\ reader[r].pending.ts \in Nat
    BY <1>7 DEF Pending
  <1>9. /\ history[r].done \subseteq 1 .. n /\ history[r].mixed \subseteq Keys
        /\ disk[r].snap.history.done \subseteq 1 .. n
    BY <1>2, <1>4 DEF History
  <1> QED
    BY <1>1, <1>3, <1>4, <1>5, <1>6, <1>7, <1>8, <1>9

\* The types only grow with the log.
LEMMA TypesGrow ==
  ASSUME NEW n \in Nat, NEW m \in Nat, n <= m
  PROVE  /\ Disk(n) \subseteq Disk(m) /\ Node(n) \subseteq Node(m)
         /\ Reader(n) \subseteq Reader(m) /\ History(n) \subseteq History(m)
  <1>1. \A S, T : S \subseteq T => Seq(S) \subseteq Seq(T)
    <2> SUFFICES ASSUME NEW S, NEW T, S \subseteq T, NEW s \in Seq(S) PROVE s \in Seq(T)
      OBVIOUS
    <2> QED
      OBVIOUS
  <1>2. 1 .. n \subseteq 1 .. m /\ 0 .. n \subseteq 0 .. m
    OBVIOUS
  <1>3. Docs(n) \subseteq Docs(m)
    <2> DEFINE D(x) == [of : 1 .. x, ts : Nat]
    <2>1. D(n) \subseteq D(m)
      BY <1>2
    <2> HIDE DEF D
    <2>2. [Keys -> Seq(D(n))] \subseteq [Keys -> Seq(D(m))]
      BY <1>1, <2>1
    <2> QED
      BY <2>2 DEF Docs, Document, D
  <1>4. \A S, T : S \subseteq T => Partial(S) \subseteq Partial(T)
    BY PartialIs
  <1>5. Change(n) \subseteq Change(m)
    BY <1>1, <1>2 DEF Change
  <1>6. Pending(n) \subseteq Pending(m)
    BY <1>2, <1>4, <1>5 DEF Pending
  <1>7. History(n) \subseteq History(m)
    BY <1>2 DEF History
  <1>8. Snap(n) \subseteq Snap(m)
    BY <1>2, <1>3, <1>7 DEF Snap
  <1> QED
    BY <1>2, <1>3, <1>6, <1>7, <1>8 DEF Disk, Node, LoopState, Reader

-----------------------------------------------------------------------------
(***************************************************************************)
(* Every step keeps the invariant: the Ready loop.                         *)
(***************************************************************************)

Unmoved(s) ==
    disk'[s] = disk[s] /\ node'[s] = node[s] /\ reader'[s] = reader[s] /\ history'[s] = history[s]

LEMMA Kept ==
  ASSUME IInv, NEW s \in Replicas, log' = log, Unmoved(s)
  PROVE  ReplicaInv(s)'
  <1>1. ReplicaInv(s)
    BY DEF IInv
  <1>2. Indexes(s)'
    BY <1>1 DEF ReplicaInv, Indexes, Loop, Unmoved
  <1>3. Order(s)'
    BY <1>1 DEF ReplicaInv, Order, InFlight, Loop, DataUpTo, HasData, Unmoved
  <1>4. Contents(s)'
    BY <1>1 DEF ReplicaInv, Contents, AgreesWith, Replay, Unmoved
  <1>5. Complete(s)'
    BY <1>1 DEF ReplicaInv, Complete, InFlight, Loop, DataUpTo, HasData, Unmoved
  <1> QED
    BY <1>2, <1>3, <1>4, <1>5 DEF ReplicaInv

\* Only the replica that moves need be looked at.
LEMMA Frame ==
  ASSUME IInv, NEW r \in Replicas, log' = log, Types', \A s \in Replicas \ {r} : Unmoved(s),
         ReplicaInv(r)'
  PROVE  IInv'
  BY Kept DEF IInv

\* Steps that leave documents, history and reader alone.
LEMMA ContentsKept ==
  ASSUME NEW r \in Replicas, Contents(r), log' = log, UNCHANGED <<reader, history>>,
         disk'[r].docs = disk[r].docs,
         AgreesWith(disk'[r].snap.docs, disk'[r].snap.history)
  PROVE  Contents(r)'
  BY DEF Contents, AgreesWith, Replay

LEMMA ReadyInv ==
  ASSUME IInv, NEW r \in Replicas, Ready(r)
  PROVE  IInv'
  <1> DEFINE N == Len(log)
  <1>0. Types /\ ReplicaInv(r)
    BY DEF IInv
  <1>1. PICK n \in node[r].next .. Len(log) :
          /\ n >= disk[r].commit
          /\ disk' = [disk EXCEPT ![r].commit = n]
          /\ node' = [node EXCEPT ![r].loop = [pc |-> "publish", upto |-> n, wait |-> FALSE]]
    BY DEF Ready
  <1>2. UNCHANGED <<log, reader, history, crashes>> /\ Loop(r, "ready")
    BY DEF Ready
  <1>3. N \in Nat /\ n \in 0 .. N /\ node[r].appliedIndex \in Nat /\ disk[r].commit \in Nat
         /\ disk[r].snap.index \in Nat
    BY <1>0, <1>1, FieldsAre
  <1>4. Types'
    <2>t. /\ disk \in [Replicas -> Disk(N)] /\ node \in [Replicas -> Node(N)]
          /\ reader \in [Replicas -> Reader(N)] /\ history \in [Replicas -> History(N)]
      BY <1>0 DEF Types
    <2>1. disk' \in [Replicas -> Disk(N)]
      BY <1>1, <1>3, <2>t DEF Disk
    <2>2. [pc |-> "publish", upto |-> n, wait |-> FALSE] \in LoopState(N)
      BY <1>3 DEF LoopState
    <2>3. node' \in [Replicas -> Node(N)]
      BY <1>1, <2>2, <2>t DEF Node
    <2> QED
      BY <1>0, <1>2, <2>1, <2>3 DEF Types
  <1>5. \A s \in Replicas \ {r} : Unmoved(s)
    BY <1>0, <1>1, <1>2 DEF Types, Unmoved
  <1>6. /\ disk'[r].commit = n /\ disk'[r].compacted = disk[r].compacted
        /\ disk'[r].docs = disk[r].docs /\ disk'[r].snap = disk[r].snap
    BY <1>0, <1>1 DEF Types, Disk
  <1>7. /\ node'[r].appliedIndex = node[r].appliedIndex
        /\ node'[r].snapshotIndex = node[r].snapshotIndex
        /\ node'[r].loop.pc = "publish" /\ node'[r].loop.upto = n
    BY <1>0, <1>1 DEF Types, Node
  <1>8. Indexes(r)'
    BY <1>0, <1>1, <1>2, <1>3, <1>6, <1>7 DEF ReplicaInv, Indexes, Loop
  <1>9. Order(r)'
    BY <1>0, <1>2, <1>6, <1>7 DEF ReplicaInv, Order, InFlight, Loop, DataUpTo, HasData
  <1>10. Contents(r)'
    BY <1>0, <1>2, <1>6, ContentsKept DEF ReplicaInv, Contents
  <1>11. Complete(r)'
    BY <1>0, <1>2, <1>6, <1>7 DEF ReplicaInv, Complete, InFlight, Loop, DataUpTo, HasData
  <1> QED
    BY <1>2, <1>4, <1>5, <1>8, <1>9, <1>10, <1>11, Frame DEF ReplicaInv

LEMMA ReadySnapshotInv ==
  ASSUME IInv, NEW r \in Replicas, NEW s \in Replicas, s # r, ReadySnapshot(r, s)
  PROVE  IInv'
  <1> DEFINE N == Len(log)
  <1>n. PICK n : n = disk[s].snap.index
    OBVIOUS
  <1>0. Types /\ ReplicaInv(r) /\ ReplicaInv(s)
    BY DEF IInv
  <1>1. /\ disk' = [disk EXCEPT ![r] = [commit |-> n, compacted |-> n, docs |-> disk[r].docs,
                                        snap |-> disk[s].snap]]
        /\ node' = [node EXCEPT ![r].loop = [pc |-> "snapshot", upto |-> n, wait |-> FALSE]]
        /\ UNCHANGED <<log, reader, history, crashes>>
        /\ Loop(r, "ready") /\ disk[s].compacted > disk[r].commit
    BY <1>n DEF ReadySnapshot
  <1>2. /\ N \in Nat /\ n \in 0 .. N /\ disk[s].snap \in Snap(N)
        /\ node[r].appliedIndex \in Nat /\ disk[r].commit \in Nat /\ disk[s].compacted \in Nat
        /\ disk[r].docs \in Docs(N)
    <2>1. /\ N \in Nat /\ node[r].appliedIndex \in 0 .. N /\ disk[r].commit \in 0 .. N
          /\ disk[r].docs \in Docs(N)
      BY <1>0, FieldsAre
    <2>2. disk[s].snap \in Snap(N) /\ disk[s].snap.index \in 0 .. N /\ disk[s].compacted \in 0 .. N
      BY <1>0, FieldsAre
    <2> QED
      BY <1>n, <2>1, <2>2
  <1>3. /\ n > disk[r].commit /\ node[r].appliedIndex <= n
    BY <1>0, <1>1, <1>2, <1>n DEF ReplicaInv, Indexes
  <1>4. Types'
    <2>t. /\ disk \in [Replicas -> Disk(N)] /\ node \in [Replicas -> Node(N)]
          /\ reader \in [Replicas -> Reader(N)] /\ history \in [Replicas -> History(N)]
      BY <1>0 DEF Types
    <2>0. [commit |-> n, compacted |-> n, docs |-> disk[r].docs, snap |-> disk[s].snap] \in Disk(N)
      BY <1>2 DEF Disk
    <2>1. disk' \in [Replicas -> Disk(N)]
      BY <1>1, <2>0, <2>t
    <2>2. [pc |-> "snapshot", upto |-> n, wait |-> FALSE] \in LoopState(N)
      BY <1>2 DEF LoopState
    <2>3. node' \in [Replicas -> Node(N)]
      BY <1>1, <2>2, <2>t DEF Node
    <2> QED
      BY <1>0, <1>1, <2>1, <2>3 DEF Types
  <1>5. \A x \in Replicas \ {r} : Unmoved(x)
    BY <1>0, <1>1 DEF Types, Unmoved
  <1>6. /\ disk'[r].commit = n /\ disk'[r].compacted = n
        /\ disk'[r].docs = disk[r].docs /\ disk'[r].snap = disk[s].snap
    BY <1>0, <1>1 DEF Types, Disk
  <1>7. /\ node'[r].appliedIndex = node[r].appliedIndex
        /\ node'[r].snapshotIndex = node[r].snapshotIndex
        /\ node'[r].loop.pc = "snapshot" /\ node'[r].loop.upto = n
    BY <1>0, <1>1 DEF Types, Node
  <1>8. Indexes(r)'
    <2>1. node[r].snapshotIndex <= node[r].appliedIndex /\ disk'[r].snap.index = n
      BY <1>0, <1>6, <1>n DEF ReplicaInv, Indexes
    <2> QED
      BY <1>2, <1>3, <1>6, <1>7, <2>1 DEF Indexes, Loop
  <1>9. Order(r)'
    <2>1. DataUpTo(node[r].appliedIndex) \subseteq DataUpTo(n)
      BY <1>2, <1>3 DEF DataUpTo
    <2>2. history[r].done \cup InFlight(r) \subseteq DataUpTo(n)
      BY <1>0, <1>1, <2>1 DEF ReplicaInv, Order, Loop
    <2>3. disk[s].snap.history.done \subseteq DataUpTo(n)
      BY <1>0, <1>n DEF ReplicaInv, Order
    <2>4. \A x : DataUpTo(x)' = DataUpTo(x)
      BY <1>1 DEF DataUpTo, HasData
    <2>5. InFlight(r)' = InFlight(r)
      BY <1>1 DEF InFlight
    <2>6. Loop(r, "snapshot")' /\ disk'[r].snap.index = n
      BY <1>6, <1>7, <1>n DEF Loop
    <2>7. Order(r)
      BY <1>0 DEF ReplicaInv
    <2> QED
      BY <1>1, <1>6, <2>2, <2>3, <2>4, <2>5, <2>6, <2>7 DEF Order
  <1>10. Contents(r)'
    <2>1. AgreesWith(disk'[r].snap.docs, disk'[r].snap.history) /\ Contents(r)
      BY <1>0, <1>6 DEF ReplicaInv, Contents
    <2> QED
      BY <1>1, <1>6, <2>1, ContentsKept
  <1>11. Complete(r)'
    BY <1>0, <1>1, <1>6, <1>7 DEF ReplicaInv, Complete, InFlight, Loop, DataUpTo, HasData
  <1> QED
    BY <1>1, <1>4, <1>5, <1>8, <1>9, <1>10, <1>11, Frame DEF ReplicaInv

LEMMA PublishSnapshotInv ==
  ASSUME IInv, NEW r \in Replicas, PublishSnapshot(r)
  PROVE  IInv'
  <1> DEFINE N == Len(log)
  <1>n. PICK n : n = node[r].loop.upto
    OBVIOUS
  <1>0. Types /\ ReplicaInv(r)
    BY DEF IInv
  <1>1. /\ Loop(r, "snapshot") /\ reader[r].kind = "none"
        /\ reader' = [reader EXCEPT ![r] = [kind |-> "snapshot", ents |-> {}, pending |-> Nothing]]
        /\ node' = [node EXCEPT ![r] = [appliedIndex |-> n, snapshotIndex |-> n, next |-> n + 1,
                                        loop |-> Idle]]
        /\ UNCHANGED <<log, disk, history, crashes>>
    BY <1>n DEF PublishSnapshot
  <1>2. N \in Nat /\ n \in 0 .. N /\ disk[r].compacted \in Nat /\ node[r].loop \in LoopState(N)
    BY <1>0, <1>n, FieldsAre
  <1>3. n = disk[r].commit /\ n = disk[r].snap.index
    BY <1>0, <1>1, <1>n DEF ReplicaInv, Indexes
  <1>4. Types'
    <2>1. [kind |-> "snapshot", ents |-> {}, pending |-> Nothing] \in Reader(N)
      BY <1>2, NothingIs DEF Reader
    <2>2. reader' \in [Replicas -> Reader(N)]
      BY <1>0, <1>1, <2>1 DEF Types
    <2>3. Idle \in LoopState(N)
      BY <1>2 DEF Idle, LoopState
    <2>4. node' \in [Replicas -> Node(N)]
      BY <1>0, <1>1, <1>2, <2>3 DEF Types, Node
    <2> QED
      BY <1>0, <1>1, <2>2, <2>4 DEF Types
  <1>5. \A x \in Replicas \ {r} : Unmoved(x)
    BY <1>0, <1>1 DEF Types, Unmoved
  <1>6. /\ reader'[r].kind = "snapshot" /\ reader'[r].ents = {} /\ reader'[r].pending = Nothing
        /\ reader[r].ents = {} /\ reader[r].pending = Nothing
    BY <1>0, <1>1 DEF Types, ReplicaInv, Order
  <1>7. node'[r].appliedIndex = n /\ node'[r].snapshotIndex = n /\ node'[r].loop.pc = "ready"
    BY <1>0, <1>1 DEF Types, Node, Idle
  <1>8. Indexes(r)'
    BY <1>0, <1>1, <1>2, <1>3, <1>7 DEF ReplicaInv, Indexes, Loop
  <1>d. \A x : DataUpTo(x)' = DataUpTo(x)
    BY <1>1 DEF DataUpTo, HasData
  <1>9. Order(r)'
    <2>1. InFlight(r)' = InFlight(r)
      BY <1>6 DEF InFlight
    <2>2. history[r].done \cup InFlight(r) \subseteq DataUpTo(n)
      BY <1>0, <1>1, <1>3 DEF ReplicaInv, Order
    <2>3. Nothing.ts = 0
      BY <1>2, NothingIs
    <2> QED
      BY <1>0, <1>1, <1>6, <1>7, <1>d, <2>1, <2>2, <2>3 DEF ReplicaInv, Order, Loop
  <1>10. Contents(r)'
    BY <1>0, <1>1, <1>6 DEF ReplicaInv, Contents, AgreesWith, Replay
  <1>11. Complete(r)'
    BY <1>0, <1>1, <1>3, <1>6, <1>7, <1>d DEF ReplicaInv, Complete
  <1> QED
    BY <1>1, <1>4, <1>5, <1>8, <1>9, <1>10, <1>11, Frame DEF ReplicaInv

LEMMA PublishEntriesInv ==
  ASSUME IInv, NEW r \in Replicas, PublishEntries(r)
  PROVE  IInv'
  <1> DEFINE N == Len(log)
             NewLoop(a, d) == IF SnapshotDue(a, node[r].snapshotIndex)
                              THEN [pc |-> "trigger", upto |-> 0, wait |-> d # {}] ELSE Idle
  <1>n. PICK n : n = node[r].loop.upto
    OBVIOUS
  <1>v. PICK data : data = {i \in EntriesToApply(r) : HasData(i)}
    OBVIOUS
  <1>a. PICK a : a = IF EntriesToApply(r) = {} THEN node[r].appliedIndex ELSE n
    OBVIOUS
  <1>l. PICK l : l = NewLoop(a, data)
    OBVIOUS
  <1>0. Types /\ ReplicaInv(r)
    BY DEF IInv
  <1>1. /\ Loop(r, "publish") /\ (data # {} => reader[r].kind = "none")
        /\ reader' = IF data = {} THEN reader
                     ELSE [reader EXCEPT ![r] = [kind |-> "entries", ents |-> data, pending |-> Nothing]]
        /\ node' = [node EXCEPT ![r] = [appliedIndex |-> a, snapshotIndex |-> node[r].snapshotIndex,
                                        next |-> n + 1, loop |-> l]]
        /\ UNCHANGED <<log, disk, history, crashes>>
    BY <1>n, <1>v, <1>a, <1>l DEF PublishEntries
  <1>2. /\ N \in Nat /\ n \in 0 .. N /\ node[r].appliedIndex \in 0 .. N /\ disk[r].snap.index \in 0 .. N
        /\ node[r].snapshotIndex \in 0 .. N /\ node[r].loop \in LoopState(N)
    BY <1>0, <1>n, FieldsAre
  <1>3. n = disk[r].commit /\ node[r].appliedIndex <= n
    BY <1>0, <1>1, <1>n DEF ReplicaInv, Indexes
  <1>4. a = n
    BY <1>2, <1>3, <1>a, <1>n DEF EntriesToApply
  <1>d. \A x : DataUpTo(x)' = DataUpTo(x)
    BY <1>1 DEF DataUpTo, HasData
  <1>p. DataUpTo(n) = DataUpTo(node[r].appliedIndex) \cup data
    BY <1>2, <1>3, <1>v, <1>n DEF DataUpTo, EntriesToApply
  <1>q. data \subseteq 1 .. N /\ \A i \in data : i \in Nat /\ i > node[r].appliedIndex
    BY <1>2, <1>v, <1>n DEF EntriesToApply
  <1>m. l.pc \in {"trigger", "ready"} /\ l \in LoopState(N)
    BY <1>2, <1>l DEF Idle, LoopState
  <1>5. Types'
    <2>t. /\ disk \in [Replicas -> Disk(N)] /\ node \in [Replicas -> Node(N)]
          /\ reader \in [Replicas -> Reader(N)] /\ history \in [Replicas -> History(N)]
      BY <1>0 DEF Types
    <2>1. [kind |-> "entries", ents |-> data, pending |-> Nothing] \in Reader(N)
      BY <1>2, <1>q, NothingIs DEF Reader
    <2>2. reader' \in [Replicas -> Reader(N)]
      BY <1>0, <1>1, <2>1 DEF Types
    <2>3. a \in 0 .. N /\ n + 1 \in 1 .. N + 1
      BY <1>2, <1>4
    <2>v. [appliedIndex |-> a, snapshotIndex |-> node[r].snapshotIndex, next |-> n + 1, loop |-> l]
              \in Node(N)
      BY <1>2, <1>m, <2>3 DEF Node
    <2>4. node' \in [Replicas -> Node(N)]
      BY <1>1, <2>v, <2>t
    <2> QED
      BY <1>0, <1>1, <2>2, <2>4 DEF Types
  <1>6. \A x \in Replicas \ {r} : Unmoved(x)
    BY <1>0, <1>1 DEF Types, Unmoved
  <1>7. /\ node'[r].appliedIndex = n /\ node'[r].snapshotIndex = node[r].snapshotIndex
        /\ node'[r].loop = l
    BY <1>0, <1>1, <1>4 DEF Types, Node
  <1>8. Indexes(r)'
    BY <1>0, <1>1, <1>2, <1>3, <1>7, <1>m DEF ReplicaInv, Indexes, Loop
  <1>9. /\ history[r].done \cup InFlight(r) \subseteq DataUpTo(node[r].appliedIndex)
        /\ InFlight(r)' = InFlight(r) \cup data
        /\ reader'[r].pending = reader[r].pending
        /\ reader'[r].kind = "snapshot" <=> reader[r].kind = "snapshot"
        /\ reader'[r].kind # "entries" => reader[r].kind # "entries" /\ reader'[r].ents = reader[r].ents
        /\ reader'[r].ents = IF data = {} THEN reader[r].ents ELSE data
    <2>1. history[r].done \cup InFlight(r) \subseteq DataUpTo(node[r].appliedIndex)
      BY <1>0, <1>1 DEF ReplicaInv, Order, Loop
    <2>2. CASE data = {}
      BY <1>1, <2>1, <2>2 DEF InFlight
    <2>3. CASE data # {}
      <3>1. reader[r].ents = {} /\ reader[r].pending = Nothing /\ reader[r].kind = "none"
        BY <1>0, <1>1, <2>3 DEF ReplicaInv, Order
      <3>2. reader'[r].kind = "entries" /\ reader'[r].ents = data /\ reader'[r].pending = Nothing
        BY <1>0, <1>1, <2>3 DEF Types
      <3> QED
        BY <2>1, <2>3, <3>1, <3>2 DEF InFlight
    <2> QED
      BY <2>2, <2>3
  <1>10. Order(r)'
    <2>1. history[r].done \cup InFlight(r)' \subseteq DataUpTo(n)
      BY <1>9, <1>p
    <2>2. \A j \in DataUpTo(node[r].appliedIndex) : j \in Nat /\ j <= node[r].appliedIndex
      BY <1>2 DEF DataUpTo
    <2>3. \A i \in data : \A j \in history[r].done \cup reader[r].pending.of : j < i
      BY <1>2, <1>9, <1>q, <2>2 DEF InFlight
    <2>4. \A i \in reader'[r].ents : \A j \in history[r].done \cup reader[r].pending.of : j < i
      BY <1>0, <1>9, <2>3 DEF ReplicaInv, Order
    <2>5. disk[r].snap.history.done \subseteq DataUpTo(disk[r].snap.index)
      BY <1>0 DEF ReplicaInv, Order
    <2>6. /\ reader'[r].kind # "entries" => reader'[r].ents = {} /\ reader'[r].pending = Nothing
          /\ reader'[r].pending.ts # 0 => HasPending(reader'[r].pending)
      BY <1>0, <1>9 DEF ReplicaInv, Order
    <2>7. ~Loop(r, "snapshot")'
      BY <1>7, <1>m DEF Loop
    <2> QED
      BY <1>1, <1>7, <1>9, <1>d, <2>1, <2>4, <2>5, <2>6, <2>7 DEF Order
  <1>11. Contents(r)'
    BY <1>0, <1>1, <1>9 DEF ReplicaInv, Contents, AgreesWith, Replay
  <1>12. Complete(r)'
    <2>1. ~Loop(r, "snapshot")' /\ ~Loop(r, "snapshot")
      BY <1>1, <1>7, <1>m DEF Loop
    <2>2. history[r].whole /\ reader[r].kind # "snapshot" =>
             history[r].done \cup InFlight(r)' = DataUpTo(n)
      BY <1>0, <1>9, <1>p, <2>1 DEF ReplicaInv, Complete
    <2>3. reader[r].kind = "snapshot" => data = {}
      BY <1>1
    <2>4. disk[r].snap.history.whole /\ reader[r].kind = "snapshot" =>
             DataUpTo(disk[r].snap.index) = DataUpTo(n)
      BY <1>0, <1>p, <2>1, <2>3 DEF ReplicaInv, Complete
    <2>5. disk[r].snap.history.whole => disk[r].snap.history.done = DataUpTo(disk[r].snap.index)
      BY <1>0 DEF ReplicaInv, Complete
    <2> QED
      BY <1>1, <1>7, <1>9, <1>d, <2>2, <2>4, <2>5 DEF Complete
  <1> QED
    BY <1>1, <1>5, <1>6, <1>8, <1>10, <1>11, <1>12, Frame DEF ReplicaInv

LEMMA MaybeTriggerSnapshotInv ==
  ASSUME IInv, NEW r \in Replicas, MaybeTriggerSnapshot(r)
  PROVE  IInv'
  <1> DEFINE N == Len(log)
  <1>n. PICK n : n = node[r].appliedIndex
    OBVIOUS
  <1>w. PICK w : w = (history[r].whole /\ (node[r].loop.wait \/ reader[r].kind = "none"))
    OBVIOUS
  <1>h. PICK h : h = [history[r] EXCEPT !.whole = w]
    OBVIOUS
  <1>c. PICK c : c = IF n - CatchUp > 1 /\ n - CatchUp > disk[r].compacted THEN n - CatchUp
                     ELSE disk[r].compacted
    OBVIOUS
  <1>0. Types /\ ReplicaInv(r)
    BY DEF IInv
  <1>1. /\ Loop(r, "trigger") /\ (node[r].loop.wait => reader[r].kind = "none")
        /\ \/ /\ disk' = [disk EXCEPT ![r].snap = [index |-> n, docs |-> disk[r].docs, history |-> h],
                                      ![r].compacted = c]
              /\ node' = [node EXCEPT ![r].snapshotIndex = n, ![r].loop = Idle]
           \/ node' = [node EXCEPT ![r].loop = Idle] /\ UNCHANGED disk
        /\ UNCHANGED <<log, reader, history, crashes>>
    BY <1>n, <1>w, <1>h, <1>c DEF MaybeTriggerSnapshot
  <1>2. /\ N \in Nat /\ n \in 0 .. N /\ disk[r].docs \in Docs(N) /\ disk[r].compacted \in 0 .. N
        /\ disk[r].snap.index \in 0 .. N /\ CatchUp \in Nat
    <2>1. /\ N \in Nat /\ node[r].appliedIndex \in 0 .. N /\ disk[r].docs \in Docs(N)
          /\ disk[r].compacted \in 0 .. N /\ disk[r].snap.index \in 0 .. N
      BY <1>0, FieldsAre
    <2> QED
      BY <1>n, <2>1, ApplyAssumption
  <1>3. c \in 0 .. N /\ c <= n
    <2>1. disk[r].compacted <= n
      BY <1>0, <1>1, <1>2, <1>n DEF ReplicaInv, Indexes, Loop
    <2> QED
      BY <1>2, <1>c, <2>1
  <1>4. /\ h \in History(N) /\ h.done = history[r].done /\ h.mixed = history[r].mixed
        /\ h.whole = w
    <2>1. history[r] \in History(N)
      BY <1>0 DEF Types
    <2>2. w \in BOOLEAN
      BY <1>w
    <2> QED
      BY <1>h, <2>1, <2>2 DEF History
  <1>d. \A x : DataUpTo(x)' = DataUpTo(x)
    BY <1>1 DEF DataUpTo, HasData
  <1>5. Types'
    <2>1. Idle \in LoopState(N)
      BY <1>2 DEF Idle, LoopState
    <2>2. [index |-> n, docs |-> disk[r].docs, history |-> h] \in Snap(N)
      BY <1>2, <1>4 DEF Snap
    <2>s. PICK sn : sn = [index |-> n, docs |-> disk[r].docs, history |-> h]
      OBVIOUS
    <2>3. CASE /\ disk' = [disk EXCEPT ![r].snap = sn, ![r].compacted = c]
               /\ node' = [node EXCEPT ![r].snapshotIndex = n, ![r].loop = Idle]
      <3>1. sn \in Snap(N) /\ disk \in [Replicas -> Disk(N)] /\ node \in [Replicas -> Node(N)]
        BY <1>0, <2>2, <2>s DEF Types
      <3>2. disk' \in [Replicas -> Disk(N)]
        BY <1>3, <2>3, <3>1 DEF Disk
      <3>3. node' \in [Replicas -> Node(N)]
        BY <1>2, <2>1, <2>3, <3>1 DEF Node
      <3> QED
        BY <1>0, <1>1, <3>2, <3>3 DEF Types
    <2>4. CASE node' = [node EXCEPT ![r].loop = Idle] /\ UNCHANGED disk
      <3>1. node \in [Replicas -> Node(N)]
        BY <1>0 DEF Types
      <3>2. node' \in [Replicas -> Node(N)]
        BY <2>1, <2>4, <3>1 DEF Node
      <3> QED
        BY <1>0, <1>1, <2>4, <3>2 DEF Types
    <2> QED
      BY <1>1, <2>s, <2>3, <2>4
  <1>6. \A x \in Replicas \ {r} : Unmoved(x)
    BY <1>0, <1>1 DEF Types, Unmoved
  <1>7. /\ node'[r].appliedIndex = n /\ node'[r].loop.pc = "ready"
        /\ disk'[r].commit = disk[r].commit /\ disk'[r].docs = disk[r].docs
    BY <1>0, <1>1, <1>n DEF Types, Node, Disk, Idle
  <1>8. \/ /\ disk'[r].snap = disk[r].snap /\ disk'[r].compacted = disk[r].compacted
           /\ node'[r].snapshotIndex = node[r].snapshotIndex
        \/ /\ disk'[r].snap = [index |-> n, docs |-> disk[r].docs, history |-> h]
           /\ disk'[r].compacted = c /\ node'[r].snapshotIndex = n
    BY <1>0, <1>1 DEF Types, Node, Disk
  <1>9. Indexes(r)'
    BY <1>0, <1>1, <1>2, <1>3, <1>7, <1>8, <1>n DEF ReplicaInv, Indexes, Loop
  <1>10. Order(r)'
    <2>1. InFlight(r)' = InFlight(r)
      BY <1>1 DEF InFlight
    <2>2. history[r].done \cup InFlight(r) \subseteq DataUpTo(n)
      BY <1>0, <1>1, <1>n DEF ReplicaInv, Order, Loop
    <2>3. disk'[r].snap.history.done \subseteq DataUpTo(disk'[r].snap.index)
      BY <1>0, <1>4, <1>8, <2>2 DEF ReplicaInv, Order
    <2> QED
      BY <1>0, <1>1, <1>7, <1>d, <2>1, <2>2, <2>3 DEF ReplicaInv, Order, Loop
  <1>11. Contents(r)'
    <2>1. AgreesWith(disk[r].docs, h)
      BY <1>0, <1>4 DEF ReplicaInv, Contents, AgreesWith
    <2>2. AgreesWith(disk'[r].snap.docs, disk'[r].snap.history)
      BY <1>0, <1>8, <2>1 DEF ReplicaInv, Contents
    <2> QED
      BY <1>0, <1>1, <1>7, <2>2, ContentsKept DEF ReplicaInv
  <1>12. Complete(r)'
    <2>1. InFlight(r)' = InFlight(r)
      BY <1>1 DEF InFlight
    <2>2. history[r].whole /\ reader[r].kind # "snapshot" =>
             history[r].done \cup InFlight(r) = DataUpTo(n)
      BY <1>0, <1>1, <1>n DEF ReplicaInv, Complete, Loop
    <2>3. h.whole => history[r].done = DataUpTo(n) /\ reader[r].kind = "none"
      <3>1. Nothing.of = {}
        BY <1>2, NothingIs
      <3>2. w => history[r].whole /\ reader[r].kind = "none"
        BY <1>1, <1>w
      <3>3. reader[r].kind = "none" => InFlight(r) = {}
        BY <1>0, <3>1 DEF ReplicaInv, Order, InFlight
      <3> QED
        BY <1>4, <2>2, <3>2, <3>3
    <2>4. disk'[r].snap.history.whole =>
             disk'[r].snap.history.done = DataUpTo(disk'[r].snap.index)
      BY <1>0, <1>4, <1>8, <2>3 DEF ReplicaInv, Complete
    <2>5. disk'[r].snap.history.whole /\ reader[r].kind = "snapshot" =>
             DataUpTo(disk'[r].snap.index) = DataUpTo(n)
      BY <1>0, <1>1, <1>4, <1>8, <1>n, <2>3 DEF ReplicaInv, Complete, Loop
    <2> QED
      BY <1>1, <1>7, <1>d, <2>1, <2>2, <2>4, <2>5 DEF Complete
  <1> QED
    BY <1>1, <1>5, <1>6, <1>9, <1>10, <1>11, <1>12, Frame DEF ReplicaInv-----------------------------------------------------------------------------
(***************************************************************************)
(* Every step keeps the invariant: readCommits.                            *)
(***************************************************************************)

LEMMA FlushNothing ==
  ASSUME NEW docs, NEW k \in Keys
  PROVE  FlushBatch(docs, Nothing)[k] = docs[k]
  <1>1. DOMAIN Nothing.writes = {} /\ DOMAIN Nothing.transforms = {} /\ Nothing.deletes = {}
    BY 0 \in Nat, NothingIs
  <1>2. FlushBatch(docs, Nothing)[k] =
           IF k \in Nothing.deletes THEN <<>>
           ELSE IF k \in DOMAIN Nothing.transforms
                   /\ (docs[k] # <<>> \/ Nothing.transforms[k].upsert)
                THEN docs[k] \o Marks(Nothing.transforms[k].ops, Nothing.ts)
           ELSE IF k \in DOMAIN Nothing.writes THEN <<Stored(Nothing.writes[k], Nothing.ts)>>
           ELSE docs[k]
    BY FlushValue
  <1> QED
    BY <1>1, <1>2

\* rest is what stays pending when an entry is taken; docs and done are the
\* documents and the entries in them after the flush that precedes it.
Taken(r, i, rest, docs, done) ==
    /\ reader[r].kind = "entries" /\ i \in reader[r].ents /\ \A x \in reader[r].ents : i <= x
    /\ \/ rest = Nothing /\ docs = FlushBatch(disk[r].docs, reader[r].pending)
          /\ done = history[r].done \cup reader[r].pending.of
       \/ rest = reader[r].pending /\ docs = disk[r].docs /\ done = history[r].done
          /\ log[i].kind = "batch" /\ (HasPending(rest) => rest.ts = log[i].ts)
    /\ disk' = [disk EXCEPT ![r].docs = docs]
    /\ history' = [history EXCEPT ![r] =
          [done |-> done \cup (IF log[i].kind = "op" THEN {i} ELSE {}),
           mixed |-> IF log[i].kind = "batch" THEN @.mixed \cup MixedUp(rest, log[i]) ELSE @.mixed,
           whole |-> @.whole]]
    /\ reader' = [reader EXCEPT ![r] =
          [kind |-> "entries", ents |-> @.ents \ {i},
           pending |-> IF log[i].kind = "batch" THEN Coalesce(rest, log[i], i) ELSE rest]]
    /\ UNCHANGED <<log, node, crashes>>

LEMMA ApplyEntryIs ==
  ASSUME Types, NEW r \in Replicas, ApplyEntry(r)
  PROVE  \E i, rest, docs, done : Taken(r, i, rest, docs, done)
  <1>i. PICK i : i = Min(reader[r].ents)
    OBVIOUS
  <1>p. PICK p : p = reader[r].pending
    OBVIOUS
  <1>b. PICK b : b = log[i]
    OBVIOUS
  <1>f. PICK flush \in BOOLEAN : flush = (b.kind # "batch" \/ (HasPending(p) /\ b.ts # p.ts))
    OBVIOUS
  <1>r. PICK rest : rest = IF flush THEN Nothing ELSE p
    OBVIOUS
  <1>d. PICK docs : docs = IF flush THEN FlushBatch(disk[r].docs, p) ELSE disk[r].docs
    OBVIOUS
  <1>n. PICK done : done = IF flush THEN history[r].done \cup p.of ELSE history[r].done
    OBVIOUS
  <1>1. /\ reader[r].kind = "entries" /\ reader[r].ents # {}
        /\ disk' = [disk EXCEPT ![r].docs = docs]
        /\ history' = [history EXCEPT ![r] =
              [done |-> done \cup (IF b.kind = "op" THEN {i} ELSE {}),
               mixed |-> IF b.kind = "batch" THEN @.mixed \cup MixedUp(rest, b) ELSE @.mixed,
               whole |-> @.whole]]
        /\ reader' = [reader EXCEPT ![r] =
              [kind |-> "entries", ents |-> @.ents \ {i},
               pending |-> IF b.kind = "batch" THEN Coalesce(rest, b, i) ELSE rest]]
        /\ UNCHANGED <<log, node, crashes>>
    BY <1>i, <1>p, <1>b, <1>f, <1>r, <1>d, <1>n DEF ApplyEntry
  <1>2. i \in reader[r].ents /\ \A x \in reader[r].ents : i <= x
    <2>1. Len(log) \in Nat /\ reader[r].ents \subseteq 1 .. Len(log)
      BY FieldsAre
    <2>2. reader[r].ents \subseteq Nat /\ reader[r].ents # {}
      BY <1>1, <2>1
    <2> QED
      BY <1>i, <2>2, Least
  <1>3. CASE flush
    BY <1>1, <1>2, <1>3, <1>b, <1>r, <1>d, <1>n, <1>p DEF Taken
  <1>4. CASE ~flush
    <2>1. b.kind = "batch" /\ (HasPending(rest) => rest.ts = b.ts)
      BY <1>4, <1>f, <1>r
    <2> QED
      BY <1>1, <1>2, <1>4, <1>b, <1>r, <1>d, <1>n, <1>p, <2>1 DEF Taken
  <1> QED
    BY <1>3, <1>4

LEMMA ApplyEntryInv ==
  ASSUME IInv, NEW r \in Replicas, ApplyEntry(r)
  PROVE  IInv'
  <1> DEFINE N == Len(log)
  <1>0. Types /\ ReplicaInv(r)
    BY DEF IInv
  <1>t. PICK i, rest, docs, done : Taken(r, i, rest, docs, done)
    BY <1>0, ApplyEntryIs
  <1>b. PICK b : b = log[i]
    OBVIOUS
  <1>q. PICK q : q = IF b.kind = "batch" THEN Coalesce(rest, b, i) ELSE rest
    OBVIOUS
  <1>m. PICK mixed : mixed = IF b.kind = "batch" THEN history[r].mixed \cup MixedUp(rest, b)
                             ELSE history[r].mixed
    OBVIOUS
  <1>d. PICK D2 : D2 = done \cup (IF b.kind = "op" THEN {i} ELSE {})
    OBVIOUS
  <1>p. PICK p : p = reader[r].pending
    OBVIOUS
  <1>1. /\ reader[r].kind = "entries" /\ i \in reader[r].ents /\ \A x \in reader[r].ents : i <= x
        /\ disk' = [disk EXCEPT ![r].docs = docs]
        /\ history' = [history EXCEPT ![r] = [done |-> D2, mixed |-> mixed, whole |-> history[r].whole]]
        /\ reader' = [reader EXCEPT ![r] = [kind |-> "entries", ents |-> reader[r].ents \ {i}, pending |-> q]]
        /\ UNCHANGED <<log, node, crashes>>
    BY <1>t, <1>b, <1>q, <1>m, <1>d DEF Taken
  <1>2. /\ N \in Nat /\ reader[r].ents \subseteq 1 .. N /\ i \in 1 .. N
        /\ p \in Pending(N) /\ p.of \subseteq 1 .. N
        /\ history[r].done \subseteq 1 .. N /\ history[r].mixed \subseteq Keys
        /\ disk[r].docs \in Docs(N)
    <2>1. /\ N \in Nat /\ reader[r].ents \subseteq 1 .. N
          /\ reader[r].pending \in Pending(N) /\ reader[r].pending.of \subseteq 1 .. N
          /\ history[r].done \subseteq 1 .. N /\ history[r].mixed \subseteq Keys
          /\ disk[r].docs \in Docs(N)
      BY <1>0, FieldsAre
    <2> QED
      BY <1>1, <1>p, <2>1
  \* What is pending after a flush, or without one.
  <1>3. /\ rest \in Pending(N) /\ (rest.ts # 0 => HasPending(rest))
        /\ docs \in Docs(N) /\ done \cup rest.of = history[r].done \cup p.of
        /\ b.kind = "batch" => (HasPending(rest) => rest.ts = b.ts)
        /\ b.kind # "batch" => rest = Nothing
    <2>1. CASE rest = Nothing /\ docs = FlushBatch(disk[r].docs, p) /\ done = history[r].done \cup p.of
      <3>1. /\ Nothing \in Pending(N) /\ ~HasPending(Nothing) /\ Nothing.ts = 0 /\ Nothing.of = {}
        BY <1>2, NothingIs
      <3>2. docs \in Docs(N)
        BY <1>2, <2>1, FlushType
      <3> QED
        BY <2>1, <3>1, <3>2
    <2>2. CASE /\ rest = p /\ docs = disk[r].docs /\ done = history[r].done
               /\ b.kind = "batch" /\ (HasPending(rest) => rest.ts = b.ts)
      <3>1. p.ts # 0 => HasPending(p)
        BY <1>0, <1>p DEF ReplicaInv, Order
      <3> QED
        BY <1>2, <2>2, <3>1
    <2> QED
      BY <1>t, <1>b, <1>p, <2>1, <2>2 DEF Taken
  <1>4. /\ b.kind \in {"batch", "op", "empty"}
        /\ b.kind = "batch" => b \in BatchOps /\ (b.ts # 0 => ~IsEmpty(b))
    BY <1>0, <1>2, <1>b, LogIs
  <1>5. b.kind # "empty"
    <2>1. i \in InFlight(r)
      BY <1>1 DEF InFlight
    <2>2. \E x : i \in DataUpTo(x)
      BY <1>0, <2>1 DEF ReplicaInv, Order
    <2> QED
      BY <1>b, <2>2 DEF DataUpTo, HasData
  <1>6. /\ q \in Pending(N) /\ (q.ts # 0 => HasPending(q))
        /\ D2 \cup q.of = history[r].done \cup p.of \cup {i}
        /\ mixed \subseteq Keys
    <2>1. CASE b.kind = "batch"
      <3>1. b \in BatchOps /\ (b.ts # 0 => ~IsEmpty(b)) /\ q = Coalesce(rest, b, i)
        BY <1>4, <1>q, <2>1
      <3>2. q \in Pending(N)
        BY <1>2, <1>3, <3>1, CoalesceType
      <3>3. q.ts = b.ts /\ (b.ts # 0 => HasPending(q)) /\ q.of = rest.of \cup {i}
        BY <1>2, <1>3, <2>1, <3>1, CoalescePending
      <3>4. MixedUp(rest, b) \subseteq Keys
        BY <3>1, BatchIs DEF MixedUp
      <3> QED
        BY <1>2, <1>3, <1>d, <1>m, <2>1, <3>2, <3>3, <3>4
    <2>2. CASE b.kind = "op"
      <3>1. q = Nothing /\ rest = Nothing /\ Nothing.of = {} /\ Nothing.ts = 0 /\ Nothing \in Pending(N)
        BY <1>2, <1>3, <1>q, <2>2, NothingIs
      <3> QED
        BY <1>2, <1>3, <1>d, <1>m, <2>2, <3>1
    <2> QED
      BY <1>4, <1>5, <2>1, <2>2
  <1>7. Types'
    <2>t. /\ disk \in [Replicas -> Disk(N)] /\ node \in [Replicas -> Node(N)]
          /\ reader \in [Replicas -> Reader(N)] /\ history \in [Replicas -> History(N)]
      BY <1>0 DEF Types
    <2>1. disk' \in [Replicas -> Disk(N)]
      BY <1>1, <1>3, <2>t DEF Disk
    <2>2. D2 \subseteq 1 .. N
      BY <1>2, <1>6
    <2>v. history[r].whole \in BOOLEAN
      BY <2>t DEF History
    <2>w. [done |-> D2, mixed |-> mixed, whole |-> history[r].whole] \in History(N)
      BY <1>6, <2>2, <2>v DEF History
    <2>3. history' \in [Replicas -> History(N)]
      BY <1>1, <2>w, <2>t
    <2>x. [kind |-> "entries", ents |-> reader[r].ents \ {i}, pending |-> q] \in Reader(N)
      BY <1>2, <1>6 DEF Reader
    <2>4. reader' \in [Replicas -> Reader(N)]
      BY <1>1, <2>x, <2>t
    <2> QED
      BY <1>0, <1>1, <2>1, <2>3, <2>4 DEF Types
  <1>8. \A x \in Replicas \ {r} : Unmoved(x)
    BY <1>0, <1>1 DEF Types, Unmoved
  <1>9. /\ disk'[r].commit = disk[r].commit /\ disk'[r].compacted = disk[r].compacted
        /\ disk'[r].snap = disk[r].snap /\ disk'[r].docs = docs
    BY <1>0, <1>1 DEF Types, Disk
  <1>10. /\ history'[r].done = D2 /\ history'[r].mixed = mixed
         /\ history'[r].whole = history[r].whole
    BY <1>0, <1>1 DEF Types
  <1>11. reader'[r].kind = "entries" /\ reader'[r].ents = reader[r].ents \ {i} /\ reader'[r].pending = q
    BY <1>0, <1>1 DEF Types
  <1>e. \A x : DataUpTo(x)' = DataUpTo(x)
    BY <1>1 DEF DataUpTo, HasData
  <1>12. Indexes(r)'
    BY <1>0, <1>1, <1>9 DEF ReplicaInv, Indexes, Loop
  <1>13. history'[r].done \cup InFlight(r)' = history[r].done \cup InFlight(r)
    <2>1. InFlight(r) = reader[r].ents \cup p.of /\ InFlight(r)' = (reader[r].ents \ {i}) \cup q.of
      BY <1>11, <1>p DEF InFlight
    <2> QED
      BY <1>1, <1>6, <1>10, <2>1
  <1>14. Order(r)'
    <2>1. \A x \in reader[r].ents : \A j \in history[r].done \cup p.of : j < x
      BY <1>0, <1>p DEF ReplicaInv, Order
    <2>2. \A x \in reader[r].ents \ {i} : \A j \in D2 \cup q.of : j < x
      BY <1>1, <1>2, <1>6, <2>1
    <2> QED
      BY <1>0, <1>1, <1>6, <1>9, <1>10, <1>11, <1>13, <1>e, <2>2 DEF ReplicaInv, Order, Loop
  <1>15. \A j \in history[r].done \cup p.of : j \in Nat /\ j < i
    BY <1>0, <1>1, <1>2, <1>p DEF ReplicaInv, Order
  <1>16. \A k \in Keys \ history[r].mixed :
            docs[k] = Replay(done, k) /\ FlushBatch(docs, rest)[k] = Replay(done \cup rest.of, k)
    <2>1. \A k \in Keys \ history[r].mixed :
             /\ disk[r].docs[k] = Replay(history[r].done, k)
             /\ FlushBatch(disk[r].docs, p)[k] = Replay(history[r].done \cup p.of, k)
      BY <1>0, <1>p DEF ReplicaInv, Contents, AgreesWith
    <2>2. CASE rest = Nothing /\ docs = FlushBatch(disk[r].docs, p) /\ done = history[r].done \cup p.of
      <3>1. Nothing.of = {}
        BY <1>2, NothingIs
      <3> QED
        BY <2>1, <2>2, <3>1, FlushNothing
    <2>3. CASE rest = p /\ docs = disk[r].docs /\ done = history[r].done
      BY <2>1, <2>3
    <2> QED
      BY <1>t, <1>p, <2>2, <2>3 DEF Taken
  <1>17. ASSUME NEW k \in Keys \ mixed
         PROVE  docs[k] = Replay(D2, k) /\ FlushBatch(docs, q)[k] = Replay(D2 \cup q.of, k)
    <2> DEFINE S == done \cup rest.of
    <2>1. k \in Keys \ history[r].mixed /\ k \in Keys
      BY <1>m
    <2>2. docs[k] = Replay(done, k) /\ FlushBatch(docs, rest)[k] = Replay(S, k)
      BY <1>16, <2>1
    <2>3. Replay(S \cup {i}, k) = IF b.kind = "batch" THEN OneKey(Replay(S, k), b, i, k) ELSE Replay(S, k)
      BY <1>2, <1>3, <1>15, <1>b, ReplayAdd DEF Replay
    <2>4. CASE b.kind = "batch"
      <3>1. b \in BatchOps /\ q = Coalesce(rest, b, i) /\ k \notin MixedUp(rest, b)
        BY <1>4, <1>q, <1>m, <2>4
      <3>2. FlushBatch(docs, q)[k] = OneKey(FlushBatch(docs, rest)[k], b, i, k)
        BY <1>2, <1>3, <2>1, <2>4, <3>1, CoalesceKey
      <3>3. D2 = done /\ D2 \cup q.of = S \cup {i}
        BY <1>3, <1>6, <1>d, <2>4
      <3> QED
        BY <2>2, <2>3, <2>4, <3>2, <3>3
    <2>5. CASE b.kind = "op"
      <3>1. q = Nothing /\ rest = Nothing /\ Nothing.of = {}
        BY <1>2, <1>3, <1>q, <2>5, NothingIs
      <3>2. S = done /\ D2 = S \cup {i} /\ D2 \cup q.of = D2
        BY <1>d, <2>5, <3>1
      <3>3. docs[k] = Replay(D2, k)
        BY <2>2, <2>3, <2>5, <3>2
      <3>4. FlushBatch(docs, q)[k] = docs[k]
        BY <2>1, <3>1, FlushNothing
      <3> QED
        BY <3>2, <3>3, <3>4
    <2> QED
      BY <1>4, <1>5, <2>4, <2>5
  <1>18. Contents(r)'
    <2>1. AgreesWith(disk'[r].snap.docs, disk'[r].snap.history)
      BY <1>0, <1>9 DEF ReplicaInv, Contents
    <2>2. \A k \in Keys \ mixed : docs[k] = Replay(D2, k)
      BY <1>17
    <2>3. \A k \in Keys \ mixed : FlushBatch(docs, q)[k] = Replay(D2 \cup q.of, k)
      BY <1>17
    <2>4. log' = log
      BY <1>1
    <2> QED
      BY <1>9, <1>10, <1>11, <2>1, <2>2, <2>3, <2>4 DEF Contents, AgreesWith, Replay
  <1>19. Complete(r)'
    BY <1>0, <1>1, <1>9, <1>10, <1>11, <1>13, <1>e DEF ReplicaInv, Complete, Loop
  <1> QED
    BY <1>1, <1>7, <1>8, <1>12, <1>14, <1>18, <1>19, Frame DEF ReplicaInv

\* Steps after which nothing is pending.
LEMMA ContentsWhole ==
  ASSUME NEW r \in Replicas, log' = log, reader'[r].pending = Nothing,
         AgreesWith(disk'[r].docs, history'[r]),
         AgreesWith(disk'[r].snap.docs, disk'[r].snap.history)
  PROVE  Contents(r)'
  <1>1. history'[r].done \cup Nothing.of = history'[r].done
    BY DEF Nothing
  <1>2. \A k \in Keys \ history'[r].mixed :
           FlushBatch(disk'[r].docs, Nothing)[k] = Replay(history'[r].done \cup Nothing.of, k)
    <2> TAKE k \in Keys \ history'[r].mixed
    <2>1. disk'[r].docs[k] = Replay(history'[r].done, k)
      BY DEF AgreesWith
    <2>2. FlushBatch(disk'[r].docs, Nothing)[k] = disk'[r].docs[k]
      BY FlushNothing
    <2> QED
      BY <1>1, <2>1, <2>2
  <1> QED
    BY <1>2 DEF Contents, AgreesWith, Replay

LEMMA FinishCommitInv ==
  ASSUME IInv, NEW r \in Replicas, FinishCommit(r)
  PROVE  IInv'
  <1> DEFINE N == Len(log)
  <1>0. Types /\ ReplicaInv(r)
    BY DEF IInv
  <1>p. PICK p : p = reader[r].pending
    OBVIOUS
  <1>d. PICK docs : docs = FlushBatch(disk[r].docs, p)
    OBVIOUS
  <1>1. /\ reader[r].kind = "entries" /\ reader[r].ents = {}
        /\ disk' = [disk EXCEPT ![r].docs = docs]
        /\ history' = [history EXCEPT ![r].done = @ \cup p.of]
        /\ reader' = [reader EXCEPT ![r] = NoCommit]
        /\ UNCHANGED <<log, node, crashes>>
    BY <1>p, <1>d DEF FinishCommit, Flushed
  <1>2. /\ N \in Nat /\ p \in Pending(N) /\ p.of \subseteq 1 .. N /\ history[r].done \subseteq 1 .. N
        /\ disk[r].docs \in Docs(N)
    BY <1>0, <1>p, FieldsAre
  <1>3. /\ Nothing \in Pending(N) /\ Nothing.ts = 0 /\ Nothing.of = {}
    BY <1>2, NothingIs
  <1>4. Types'
    <2>t. /\ disk \in [Replicas -> Disk(N)] /\ node \in [Replicas -> Node(N)]
          /\ reader \in [Replicas -> Reader(N)] /\ history \in [Replicas -> History(N)]
      BY <1>0 DEF Types
    <2>1. docs \in Docs(N)
      BY <1>2, <1>d, FlushType
    <2>2. disk' \in [Replicas -> Disk(N)]
      BY <1>1, <2>1, <2>t DEF Disk
    <2>3. history' \in [Replicas -> History(N)]
      BY <1>1, <1>2, <2>t DEF History
    <2>4. NoCommit \in Reader(N)
      BY <1>3 DEF NoCommit, Reader
    <2>5. reader' \in [Replicas -> Reader(N)]
      BY <1>0, <1>1, <2>4 DEF Types
    <2> QED
      BY <1>0, <1>1, <2>2, <2>3, <2>5 DEF Types
  <1>5. \A x \in Replicas \ {r} : Unmoved(x)
    BY <1>0, <1>1 DEF Types, Unmoved
  <1>6. /\ disk'[r].commit = disk[r].commit /\ disk'[r].compacted = disk[r].compacted
        /\ disk'[r].snap = disk[r].snap /\ disk'[r].docs = docs
    BY <1>0, <1>1 DEF Types, Disk
  <1>7. /\ history'[r].done = history[r].done \cup p.of /\ history'[r].mixed = history[r].mixed
        /\ history'[r].whole = history[r].whole
    BY <1>0, <1>1 DEF Types, History
  <1>8. reader'[r].kind = "none" /\ reader'[r].ents = {} /\ reader'[r].pending = Nothing
    BY <1>0, <1>1 DEF Types, NoCommit
  <1>9. \A x : DataUpTo(x)' = DataUpTo(x)
    BY <1>1 DEF DataUpTo, HasData
  <1>10. history'[r].done \cup InFlight(r)' = history[r].done \cup InFlight(r)
    BY <1>1, <1>3, <1>7, <1>8, <1>p DEF InFlight
  <1>11. Indexes(r)'
    BY <1>0, <1>1, <1>6 DEF ReplicaInv, Indexes, Loop
  <1>12. Order(r)'
    BY <1>0, <1>1, <1>3, <1>6, <1>8, <1>9, <1>10 DEF ReplicaInv, Order, Loop
  <1>13. Contents(r)'
    <2>1. AgreesWith(disk'[r].docs, history'[r])
      BY <1>0, <1>6, <1>7, <1>p, <1>d DEF ReplicaInv, Contents, AgreesWith
    <2>2. AgreesWith(disk'[r].snap.docs, disk'[r].snap.history)
      BY <1>0, <1>6 DEF ReplicaInv, Contents
    <2> QED
      BY <1>1, <1>8, <2>1, <2>2, ContentsWhole
  <1>14. Complete(r)'
    BY <1>0, <1>1, <1>6, <1>7, <1>8, <1>9, <1>10 DEF ReplicaInv, Complete, Loop
  <1> QED
    BY <1>1, <1>4, <1>5, <1>11, <1>12, <1>13, <1>14, Frame DEF ReplicaInv

LEMMA LoadPersistentSnapshotInv ==
  ASSUME IInv, NEW r \in Replicas, LoadPersistentSnapshot(r)
  PROVE  IInv'
  <1> DEFINE N == Len(log)
  <1>0. Types /\ ReplicaInv(r)
    BY DEF IInv
  <1>s. PICK snap : snap = disk[r].snap
    OBVIOUS
  <1>1. /\ reader[r].kind = "snapshot"
        /\ disk' = [disk EXCEPT ![r].docs = snap.docs]
        /\ history' = [history EXCEPT ![r] = snap.history]
        /\ reader' = [reader EXCEPT ![r] = NoCommit]
        /\ UNCHANGED <<log, node, crashes>>
    BY <1>s DEF LoadPersistentSnapshot
  <1>2. /\ N \in Nat /\ snap.index \in 0 .. N /\ snap.docs \in Docs(N) /\ snap.history \in History(N)
        /\ node[r].appliedIndex \in 0 .. N
    BY <1>0, <1>s, FieldsAre
  <1>3. /\ Nothing \in Pending(N) /\ Nothing.ts = 0 /\ Nothing.of = {}
    BY <1>2, NothingIs
  <1>4. Types'
    <2>1. disk' \in [Replicas -> Disk(N)]
      BY <1>0, <1>1, <1>2 DEF Types, Disk
    <2>2. history' \in [Replicas -> History(N)]
      BY <1>0, <1>1, <1>2 DEF Types
    <2>3. NoCommit \in Reader(N)
      BY <1>3 DEF NoCommit, Reader
    <2>4. reader' \in [Replicas -> Reader(N)]
      BY <1>0, <1>1, <2>3 DEF Types
    <2> QED
      BY <1>0, <1>1, <2>1, <2>2, <2>4 DEF Types
  <1>5. \A x \in Replicas \ {r} : Unmoved(x)
    BY <1>0, <1>1 DEF Types, Unmoved
  <1>6. /\ disk'[r].commit = disk[r].commit /\ disk'[r].compacted = disk[r].compacted
        /\ disk'[r].snap = snap /\ disk'[r].docs = snap.docs
    BY <1>0, <1>1, <1>s DEF Types, Disk
  <1>7. history'[r] = snap.history
    BY <1>0, <1>1 DEF Types
  <1>8. reader'[r].kind = "none" /\ reader'[r].ents = {} /\ reader'[r].pending = Nothing
    BY <1>0, <1>1 DEF Types, NoCommit
  <1>9. (\A x : DataUpTo(x)' = DataUpTo(x)) /\ InFlight(r)' = {}
    BY <1>1, <1>3, <1>8 DEF DataUpTo, HasData, InFlight
  <1>10. Indexes(r)'
    BY <1>0, <1>1, <1>6, <1>s DEF ReplicaInv, Indexes, Loop
  <1>11. Order(r)'
    <2>1. snap.history.done \subseteq DataUpTo(snap.index)
      BY <1>0, <1>s DEF ReplicaInv, Order
    <2>2. ~Loop(r, "snapshot") => DataUpTo(snap.index) \subseteq DataUpTo(node[r].appliedIndex)
      BY <1>0, <1>2, <1>s DEF ReplicaInv, Indexes, DataUpTo
    <2> QED
      BY <1>1, <1>3, <1>6, <1>7, <1>8, <1>9, <2>1, <2>2 DEF Order, Loop
  <1>12. Contents(r)'
    <2>1. AgreesWith(snap.docs, snap.history)
      BY <1>0, <1>s DEF ReplicaInv, Contents
    <2> QED
      BY <1>1, <1>6, <1>7, <1>8, <2>1, ContentsWhole
  <1>13. Complete(r)'
    <2>1. /\ snap.history.whole => snap.history.done = DataUpTo(snap.index)
          /\ snap.history.whole /\ ~Loop(r, "snapshot") =>
                DataUpTo(snap.index) = DataUpTo(node[r].appliedIndex)
      BY <1>0, <1>1, <1>s DEF ReplicaInv, Complete
    <2> QED
      BY <1>1, <1>6, <1>7, <1>8, <1>9, <2>1 DEF Complete, Loop
  <1> QED
    BY <1>1, <1>4, <1>5, <1>10, <1>11, <1>12, <1>13, Frame DEF ReplicaInv

LEMMA RestartInv ==
  ASSUME IInv, NEW r \in Replicas, Restart(r)
  PROVE  IInv'
  <1> DEFINE N == Len(log)
  <1>0. Types /\ ReplicaInv(r)
    BY DEF IInv
  <1>n. PICK n : n = disk[r].commit
    OBVIOUS
  <1>w. PICK w : w = (history[r].whole /\ DataUpTo(n) \subseteq history[r].done)
    OBVIOUS
  <1>2. /\ N \in Nat /\ n \in 0 .. N /\ disk[r].snap.index \in 0 .. N /\ disk[r].compacted \in 0 .. N
        /\ disk[r].docs \in Docs(N) /\ node[r].appliedIndex \in 0 .. N
    BY <1>0, <1>n, FieldsAre
  <1>3. disk[r].snap.index <= n /\ disk[r].compacted <= disk[r].snap.index /\ node[r].appliedIndex <= n
    BY <1>0, <1>n DEF ReplicaInv, Indexes
  <1>1. /\ crashes < MaxCrashes /\ crashes' = crashes + 1
        /\ node' = [node EXCEPT ![r] = [appliedIndex |-> n, snapshotIndex |-> disk[r].snap.index,
                                        next |-> disk[r].compacted + 1, loop |-> Idle]]
        /\ reader' = [reader EXCEPT ![r] = NoCommit]
        /\ history' = [history EXCEPT ![r].whole = w]
        /\ UNCHANGED <<log, disk>>
    <2>1. (IF disk[r].snap.index > disk[r].commit THEN disk[r].snap.index ELSE disk[r].commit) = n
      BY <1>2, <1>3, <1>n
    <2> QED
      BY <2>1, <1>w DEF Restart
  <1>4. /\ Nothing \in Pending(N) /\ Nothing.ts = 0 /\ Nothing.of = {}
    BY <1>2, NothingIs
  <1>5. Types'
    <2>t. /\ disk \in [Replicas -> Disk(N)] /\ node \in [Replicas -> Node(N)]
          /\ reader \in [Replicas -> Reader(N)] /\ history \in [Replicas -> History(N)]
      BY <1>0 DEF Types
    <2>1. NoCommit \in Reader(N)
      BY <1>4 DEF NoCommit, Reader
    <2>2. reader' \in [Replicas -> Reader(N)]
      BY <1>0, <1>1, <2>1 DEF Types
    <2>3. Idle \in LoopState(N)
      BY <1>2 DEF Idle, LoopState
    <2>v. [appliedIndex |-> n, snapshotIndex |-> disk[r].snap.index,
           next |-> disk[r].compacted + 1, loop |-> Idle] \in Node(N)
      BY <1>2, <2>3 DEF Node
    <2>4. node' \in [Replicas -> Node(N)]
      BY <1>1, <2>v, <2>t
    <2>5. w \in BOOLEAN
      BY <1>w
    <2>6. history' \in [Replicas -> History(N)]
      BY <1>1, <2>5, <2>t DEF History
    <2>7. crashes' \in 0 .. MaxCrashes
      BY <1>0, <1>1, ApplyAssumption DEF Types
    <2> QED
      BY <1>0, <1>1, <2>2, <2>4, <2>6, <2>7 DEF Types
  <1>6. \A x \in Replicas \ {r} : Unmoved(x)
    BY <1>0, <1>1 DEF Types, Unmoved
  <1>7. /\ node'[r].appliedIndex = n /\ node'[r].snapshotIndex = disk[r].snap.index
        /\ node'[r].loop.pc = "ready"
    BY <1>0, <1>1 DEF Types, Idle
  <1>8. /\ history'[r].done = history[r].done /\ history'[r].mixed = history[r].mixed
        /\ history'[r].whole = w
    BY <1>0, <1>1 DEF Types, History
  <1>9. reader'[r].kind = "none" /\ reader'[r].ents = {} /\ reader'[r].pending = Nothing
    BY <1>0, <1>1 DEF Types, NoCommit
  <1>10. (\A x : DataUpTo(x)' = DataUpTo(x)) /\ InFlight(r)' = {}
    BY <1>1, <1>4, <1>9 DEF DataUpTo, HasData, InFlight
  <1>11. Indexes(r)'
    BY <1>0, <1>1, <1>2, <1>3, <1>7, <1>n DEF ReplicaInv, Indexes, Loop
  <1>12. history[r].done \subseteq DataUpTo(n)
    <2>1. \A x \in {disk[r].snap.index, node[r].appliedIndex} : DataUpTo(x) \subseteq DataUpTo(n)
      BY <1>2, <1>3 DEF DataUpTo
    <2> QED
      BY <1>0, <2>1 DEF ReplicaInv, Order
  <1>13. Order(r)'
    BY <1>0, <1>1, <1>4, <1>7, <1>8, <1>9, <1>10, <1>12 DEF ReplicaInv, Order, Loop
  <1>14. Contents(r)'
    <2>1. AgreesWith(disk'[r].docs, history'[r])
      BY <1>0, <1>1, <1>8 DEF ReplicaInv, Contents, AgreesWith
    <2>2. AgreesWith(disk'[r].snap.docs, disk'[r].snap.history)
      BY <1>0, <1>1 DEF ReplicaInv, Contents
    <2> QED
      BY <1>1, <1>9, <2>1, <2>2, ContentsWhole
  <1>15. Complete(r)'
    <2>1. w => history[r].done = DataUpTo(n)
      BY <1>12, <1>w
    <2>2. disk[r].snap.history.whole => disk[r].snap.history.done = DataUpTo(disk[r].snap.index)
      BY <1>0 DEF ReplicaInv, Complete
    <2> QED
      BY <1>1, <1>7, <1>8, <1>9, <1>10, <2>1, <2>2 DEF Complete
  <1> QED
    BY <1>1, <1>5, <1>6, <1>11, <1>13, <1>14, <1>15, Frame DEF ReplicaInv-----------------------------------------------------------------------------
(***************************************************************************)
(* The log grows, and the theorems.                                        *)
(***************************************************************************)

LEMMA ProposeInv ==
  ASSUME IInv, Propose
  PROVE  IInv'
  <1>n. PICK N : N = Len(log)
    OBVIOUS
  <1>0. Types
    BY DEF IInv
  <1>1. PICK e \in Entries : log' = Append(log, e)
    BY DEF Propose
  <1>2. /\ UNCHANGED <<disk, node, reader, history, crashes>> /\ N < MaxLog
        /\ log \in Seq(Entries) /\ N \in Nat /\ MaxLog \in Nat
    BY <1>0, <1>n, ApplyAssumption DEF Propose, Types
  <1>3. /\ log' \in Seq(Entries) /\ Len(log') = N + 1
        /\ \A i \in 1 .. N : log'[i] = log[i]
    BY <1>1, <1>2, <1>n
  <1>4. Types'
    <2>1. /\ Disk(N) \subseteq Disk(N + 1) /\ Node(N) \subseteq Node(N + 1)
          /\ Reader(N) \subseteq Reader(N + 1) /\ History(N) \subseteq History(N + 1)
      BY <1>2, TypesGrow
    <2>2. /\ disk \in [Replicas -> Disk(N)] /\ node \in [Replicas -> Node(N)]
          /\ reader \in [Replicas -> Reader(N)] /\ history \in [Replicas -> History(N)]
          /\ crashes \in 0 .. MaxCrashes
      BY <1>0, <1>n DEF Types
    <2>3. /\ disk \in [Replicas -> Disk(N + 1)] /\ node \in [Replicas -> Node(N + 1)]
          /\ reader \in [Replicas -> Reader(N + 1)] /\ history \in [Replicas -> History(N + 1)]
      BY <2>1, <2>2
    <2> QED
      BY <1>2, <1>3, <2>2, <2>3 DEF Types
  <1>5. \A x \in 0 .. N : DataUpTo(x)' = DataUpTo(x)
    <2>1. \A x \in 0 .. N : \A i \in 1 .. x : HasData(i)' <=> HasData(i)
      BY <1>2, <1>3 DEF HasData
    <2> QED
      BY <2>1 DEF DataUpTo
  <1>6. \A k, S : S \subseteq 1 .. N => ReplayOf(log', S, k) = ReplayOf(log, S, k)
    BY <1>1, <1>2, <1>n, ReplayGrows
  <1>7. ASSUME NEW r \in Replicas PROVE ReplicaInv(r)'
    <2>0. ReplicaInv(r)
      BY DEF IInv
    <2>1. /\ disk[r].snap.index \in 0 .. N /\ node[r].appliedIndex \in 0 .. N
          /\ disk[r].snap.history.done \subseteq 1 .. N /\ history[r].done \subseteq 1 .. N
          /\ reader[r].pending.of \subseteq 1 .. N
      BY <1>0, <1>n, FieldsAre
    <2>2. Indexes(r)'
      BY <1>2, <2>0 DEF ReplicaInv, Indexes, Loop
    <2>3. Order(r)'
      <3>1. InFlight(r)' = InFlight(r) /\ (Loop(r, "snapshot")' <=> Loop(r, "snapshot"))
        BY <1>2 DEF InFlight, Loop
      <3>2. DataUpTo(IF Loop(r, "snapshot") THEN disk[r].snap.index ELSE node[r].appliedIndex)' =
                DataUpTo(IF Loop(r, "snapshot") THEN disk[r].snap.index ELSE node[r].appliedIndex)
        BY <1>2, <1>5, <2>1, <3>1
      <3>3. DataUpTo(disk[r].snap.index)' = DataUpTo(disk[r].snap.index)
        BY <1>2, <1>5, <2>1
      <3> QED
        BY <1>2, <2>0, <3>1, <3>2, <3>3 DEF ReplicaInv, Order
    <2>4. Contents(r)'
      <3>1. history[r].done \cup reader[r].pending.of \subseteq 1 .. N
        BY <2>1
      <3>2. \A k : \A S \in {history[r].done, history[r].done \cup reader[r].pending.of,
                             disk[r].snap.history.done} :
               ReplayOf(log', S, k) = ReplayOf(log, S, k)
        BY <1>6, <2>1, <3>1
      <3> QED
        BY <1>2, <2>0, <3>2 DEF ReplicaInv, Contents, AgreesWith, Replay
    <2>5. Complete(r)'
      <3>1. InFlight(r)' = InFlight(r) /\ (Loop(r, "snapshot")' <=> Loop(r, "snapshot"))
        BY <1>2 DEF InFlight, Loop
      <3>2. /\ DataUpTo(disk[r].snap.index)' = DataUpTo(disk[r].snap.index)
            /\ DataUpTo(node[r].appliedIndex)' = DataUpTo(node[r].appliedIndex)
        BY <1>2, <1>5, <2>1
      <3> QED
        BY <1>2, <2>0, <3>1, <3>2 DEF ReplicaInv, Complete
    <2> QED
      BY <2>2, <2>3, <2>4, <2>5 DEF ReplicaInv
  <1> QED
    BY <1>4, <1>7 DEF IInv

LEMMA InitInv ==
  ASSUME Init
  PROVE  IInv
  <1>1. Len(log) = 0 /\ log \in Seq(Entries)
    BY DEF Init
  <1>2. NoDocs \in Docs(0) /\ Blank \in History(0) /\ NoCommit \in Reader(0) /\ Idle \in LoopState(0)
    <2>1. Nothing \in Pending(0)
      BY NothingIs
    <2>2. NoDocs \in Docs(0)
      BY DEF NoDocs, Docs, Document
    <2> QED
      BY <2>1, <2>2 DEF Blank, History, NoCommit, Reader, Idle, LoopState
  <1>3. Types
    <2>1. [index |-> 0, docs |-> NoDocs, history |-> Blank] \in Snap(0)
      BY <1>2 DEF Snap
    <2>2. [commit |-> 0, compacted |-> 0, docs |-> NoDocs,
           snap |-> [index |-> 0, docs |-> NoDocs, history |-> Blank]] \in Disk(0)
      BY <1>2, <2>1 DEF Disk
    <2>3. [appliedIndex |-> 0, snapshotIndex |-> 0, next |-> 1, loop |-> Idle] \in Node(0)
      BY <1>2 DEF Node
    <2>4. /\ disk \in [Replicas -> Disk(0)] /\ node \in [Replicas -> Node(0)]
          /\ reader \in [Replicas -> Reader(0)] /\ history \in [Replicas -> History(0)]
      BY <1>2, <2>2, <2>3 DEF Init
    <2>5. crashes \in 0 .. MaxCrashes /\ 0 <= MaxLog
      BY ApplyAssumption DEF Init
    <2> QED
      BY <1>1, <2>4, <2>5 DEF Types
  <1>4. ASSUME NEW r \in Replicas PROVE ReplicaInv(r)
    <2>1. /\ disk[r] = [commit |-> 0, compacted |-> 0, docs |-> NoDocs,
                        snap |-> [index |-> 0, docs |-> NoDocs, history |-> Blank]]
          /\ node[r] = [appliedIndex |-> 0, snapshotIndex |-> 0, next |-> 1, loop |-> Idle]
          /\ reader[r] = NoCommit /\ history[r] = Blank
      BY DEF Init
    <2>a. /\ disk[r].snap.history = Blank /\ disk[r].snap.docs = NoDocs /\ disk[r].docs = NoDocs
          /\ disk[r].snap.index = 0 /\ node[r].appliedIndex = 0 /\ node[r].loop = Idle
      BY <2>1
    <2>b. ~Loop(r, "snapshot") /\ ~Loop(r, "publish")
      BY <2>a DEF Idle, Loop
    <2>c. reader[r].kind = "none" /\ reader[r].ents = {} /\ reader[r].pending = Nothing
      BY <2>1 DEF NoCommit
    <2>d. Blank.done = {} /\ Nothing.of = {} /\ Nothing.ts = 0
      BY DEF Blank, Nothing
    <2>2. /\ disk[r].snap.history = Blank /\ disk[r].snap.docs = NoDocs /\ disk[r].docs = NoDocs
          /\ Blank.done = {} /\ disk[r].snap.index = 0 /\ node[r].appliedIndex = 0
          /\ ~Loop(r, "snapshot") /\ ~Loop(r, "publish")
          /\ reader[r].kind = "none" /\ reader[r].ents = {} /\ reader[r].pending = Nothing
          /\ Nothing.of = {} /\ Nothing.ts = 0
      BY <2>a, <2>b, <2>c, <2>d
    <2>3. DataUpTo(0) = {} /\ InFlight(r) = {}
      BY <2>2 DEF DataUpTo, InFlight
    <2>4. Indexes(r)
      BY <2>1, <2>2 DEF Indexes
    <2>5. Order(r)
      BY <2>1, <2>2, <2>3 DEF Order
    <2>6. Contents(r)
      <3>1. \A k \in Keys : Replay({}, k) = <<>>
        <4> SUFFICES ASSUME NEW k \in Keys PROVE ReplayOf(log, {}, k) = <<>>
          BY DEF Replay
        <4>1. PICK f : IsReplay(f, Len(log), log, {}, k) /\ ReplayOf(log, {}, k) = f[Len(log)]
          BY <1>1, ReplayIs
        <4>2. f[0] = <<>>
          BY <1>1, <4>1, ReplayValue
        <4> QED
          BY <1>1, <4>1, <4>2
      <3>2. AgreesWith(NoDocs, Blank)
        BY <2>2, <3>1 DEF AgreesWith, NoDocs
      <3>3. \A k \in Keys : FlushBatch(NoDocs, Nothing)[k] = Replay({} \cup {}, k)
        BY <3>1, FlushNothing DEF NoDocs
      <3> QED
        BY <2>1, <2>2, <3>2, <3>3 DEF Contents
    <2>7. Complete(r)
      BY <2>1, <2>2, <2>3 DEF Complete
    <2> QED
      BY <2>4, <2>5, <2>6, <2>7 DEF ReplicaInv
  <1> QED
    BY <1>3, <1>4 DEF IInv

LEMMA NextInv ==
  ASSUME IInv, [Next]_vars
  PROVE  IInv'
  <1>1. CASE Propose
    BY <1>1, ProposeInv
  <1>2. ASSUME NEW r \in Replicas, Step(r) PROVE IInv'
    BY <1>2, ReadyInv, PublishSnapshotInv, PublishEntriesInv, MaybeTriggerSnapshotInv,
       ApplyEntryInv, FinishCommitInv, LoadPersistentSnapshotInv DEF Step
  <1>3. ASSUME NEW r \in Replicas, Restart(r) PROVE IInv'
    BY <1>3, RestartInv
  <1>4. ASSUME NEW r \in Replicas, NEW s \in Replicas \ {r}, ReadySnapshot(r, s) PROVE IInv'
    BY <1>4, ReadySnapshotInv
  <1>5. CASE UNCHANGED vars
    <2>1. Types'
      BY <1>5 DEF IInv, Types, vars
    <2>2. ASSUME NEW r \in Replicas PROVE ReplicaInv(r)'
      BY <1>5, Kept DEF Unmoved, vars
    <2> QED
      BY <2>1, <2>2 DEF IInv
  <1> QED
    BY <1>1, <1>2, <1>3, <1>4, <1>5 DEF Next

LEMMA InvariantHolds == Spec => []IInv
  <1>1. Init => IInv
    BY InitInv
  <1>2. IInv /\ [Next]_vars => IInv'
    BY NextInv
  <1> QED
    BY <1>1, <1>2, PTL DEF Spec

LEMMA Soundness ==
  ASSUME IInv
  PROVE  ApplySound
  <1> DEFINE N == Len(log)
  <1>1. Types
    BY DEF IInv
  <1>2. TypeOK
    <2>1. Len(log) <= MaxLog /\ crashes <= MaxCrashes
      BY <1>1, ApplyAssumption DEF Types
    <2>2. ASSUME NEW r \in Replicas
          PROVE  /\ disk[r].snap.index <= node[r].appliedIndex \/ node[r].loop.pc = "snapshot"
                 /\ node[r].appliedIndex <= disk[r].commit /\ disk[r].commit <= Len(log)
                 /\ node[r].snapshotIndex <= node[r].appliedIndex
                 /\ disk[r].compacted <= disk[r].snap.index
                 /\ history[r].done \subseteq DataUpTo(Len(log))
                 /\ \A k \in Keys : \A j \in DOMAIN disk[r].docs[k] :
                       disk[r].docs[k][j].of \in DOMAIN log
      <3>0. Indexes(r) /\ Order(r)
        BY DEF IInv, ReplicaInv
      <3>1. /\ N \in Nat /\ disk[r].commit \in 0 .. N /\ disk[r].docs \in Docs(N)
            /\ disk[r].snap.index \in 0 .. N /\ node[r].appliedIndex \in 0 .. N
        BY <1>1, FieldsAre
      <3>2. history[r].done \subseteq DataUpTo(Len(log))
        <4>1. \A x \in 0 .. N : DataUpTo(x) \subseteq DataUpTo(N)
          BY <3>1 DEF DataUpTo
        <4> QED
          BY <3>0, <3>1, <4>1 DEF Order
      <3>3. ASSUME NEW k \in Keys, NEW j \in DOMAIN disk[r].docs[k]
            PROVE  disk[r].docs[k][j].of \in DOMAIN log
        <4> DEFINE D == [of : 1 .. N, ts : Nat]
        <4>1. disk[r].docs[k] \in Seq(D)
          BY <3>1 DEF Docs, Document
        <4> HIDE DEF D
        <4>2. disk[r].docs[k][j] \in D
          BY <4>1
        <4>3. disk[r].docs[k][j].of \in 1 .. N
          BY <4>2 DEF D
        <4> QED
          BY <1>1, <4>3 DEF Types
      <3> QED
        BY <3>0, <3>1, <3>2, <3>3 DEF Indexes, Loop
    <2> QED
      BY <2>1, <2>2 DEF TypeOK
  <1>3. AppliedInOrder
    BY DEF IInv, ReplicaInv, Contents, Complete, AppliedInOrder
  <1> QED
    BY <1>2, <1>3 DEF ApplySound

\* On every replica the documents are those that the committed entries make one
\* at a time, each with its own timestamp, whatever readCommits coalesces and
\* wherever a commit ends; nothing that was published is skipped but by a restart.
THEOREM ApplyIsSound == Spec => []ApplySound
  <1>1. IInv => ApplySound
    BY Soundness
  <1> QED
    BY <1>1, InvariantHolds, PTL

\* The Raft snapshot of a replica has the documents of its index, although its
\* storage is copied while the Ready loop goes on.
THEOREM SnapshotsAreTrue == Spec => []SnapshotTrue
  <1>1. IInv => SnapshotTrue
    BY DEF IInv, ReplicaInv, Contents, Complete, SnapshotTrue
  <1> QED
    BY <1>1, InvariantHolds, PTL
=============================================================================
