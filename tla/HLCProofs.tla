----------------------------- MODULE HLCProofs -----------------------------
(***************************************************************************)
(* Proofs about the hybrid logical clock.                                  *)
(***************************************************************************)
EXTENDS HLC, TLAPS

\* Elements of a sequence, and of one that is longer by an element.
LEMMA SeqElements ==
    ASSUME NEW S, NEW s \in Seq(S)
    PROVE  /\ \A j \in 1..Len(s) : s[j] \in S
           /\ \A x \in S : Append(s, x) \in Seq(S)
  OBVIOUS

\* The composed word is a natural number.
LEMMA StampNat ==
    ASSUME NEW ms \in Nat, NEW id \in Nat, NEW l \in Nat
    PROVE  Stamp(ms, id, l) \in Nat
<1>1. ms % PhysSize \in Nat
  BY HLCAssumption
<1>2. \A a, b \in Nat : a * b \in Nat /\ a + b \in Nat
  OBVIOUS
<1> QED
  BY <1>1, <1>2, HLCAssumption DEF Stamp

\* Type correctness of the clock, for every number of instances and every
\* field width.
THEOREM TypeCorrect == Spec => []TypeOK
<1> USE HLCAssumption
<1>1. Init => TypeOK
  BY DEF Init, TypeOK
<1>2. TypeOK /\ [Next]_vars => TypeOK'
  <2> SUFFICES ASSUME TypeOK, [Next]_vars PROVE TypeOK'
    OBVIOUS
  <2>1. ASSUME NEW p \in Procs, NEW ms \in 0..MaxMs, SetClock(p, ms)
        PROVE  TypeOK'
    BY <2>1 DEF SetClock, TypeOK
  <2>2. ASSUME NEW i \in Instances, NewHLCWithClock(i)
        PROVE  TypeOK'
    <3>1. \A n \in Nat : n % NodeSize \in 0..(NodeSize - 1)
      OBVIOUS
    <3>2. hlcNodeCounter' \in [Procs -> Nat]
      BY <2>2 DEF NewHLCWithClock, TypeOK
    <3>3. nodeID' \in [Instances -> 0..(NodeSize - 1)]
      BY <2>2, <3>1, <3>2 DEF NewHLCWithClock, TypeOK
    <3> QED
      BY <2>2, <3>2, <3>3 DEF NewHLCWithClock, TypeOK
  <2>3. ASSUME NEW i \in Instances, Now(i)
        PROVE  TypeOK'
    <3>1. /\ lastPhysical' \in [Instances -> 0..MaxMs]
          /\ logical' \in [Instances -> 0..LogicalSize]
          /\ \A k \in Instances : logical'[k] = LogicalSize => k \in waiting'
          /\ waiting' \subseteq live
      <4>0. wall[Proc[i]] \in 0..MaxMs
        BY DEF TypeOK
      <4>1. CASE NowForward(i) \/ NowResume(i)
        <5>1. /\ lastPhysical' = [lastPhysical EXCEPT ![i] = wall[Proc[i]]]
              /\ logical' = [logical EXCEPT ![i] = 0]
          BY <4>1 DEF NowForward, NowResume
        <5>2. waiting' = waiting \/ waiting' = waiting \ {i}
          BY <4>1 DEF NowForward, NowResume
        <5> QED
          BY <4>0, <5>1, <5>2 DEF TypeOK
      <4>2. CASE NowSame(i)
        BY <4>2 DEF NowSame, CanCall, TypeOK
      <4>3. CASE NowOverflow(i)
        BY <4>3 DEF NowOverflow, CanCall, TypeOK
      <4> QED
        BY <2>3, <4>1, <4>2, <4>3 DEF Now
    <3>2. issued' \in [Instances -> Seq([ts : Nat, ms : 0..MaxMs])]
      <4> DEFINE x == [ts |-> Stamp(lastPhysical'[i], nodeID[i], logical'[i]),
                       ms |-> lastPhysical'[i]]
      <4>1. x \in [ts : Nat, ms : 0..MaxMs]
        <5>1. /\ lastPhysical'[i] \in 0..MaxMs /\ lastPhysical'[i] \in Nat
              /\ nodeID[i] \in Nat /\ logical'[i] \in Nat
          BY <3>1 DEF TypeOK
        <5>2. Stamp(lastPhysical'[i], nodeID[i], logical'[i]) \in Nat
          BY <5>1, StampNat
        <5> QED
          BY <5>1, <5>2
      <4>2. CASE Issue(i)
        <5>1. issued' = [issued EXCEPT ![i] = Append(issued[i], x)]
          BY <4>2 DEF Issue
        <5>2. Append(issued[i], x) \in Seq([ts : Nat, ms : 0..MaxMs])
          <6>1. issued[i] \in Seq([ts : Nat, ms : 0..MaxMs])
            BY DEF TypeOK
          <6> HIDE DEF x
          <6> QED
            BY <4>1, <6>1, SeqElements
        <5> HIDE DEF x
        <5> QED
          BY <5>1, <5>2 DEF TypeOK
      <4>3. CASE issued' = issued
        BY <4>3 DEF TypeOK
      <4> QED
        BY <2>3, <4>2, <4>3 DEF Now, NowForward, NowSame, NowOverflow, NowResume
    <3>3. UNCHANGED <<wall, hlcNodeCounter, live, nodeID>>
      BY <2>3 DEF Now, NowForward, NowSame, NowOverflow, NowResume
    <3> QED
      BY <3>1, <3>2, <3>3 DEF TypeOK
  <2>4. CASE UNCHANGED vars
    BY <2>4 DEF vars, TypeOK
  <2> QED
    BY <2>1, <2>2, <2>3, <2>4 DEF Next
<1> QED
  BY <1>1, <1>2, PTL DEF Spec

-----------------------------------------------------------------------------
(***************************************************************************)
(* Monotonicity.  The invariant relates what was issued to the instance's  *)
(* state: no word issued by i is from a later period than lastPhysical,    *)
(* and one from the same period is at most the word composed of i's        *)
(* current state, and below the end of the current millisecond's block.    *)
(* The second bound is what makes the first one usable while logical is    *)
(* out of its field.                                                       *)
(***************************************************************************)
Base(i) == ((lastPhysical[i] % PhysSize) * NodeSize + nodeID[i]) * LogicalSize

\* What the invariant says of one issued word.
Below(i, x) ==
    /\ Period(x.ms) <= Period(lastPhysical[i])
    /\ Period(x.ms) = Period(lastPhysical[i]) =>
          x.ts <= Base(i) + logical[i] /\ x.ts < Base(i) + LogicalSize

Bounded ==
    \A i \in Instances :
        /\ i \notin live => issued[i] = << >>
        /\ \A j \in 1..Len(issued[i]) : Below(i, issued[i][j])

IInv == TypeOK /\ Bounded /\ MonotonicInPeriod

\* Periods follow the clock, and within a period the physical field does.
LEMMA PeriodOrder ==
    ASSUME NEW m \in Nat, NEW n \in Nat, m <= n
    PROVE  /\ Period(m) \in Nat /\ Period(n) \in Nat
           /\ m % PhysSize \in Nat /\ n % PhysSize \in Nat
           /\ Period(m) <= Period(n)
           /\ m < n /\ Period(m) = Period(n) => m % PhysSize < n % PhysSize
<1> USE HLCAssumption
<1> DEFINE a == m \div PhysSize
           b == n \div PhysSize
           u == m % PhysSize
           v == n % PhysSize
<1>1. /\ a \in Nat /\ u \in 0..(PhysSize - 1) /\ m = a * PhysSize + u
      /\ b \in Nat /\ v \in 0..(PhysSize - 1) /\ n = b * PhysSize + v
  OBVIOUS
<1> HIDE DEF a, b, u, v
<1>2. ~(b < a)
  <2> SUFFICES ASSUME b < a PROVE FALSE
    OBVIOUS
  <2>1. PICK d \in Nat : a = b + 1 + d
    <3>1. a - b - 1 \in Nat
      BY <1>1
    <3>2. a = b + 1 + (a - b - 1)
      BY <1>1
    <3> QED
      BY <3>1, <3>2
  <2>2. \A x, y, z \in Nat : (x + 1 + y) * z = x * z + z + y * z /\ y * z \in Nat /\ x * z \in Nat
    OBVIOUS
  <2>3. a * PhysSize = b * PhysSize + PhysSize + d * PhysSize /\ d * PhysSize \in Nat
        /\ b * PhysSize \in Nat
    BY <1>1, <2>1, <2>2
  <2> QED
    BY <1>1, <2>3
<1>3. m < n /\ a = b => u < v
  <2>1. a * PhysSize \in Nat
    BY <1>1
  <2> QED
    BY <1>1, <2>1
<1> QED
  BY <1>1, <1>2, <1>3 DEF a, b, u, v, Period

\* A later millisecond composes to a block that starts at or above the end of
\* the block of an earlier one.
LEMMA LaterBlock ==
    ASSUME NEW m \in Nat, NEW n \in Nat, NEW id \in Nat, m < n
    PROVE  /\ (m * NodeSize + id) * LogicalSize \in Nat
           /\ (n * NodeSize + id) * LogicalSize \in Nat
           /\ (m * NodeSize + id) * LogicalSize + LogicalSize
                <= (n * NodeSize + id) * LogicalSize
<1> USE HLCAssumption
<1>1. PICK d \in Nat : n = m + d /\ d >= 1
  <2> WITNESS n - m \in Nat
  <2> QED
    OBVIOUS
<1>2. \A a, b \in Nat : a * b \in Nat
  OBVIOUS
<1>3. \A a \in Nat, b \in Nat : a >= 1 /\ b >= 1 => a * b >= 1
  OBVIOUS
<1>4. \A a, b \in Nat : a >= 1 => b <= a * b
  OBVIOUS
<1>5. \A a, b, c \in Nat : (a + b) * c = a * c + b * c
  OBVIOUS
<1> DEFINE M == m * NodeSize
           D == d * NodeSize
<1>6. M \in Nat /\ D \in Nat /\ D >= 1
  BY <1>1, <1>2, <1>3
<1>7. n * NodeSize = M + D
  BY <1>1, <1>5
<1> HIDE DEF M, D
<1>8. (n * NodeSize + id) * LogicalSize = (M + id) * LogicalSize + D * LogicalSize
  BY <1>5, <1>6, <1>7
<1>9. LogicalSize <= D * LogicalSize
  BY <1>4, <1>6
<1>10. (M + id) * LogicalSize \in Nat /\ D * LogicalSize \in Nat
  BY <1>2, <1>6
<1>11. (M + id) * LogicalSize + LogicalSize <= (n * NodeSize + id) * LogicalSize
  BY <1>8, <1>9, <1>10
<1>12. (n * NodeSize + id) * LogicalSize \in Nat
  BY <1>8, <1>10
<1> QED
  BY <1>10, <1>11, <1>12 DEF M

\* A call that returns: the new word is from no earlier period than the others
\* of the instance, exceeds those of its period, and is composed of its new state.
LEMMA IssueStep ==
    ASSUME IInv, TypeOK', NEW i \in live,
           Issue(i), UNCHANGED <<live, nodeID>>,
           logical'[i] < LogicalSize,
           \/ lastPhysical[i] < lastPhysical'[i]
           \/ lastPhysical[i] = lastPhysical'[i] /\ logical[i] < logical'[i],
           \A k \in Instances \ {i} : /\ lastPhysical'[k] = lastPhysical[k]
                                      /\ logical'[k] = logical[k]
    PROVE  Bounded' /\ MonotonicInPeriod'
<1> USE HLCAssumption
<1> DEFINE B == ((lastPhysical[i] % PhysSize) * NodeSize + nodeID[i]) * LogicalSize
           Bn == ((lastPhysical'[i] % PhysSize) * NodeSize + nodeID[i]) * LogicalSize
           P == Period(lastPhysical[i])
           Pn == Period(lastPhysical'[i])
           L == logical[i]
           Ln == logical'[i]
<1>1. /\ i \in Instances
      /\ lastPhysical[i] \in Nat /\ lastPhysical'[i] \in Nat
      /\ lastPhysical'[i] \in 0..MaxMs
      /\ nodeID[i] \in Nat /\ L \in Nat /\ Ln \in Nat
  BY DEF IInv, TypeOK
<1>2. /\ lastPhysical[i] <= lastPhysical'[i]
      /\ P \in Nat /\ Pn \in Nat /\ P <= Pn
      /\ lastPhysical[i] % PhysSize \in Nat /\ lastPhysical'[i] % PhysSize \in Nat
  <2>1. lastPhysical[i] <= lastPhysical'[i]
    BY <1>1
  <2> QED
    BY <1>1, <2>1, PeriodOrder
<1>3. B \in Nat /\ Bn \in Nat
  <2>1. \A a, b, c, d \in Nat : (a * b + c) * d \in Nat
    OBVIOUS
  <2> QED
    BY <1>1, <1>2, <2>1
<1>4. P = Pn => \/ B + LogicalSize <= Bn
                \/ B = Bn /\ L < Ln
  <2>1. CASE lastPhysical[i] < lastPhysical'[i]
    <3>1. P = Pn => lastPhysical[i] % PhysSize < lastPhysical'[i] % PhysSize
      BY <1>1, <1>2, <2>1, PeriodOrder
    <3> QED
      BY <1>1, <1>2, <3>1, LaterBlock
  <2>2. CASE lastPhysical[i] = lastPhysical'[i] /\ logical[i] < logical'[i]
    BY <2>2
  <2> QED
    BY <2>1, <2>2
<1>5. PICK x \in [ts : Nat, ms : 0..MaxMs] :
        /\ x.ts = Bn + Ln /\ Period(x.ms) = Pn
        /\ issued'[i] = Append(issued[i], x)
  <2> DEFINE x == [ts |-> Bn + Ln, ms |-> lastPhysical'[i]]
  <2>1. issued'[i] = Append(issued[i], x)
    BY <1>1 DEF Issue, Stamp, IInv, TypeOK
  <2>2. x \in [ts : Nat, ms : 0..MaxMs] /\ x.ts = Bn + Ln /\ x.ms = lastPhysical'[i]
    BY <1>1, <1>3
  <2>3. Period(x.ms) = Pn
    BY <2>2
  <2> QED
    BY <2>1, <2>2, <2>3
<1>6. \A k \in Instances \ {i} : issued'[k] = issued[k]
  BY <1>1 DEF Issue, IInv, TypeOK
<1>7. \A j \in 1..Len(issued[i]) :
        /\ Period(issued[i][j].ms) <= P
        /\ Period(issued[i][j].ms) = P =>
              issued[i][j].ts <= B + L /\ issued[i][j].ts < B + LogicalSize
  BY <1>1 DEF IInv, Bounded, Below, Base
<1>8. /\ L \in Nat /\ Ln \in Nat /\ LogicalSize \in Nat /\ Ln < LogicalSize
  BY <1>1
<1> HIDE DEF B, Bn, L, Ln, P, Pn
<1>9. /\ Len(issued'[i]) = Len(issued[i]) + 1
      /\ Len(issued[i]) \in Nat
      /\ \A j \in 1..Len(issued[i]) : issued'[i][j] = issued[i][j]
      /\ issued'[i][Len(issued[i]) + 1] = x
  <2> DEFINE s == issued[i]
             t == issued'[i]
  <2>1. s \in Seq([ts : Nat, ms : 0..MaxMs]) /\ t = Append(s, x)
    BY <1>1, <1>5 DEF IInv, TypeOK
  <2> HIDE DEF s, t
  <2>2. /\ Len(t) = Len(s) + 1 /\ Len(s) \in Nat
        /\ \A j \in 1..Len(s) : t[j] = s[j]
        /\ t[Len(s) + 1] = x
    BY <2>1
  <2> QED
    BY <2>2 DEF s, t
<1>10. ASSUME NEW j \in 1..Len(issued[i])
       PROVE  /\ Period(issued[i][j].ms) <= Pn
              /\ Period(issued[i][j].ms) = Pn => issued[i][j].ts < x.ts
  <2> DEFINE y == issued[i][j]
             p == Period(y.ms)
  <2>1. y.ts \in Nat /\ y.ms \in Nat
    <3>1. issued[i] \in Seq([ts : Nat, ms : 0..MaxMs])
      BY <1>1 DEF IInv, TypeOK
    <3>2. y \in [ts : Nat, ms : 0..MaxMs]
      BY <1>9, <3>1, SeqElements
    <3> QED
      BY <3>2
  <2>2. p \in Nat
    <3>1. y.ms \in Nat /\ y.ms <= y.ms
      BY <2>1
    <3> QED
      BY <3>1, PeriodOrder
  <2>3. p <= P /\ (p = P => y.ts <= B + L /\ y.ts < B + LogicalSize)
    BY <1>7
  <2> HIDE DEF y, p
  <2>4. p <= Pn
    BY <1>2, <2>2, <2>3
  <2>5. ASSUME p = Pn PROVE y.ts < x.ts
    <3>1. p = P /\ P = Pn
      BY <1>2, <2>2, <2>3, <2>5
    <3>2. y.ts <= B + L /\ y.ts < B + LogicalSize
      BY <2>3, <3>1
    <3>3. y.ts < Bn + Ln
      BY <1>3, <1>4, <1>8, <2>1, <3>1, <3>2
    <3> QED
      BY <1>5, <3>3
  <2> QED
    BY <2>4, <2>5 DEF y, p
<1>11. \A j \in 1..Len(issued'[i]) :
         /\ Period(issued'[i][j].ms) <= Pn
         /\ Period(issued'[i][j].ms) = Pn =>
               issued'[i][j].ts <= Bn + Ln /\ issued'[i][j].ts < Bn + LogicalSize
  <2> SUFFICES ASSUME NEW j \in 1..Len(issued'[i])
               PROVE  /\ Period(issued'[i][j].ms) <= Pn
                      /\ Period(issued'[i][j].ms) = Pn =>
                            issued'[i][j].ts <= Bn + Ln /\ issued'[i][j].ts < Bn + LogicalSize
    OBVIOUS
  <2>1. CASE j = Len(issued[i]) + 1
    <3>1. Bn + Ln < Bn + LogicalSize /\ Bn + Ln <= Bn + Ln /\ Pn <= Pn
      BY <1>2, <1>3, <1>8
    <3> QED
      BY <1>5, <1>9, <2>1, <3>1
  <2>2. CASE j \in 1..Len(issued[i])
    <3>1. issued[i][j].ts \in Nat
      <4>1. issued[i] \in Seq([ts : Nat, ms : 0..MaxMs])
        BY <1>1 DEF IInv, TypeOK
      <4>2. issued[i][j] \in [ts : Nat, ms : 0..MaxMs]
        BY <4>1, <2>2, SeqElements
      <4> QED
        BY <4>2
    <3>2. issued[i][j].ts < Bn + Ln =>
            issued[i][j].ts <= Bn + Ln /\ issued[i][j].ts < Bn + LogicalSize
      BY <1>3, <1>8, <3>1
    <3> QED
      BY <1>5, <1>9, <1>10, <2>2, <3>2
  <2> QED
    BY <1>9, <2>1, <2>2
<1>12. Bounded'
  <2> SUFFICES ASSUME NEW k \in Instances
               PROVE  /\ k \notin live' => issued'[k] = << >>
                      /\ \A j \in 1..Len(issued'[k]) : Below(k, issued[k][j])'
    BY DEF Bounded
  <2>1. CASE k = i
    BY <1>11, <2>1 DEF Below, Base, Bn, Ln, Pn
  <2>2. CASE k # i
    BY <1>6, <2>2 DEF Below, Base, IInv, Bounded
  <2> QED
    BY <2>1, <2>2
<1>13. MonotonicInPeriod'
  <2> SUFFICES ASSUME NEW k \in Instances,
                      NEW j1 \in 1..Len(issued'[k]), NEW j2 \in 1..Len(issued'[k]), j1 < j2
               PROVE  /\ Period(issued'[k][j1].ms) <= Period(issued'[k][j2].ms)
                      /\ Period(issued'[k][j1].ms) = Period(issued'[k][j2].ms) =>
                            issued'[k][j1].ts < issued'[k][j2].ts
    BY DEF MonotonicInPeriod
  <2>1. CASE k # i
    BY <2>1, <1>6 DEF IInv, MonotonicInPeriod
  <2>2. CASE k = i /\ j2 \in 1..Len(issued[i])
    <3>1. j1 \in 1..Len(issued[i])
      BY <2>2, <1>9
    <3> QED
      BY <2>2, <3>1, <1>1, <1>9 DEF IInv, MonotonicInPeriod
  <2>3. CASE k = i /\ j2 = Len(issued[i]) + 1
    <3>1. j1 \in 1..Len(issued[i])
      BY <2>3, <1>9
    <3>2. issued'[i][j1] = issued[i][j1] /\ issued'[i][j2] = x
      BY <2>3, <3>1, <1>9
    <3> QED
      BY <2>3, <3>1, <3>2, <1>5, <1>10
  <2> QED
    BY <2>1, <2>2, <2>3, <1>9
<1> QED
  BY <1>12, <1>13

\* The words of one instance increase within every period of the millisecond
\* field, and never go back to an earlier period, whatever the clock does
\* (HLC.Now, hlc.go:129).
THEOREM IncreasingInPeriod == Spec => []MonotonicInPeriod
<1> USE HLCAssumption
<1>1. Init => Bounded /\ MonotonicInPeriod
  BY DEF Init, Bounded, MonotonicInPeriod
<1>2. ASSUME TypeOK, TypeOK', Bounded, MonotonicInPeriod, [Next]_vars
      PROVE  Bounded' /\ MonotonicInPeriod'
  <2> USE <1>2
  <2>0. IInv
    BY DEF IInv
  <2>1. ASSUME NEW p \in Procs, NEW ms \in 0..MaxMs, SetClock(p, ms)
        PROVE  Bounded' /\ MonotonicInPeriod'
    BY <2>1 DEF SetClock, Bounded, Below, MonotonicInPeriod, Base
  <2>2. ASSUME NEW i \in Instances, NewHLCWithClock(i)
        PROVE  Bounded' /\ MonotonicInPeriod'
    <3>1. MonotonicInPeriod'
      BY <2>2 DEF NewHLCWithClock, MonotonicInPeriod
    <3>2. issued[i] = << >>
      BY <2>2 DEF NewHLCWithClock, Bounded
    <3>3. \A k \in Instances \ {i} : nodeID'[k] = nodeID[k]
      BY <2>2 DEF NewHLCWithClock, TypeOK
    <3>4. Len(issued[i]) = 0
      BY <3>2
    <3>5. /\ UNCHANGED <<lastPhysical, logical, issued>>
          /\ live' = live \cup {i}
      BY <2>2 DEF NewHLCWithClock
    <3>6. \A k \in Instances : 1..Len(issued'[k]) # {} => k # i
      BY <3>4, <3>5
    <3>7. ASSUME NEW k \in Instances, NEW j \in 1..Len(issued'[k])
          PROVE  Below(k, issued[k][j])'
      <4>1. k # i
        BY <3>6, <3>7
      <4> QED
        BY <4>1, <3>3, <3>5, <3>7 DEF Bounded, Below, Base
    <3>8. \A k \in Instances : k \notin live' => issued'[k] = << >>
      BY <3>5 DEF Bounded
    <3> QED
      BY <3>1, <3>7, <3>8 DEF Bounded
  <2>3. ASSUME NEW i \in Instances, NowForward(i) \/ NowResume(i)
        PROVE  Bounded' /\ MonotonicInPeriod'
    <3>1. i \in live
      BY <2>3 DEF NowForward, NowResume, CanCall, TypeOK
    <3>2. Issue(i) /\ UNCHANGED <<live, nodeID>>
      BY <2>3 DEF NowForward, NowResume
    <3>3. /\ lastPhysical' = [lastPhysical EXCEPT ![i] = wall[Proc[i]]]
          /\ wall[Proc[i]] > lastPhysical[i]
          /\ logical' = [logical EXCEPT ![i] = 0]
      BY <2>3 DEF NowForward, NowResume
    <3>4. /\ logical'[i] < LogicalSize
          /\ lastPhysical[i] < lastPhysical'[i]
      BY <3>3 DEF TypeOK
    <3>5. \A k \in Instances \ {i} : /\ lastPhysical'[k] = lastPhysical[k]
                                     /\ logical'[k] = logical[k]
      BY <3>3 DEF TypeOK
    <3> QED
      BY <2>0, <3>1, <3>2, <3>4, <3>5, IssueStep
  <2>4. ASSUME NEW i \in Instances, NowSame(i)
        PROVE  Bounded' /\ MonotonicInPeriod'
    <3>1. i \in live
      BY <2>4 DEF NowSame, CanCall, TypeOK
    <3>2. Issue(i) /\ UNCHANGED <<live, nodeID, lastPhysical>>
      BY <2>4 DEF NowSame
    <3>3. /\ logical' = [logical EXCEPT ![i] = @ + 1]
          /\ logical[i] + 1 < LogicalSize
      BY <2>4 DEF NowSame
    <3>4. logical'[i] < LogicalSize /\ logical[i] < logical'[i]
      BY <3>3 DEF TypeOK
    <3>5. \A k \in Instances \ {i} : logical'[k] = logical[k]
      BY <3>3 DEF TypeOK
    <3> QED
      BY <2>0, <3>1, <3>2, <3>4, <3>5, IssueStep
  <2>5. ASSUME NEW i \in Instances, NowOverflow(i)
        PROVE  Bounded' /\ MonotonicInPeriod'
    <3>1. UNCHANGED <<live, nodeID, lastPhysical, issued>>
      BY <2>5 DEF NowOverflow
    <3>2. \A k \in Instances : logical'[k] >= logical[k]
      BY <2>5 DEF NowOverflow, TypeOK
    <3>3. MonotonicInPeriod'
      BY <3>1 DEF MonotonicInPeriod
    <3>4. ASSUME NEW k \in Instances, NEW j \in 1..Len(issued[k])
          PROVE  Below(k, issued[k][j])'
      <4> DEFINE y == issued[k][j]
                 b == Base(k)
      <4>1. b \in Nat /\ b' = b
        <5>1. \A u, v, w, z \in Nat : (u * v + w) * z \in Nat
          OBVIOUS
        <5>2. nodeID[k] \in 0..(NodeSize - 1) /\ lastPhysical[k] \in 0..MaxMs
          BY <3>4 DEF TypeOK
        <5>3. lastPhysical[k] % PhysSize \in Nat /\ nodeID[k] \in Nat
          BY <5>2
        <5> QED
          BY <3>1, <5>1, <5>3 DEF Base
      <4>2. y.ts \in Nat /\ logical[k] \in Nat /\ logical'[k] \in Nat
        <5>1. issued[k] \in Seq([ts : Nat, ms : 0..MaxMs])
          BY <3>4 DEF TypeOK
        <5>2. y \in [ts : Nat, ms : 0..MaxMs]
          BY <3>4, <5>1, SeqElements
        <5>3. logical[k] \in 0..LogicalSize /\ logical'[k] \in 0..LogicalSize
          BY <3>4 DEF TypeOK
        <5> QED
          BY <5>2, <5>3
      <4>3. Below(k, y)
        BY <3>4 DEF Bounded
      <4>4. y' = y /\ lastPhysical'[k] = lastPhysical[k]
        BY <3>1
      <4>5. y.ts <= b + logical[k] => y.ts <= b + logical'[k]
        <5> HIDE DEF y, b
        <5> QED
          BY <4>1, <4>2, <3>2
      <4> QED
        BY <4>1, <4>3, <4>4, <4>5 DEF Below
    <3> QED
      BY <3>1, <3>3, <3>4 DEF Bounded
  <2>6. CASE UNCHANGED vars
    BY <2>6 DEF vars, Bounded, Below, MonotonicInPeriod, Base
  <2> QED
    BY <2>1, <2>2, <2>3, <2>4, <2>5, <2>6 DEF Next, Now
<1> QED
  BY <1>1, <1>2, TypeCorrect, PTL DEF Spec
-----------------------------------------------------------------------------
(***************************************************************************)
(* Uniqueness across the instances of a process.  The invariant: the node  *)
(* IDs of a process come from its counter, the instances of a process have *)
(* different ones until the counter has run through all of them, and the   *)
(* node ID can be read off every word, in whatever period it was issued.   *)
(***************************************************************************)

\* x is a word with node ID id.
Carries(x, id) ==
    \E m \in Nat, l \in 0..(LogicalSize - 1) : x = (m * NodeSize + id) * LogicalSize + l

OwnNode ==
    /\ \A i \in live : \E n \in 1..hlcNodeCounter[Proc[i]] : nodeID[i] = n % NodeSize
    /\ \A i, k \in live :
          i # k /\ Proc[i] = Proc[k] /\ hlcNodeCounter[Proc[i]] <= NodeSize =>
              nodeID[i] # nodeID[k]

Carried ==
    \A i \in Instances :
        /\ i \notin live => issued[i] = << >>
        /\ \A j \in 1..Len(issued[i]) : Carries(issued[i][j].ts, nodeID[i])

UInv == OwnNode /\ Carried

\* Division with remainder is unique.
LEMMA Quotient ==
    ASSUME NEW d \in Nat \ {0}, NEW a \in Nat, NEW b \in Nat,
           NEW x \in 0..(d - 1), NEW y \in 0..(d - 1), a * d + x = b * d + y
    PROVE  a = b /\ x = y
<1>1. \A m, n \in Nat : m < n => m * d + d <= n * d
  <2> SUFFICES ASSUME NEW m \in Nat, NEW n \in Nat, m < n PROVE m * d + d <= n * d
    OBVIOUS
  <2>1. PICK e \in Nat : n = m + 1 + e
    <3> WITNESS n - m - 1 \in Nat
    <3> QED
      OBVIOUS
  <2>2. \A u, v, w \in Nat : (u + 1 + v) * w = u * w + w + v * w /\ v * w \in Nat /\ u * w \in Nat
    OBVIOUS
  <2>3. n * d = m * d + d + e * d /\ e * d \in Nat /\ m * d \in Nat
    BY <2>1, <2>2
  <2> QED
    BY <2>3
<1>2. a * d \in Nat /\ b * d \in Nat
  OBVIOUS
<1>3. ~(a < b) /\ ~(b < a)
  BY <1>1, <1>2
<1> QED
  BY <1>2, <1>3

\* So a word determines its node ID.
LEMMA CarriesOne ==
    ASSUME NEW x, NEW id1 \in 0..(NodeSize - 1), NEW id2 \in 0..(NodeSize - 1),
           Carries(x, id1), Carries(x, id2)
    PROVE  id1 = id2
<1> USE HLCAssumption
<1>1. PICK m1 \in Nat, l1 \in 0..(LogicalSize - 1) : x = (m1 * NodeSize + id1) * LogicalSize + l1
  BY DEF Carries
<1>2. PICK m2 \in Nat, l2 \in 0..(LogicalSize - 1) : x = (m2 * NodeSize + id2) * LogicalSize + l2
  BY DEF Carries
<1> DEFINE a == m1 * NodeSize + id1
           b == m2 * NodeSize + id2
<1>3. a \in Nat /\ b \in Nat
  <2>1. \A u, v, w \in Nat : u * v + w \in Nat
    OBVIOUS
  <2> QED
    BY <2>1
<1>4. a * LogicalSize + l1 = b * LogicalSize + l2
  BY <1>1, <1>2
<1> HIDE DEF a, b
<1>5. a = b
  BY <1>3, <1>4, Quotient
<1>6. m1 * NodeSize + id1 = m2 * NodeSize + id2
  BY <1>5 DEF a, b
<1> QED
  BY <1>6, Quotient

\* What Now returns carries the instance's node ID.
LEMMA StampCarries ==
    ASSUME NEW ms \in Nat, NEW id \in Nat, NEW l \in 0..(LogicalSize - 1)
    PROVE  Carries(Stamp(ms, id, l), id)
<1>1. ms % PhysSize \in Nat
  BY HLCAssumption
<1> QED
  BY <1>1 DEF Carries, Stamp

\* The node IDs of the first NodeSize instances of a process differ.
LEMMA FreshNode ==
    ASSUME NEW m \in Nat, NEW n \in Nat, 1 <= m, m < n, n <= NodeSize
    PROVE  m % NodeSize # n % NodeSize
<1> USE HLCAssumption
<1>1. m % NodeSize = m
  OBVIOUS
<1>2. CASE n < NodeSize
  <2>1. n % NodeSize = n
    BY <1>2
  <2> QED
    BY <1>1, <2>1
<1>3. CASE n = NodeSize
  <2>1. n % NodeSize = 0
    BY <1>3
  <2> QED
    BY <1>1, <2>1
<1> QED
  BY <1>2, <1>3

\* NewHLCWithClock takes the next node ID of its process.
LEMMA NewHLCUnique ==
    ASSUME TypeOK, UInv, NEW i \in Instances, NewHLCWithClock(i)
    PROVE  UInv'
<1> USE HLCAssumption
<1> DEFINE p == Proc[i]
           c == hlcNodeCounter[p]
<1>1. /\ i \notin live /\ live' = live \cup {i} /\ UNCHANGED issued
      /\ hlcNodeCounter' = [hlcNodeCounter EXCEPT ![p] = @ + 1]
      /\ nodeID' = [nodeID EXCEPT ![i] = hlcNodeCounter'[p] % NodeSize]
  BY DEF NewHLCWithClock
<1>2. p \in Procs /\ c \in Nat /\ live \subseteq Instances /\ NodeSize \in Nat
  BY DEF TypeOK
<1>3. /\ hlcNodeCounter'[p] = c + 1
      /\ \A q \in Procs \ {p} : hlcNodeCounter'[q] = hlcNodeCounter[q]
  BY <1>1, <1>2 DEF TypeOK
<1>4. nodeID'[i] = (c + 1) % NodeSize /\ \A k \in Instances \ {i} : nodeID'[k] = nodeID[k]
  BY <1>1, <1>3 DEF TypeOK
<1>5. \A k \in live : k # i /\ Proc[k] \in Procs /\ nodeID'[k] = nodeID[k]
  BY <1>1, <1>2, <1>4
<1>6. \A k \in live : \E n \in 1..hlcNodeCounter[Proc[k]] : nodeID[k] = n % NodeSize
  BY DEF UInv, OwnNode
<1> HIDE DEF p, c
<1>7. \A k \in live : Proc[k] = p /\ c + 1 <= NodeSize => nodeID[k] # (c + 1) % NodeSize
  <2> SUFFICES ASSUME NEW k \in live, Proc[k] = p, c + 1 <= NodeSize
               PROVE  nodeID[k] # (c + 1) % NodeSize
    OBVIOUS
  <2>1. PICK n \in 1..c : nodeID[k] = n % NodeSize
    BY <1>6 DEF c
  <2>2. n % NodeSize # (c + 1) % NodeSize
    <3> DEFINE b == c + 1
    <3>1. n \in Nat /\ b \in Nat /\ 1 <= n /\ n < b /\ b <= NodeSize
      BY <1>2
    <3> HIDE DEF b
    <3>2. n % NodeSize # b % NodeSize
      BY <3>1, FreshNode
    <3> QED
      BY <3>2 DEF b
  <2> QED
    BY <2>1, <2>2
<1>8. \A k \in live' : \E n \in 1..hlcNodeCounter'[Proc[k]] : nodeID'[k] = n % NodeSize
  <2> SUFFICES ASSUME NEW k \in live'
               PROVE  \E n \in 1..hlcNodeCounter'[Proc[k]] : nodeID'[k] = n % NodeSize
    OBVIOUS
  <2>1. CASE k = i
    <3>1. c + 1 \in 1..(c + 1)
      BY <1>2
    <3> QED
      BY <1>3, <1>4, <2>1, <3>1 DEF p
  <2>2. CASE k \in live /\ Proc[k] = p
    <3>1. PICK n \in 1..c : nodeID[k] = n % NodeSize
      BY <1>6, <2>2 DEF c
    <3>2. n \in 1..(c + 1)
      BY <1>2
    <3> QED
      BY <1>3, <1>5, <2>2, <3>1, <3>2
  <2>3. CASE k \in live /\ Proc[k] # p
    BY <1>3, <1>5, <1>6, <2>3
  <2> QED
    BY <1>1, <2>1, <2>2, <2>3
<1>9. \A k, m \in live' :
        k # m /\ Proc[k] = Proc[m] /\ hlcNodeCounter'[Proc[k]] <= NodeSize =>
            nodeID'[k] # nodeID'[m]
  <2> SUFFICES ASSUME NEW k \in live', NEW m \in live', k # m, Proc[k] = Proc[m],
                      hlcNodeCounter'[Proc[k]] <= NodeSize
               PROVE  nodeID'[k] # nodeID'[m]
    OBVIOUS
  <2>1. CASE k = i \/ m = i
    <3>1. Proc[k] = p /\ Proc[m] = p /\ c + 1 <= NodeSize
      BY <1>3, <2>1 DEF p
    <3> QED
      BY <1>1, <1>4, <1>5, <1>7, <2>1, <3>1
  <2>2. CASE k \in live /\ m \in live
    <3>1. hlcNodeCounter[Proc[k]] <= NodeSize
      <4>1. CASE Proc[k] = p
        <5>1. c + 1 <= NodeSize
          BY <1>3, <4>1
        <5> QED
          BY <1>2, <4>1, <5>1 DEF c
      <4>2. CASE Proc[k] # p
        BY <1>3, <1>5, <2>2, <4>2
      <4> QED
        BY <4>1, <4>2
    <3>2. nodeID[k] # nodeID[m]
      BY <2>2, <3>1 DEF UInv, OwnNode
    <3> QED
      BY <1>5, <2>2, <3>2
  <2> QED
    BY <1>1, <2>1, <2>2
<1>10. OwnNode'
  BY <1>8, <1>9 DEF OwnNode
<1>11. Carried'
  <2>1. Len(issued[i]) = 0
    BY <1>1 DEF UInv, Carried
  <2>2. ASSUME NEW k \in Instances, NEW j \in 1..Len(issued[k])
        PROVE  Carries(issued[k][j].ts, nodeID'[k])
    <3>1. k # i
      BY <2>1, <2>2
    <3> QED
      BY <1>4, <2>2, <3>1 DEF UInv, Carried
  <2> QED
    BY <1>1, <2>2 DEF UInv, Carried
<1> QED
  BY <1>10, <1>11 DEF UInv

\* Now adds a timestamp with the node ID of the instance, or none.
LEMMA NowUnique ==
    ASSUME TypeOK, TypeOK', UInv, NEW i \in Instances, Now(i) PROVE UInv'
<1>1. UNCHANGED <<hlcNodeCounter, live, nodeID>> /\ i \in live
  BY DEF Now, NowForward, NowSame, NowOverflow, NowResume, CanCall, TypeOK
<1>2. OwnNode'
  BY <1>1 DEF UInv, OwnNode
<1>3. CASE issued' = issued
  BY <1>1, <1>2, <1>3 DEF UInv, Carried
<1>4. CASE issued' # issued
  <2> DEFINE x == [ts |-> Stamp(lastPhysical'[i], nodeID[i], logical'[i]),
                   ms |-> lastPhysical'[i]]
             s == issued[i]
  <2>1. issued' = [issued EXCEPT ![i] = Append(@, x)] /\ i \notin waiting'
    BY <1>4 DEF Now, NowForward, NowSame, NowOverflow, NowResume, CanCall, Issue
  <2>2. /\ lastPhysical'[i] \in 0..MaxMs /\ lastPhysical'[i] \in Nat /\ nodeID[i] \in Nat
        /\ logical'[i] \in 0..(LogicalSize - 1)
    BY <1>1, <2>1, HLCAssumption DEF TypeOK
  <2>3. Carries(x.ts, nodeID[i]) /\ x \in [ts : Nat, ms : 0..MaxMs]
    <3>1. logical'[i] \in Nat
      BY <2>2, HLCAssumption
    <3>2. Carries(Stamp(lastPhysical'[i], nodeID[i], logical'[i]), nodeID[i])
      BY <2>2, StampCarries
    <3>3. Stamp(lastPhysical'[i], nodeID[i], logical'[i]) \in Nat
      BY <2>2, <3>1, StampNat
    <3> QED
      BY <2>2, <3>2, <3>3
  <2>4. s \in Seq([ts : Nat, ms : 0..MaxMs]) /\ issued'[i] = Append(s, x)
        /\ \A k \in Instances \ {i} : issued'[k] = issued[k]
    BY <2>1 DEF TypeOK
  <2>5. \A j \in 1..Len(s) : Carries(s[j].ts, nodeID[i])
    BY DEF UInv, Carried
  <2> HIDE DEF x, s
  <2>6. /\ Len(Append(s, x)) = Len(s) + 1 /\ Len(s) \in Nat
        /\ \A j \in 1..Len(s) : Append(s, x)[j] = s[j]
        /\ Append(s, x)[Len(s) + 1] = x
    BY <2>3, <2>4
  <2>7. \A j \in 1..Len(issued'[i]) : Carries(issued'[i][j].ts, nodeID[i])
    <3> SUFFICES ASSUME NEW j \in 1..Len(issued'[i]) PROVE Carries(issued'[i][j].ts, nodeID[i])
      OBVIOUS
    <3>1. CASE j \in 1..Len(s)
      BY <2>4, <2>5, <2>6, <3>1
    <3>2. CASE j = Len(s) + 1
      BY <2>3, <2>4, <2>6, <3>2
    <3> QED
      BY <2>4, <2>6, <3>1, <3>2
  <2>8. Carried'
    <3> SUFFICES ASSUME NEW k \in Instances
                 PROVE  /\ k \notin live' => issued'[k] = << >>
                        /\ \A j \in 1..Len(issued'[k]) : Carries(issued'[k][j].ts, nodeID'[k])
      BY DEF Carried
    <3>1. CASE k = i
      BY <1>1, <2>7, <3>1
    <3>2. CASE k # i
      BY <1>1, <2>4, <3>2 DEF UInv, Carried
    <3> QED
      BY <3>1, <3>2
  <2> QED
    BY <1>2, <2>8 DEF UInv
<1> QED
  BY <1>3, <1>4

\* The instances of one process never return the same word, even when its clock
\* outgrows the millisecond field, until the process has made more of them than
\* there are node IDs (NewHLC, HLC.Now).
THEOREM UniqueWithinServer == Spec => []UniqueInServer
<1>1. Init => UInv
  <2> SUFFICES ASSUME Init PROVE UInv
    OBVIOUS
  <2>1. OwnNode
    BY DEF Init, OwnNode
  <2>2. Carried
    <3>1. \A i \in Instances : issued[i] = << >>
      BY DEF Init
    <3>2. \A j \in 1..Len(<< >>) : FALSE
      OBVIOUS
    <3> QED
      BY <3>1, <3>2 DEF Carried
  <2> QED
    BY <2>1, <2>2 DEF UInv
<1>2. TypeOK /\ TypeOK' /\ UInv /\ [Next]_vars => UInv'
  <2> SUFFICES ASSUME TypeOK, TypeOK', UInv, [Next]_vars PROVE UInv'
    OBVIOUS
  <2>1. ASSUME UNCHANGED <<hlcNodeCounter, live, nodeID, issued>> PROVE UInv'
    BY <2>1 DEF UInv, OwnNode, Carried
  <2>2. ASSUME NEW p \in Procs, NEW ms \in 0..MaxMs, SetClock(p, ms) PROVE UInv'
    BY <2>1, <2>2 DEF SetClock
  <2>3. CASE UNCHANGED vars
    BY <2>1, <2>3 DEF vars
  <2> QED
    BY <2>2, <2>3, NewHLCUnique, NowUnique DEF Next
<1>3. TypeOK /\ UInv => UniqueInServer
  <2> SUFFICES ASSUME TypeOK, UInv, NEW i1 \in Instances, NEW i2 \in Instances, i1 # i2,
                      Proc[i1] = Proc[i2], hlcNodeCounter[Proc[i1]] <= NodeSize,
                      NEW j \in 1..Len(issued[i1]), NEW k \in 1..Len(issued[i2]),
                      issued[i1][j].ts = issued[i2][k].ts
               PROVE  FALSE
    BY DEF UniqueInServer
  <2>1. i1 \in live /\ i2 \in live
    <3>1. Len(issued[i1]) # 0 /\ Len(issued[i2]) # 0
      OBVIOUS
    <3> QED
      BY <3>1 DEF UInv, Carried
  <2>2. nodeID[i1] # nodeID[i2]
    BY <2>1 DEF UInv, OwnNode
  <2>3. /\ Carries(issued[i1][j].ts, nodeID[i1])
        /\ Carries(issued[i1][j].ts, nodeID[i2])
    BY DEF UInv, Carried
  <2>4. nodeID[i1] \in 0..(NodeSize - 1) /\ nodeID[i2] \in 0..(NodeSize - 1)
    BY DEF TypeOK
  <2> QED
    BY <2>2, <2>3, <2>4, CarriesOne
<1> QED
  BY <1>1, <1>2, <1>3, TypeCorrect, PTL DEF Spec
=============================================================================
