-------------------------------- MODULE HLC --------------------------------
(***************************************************************************)
(* The hybrid logical clock of the metadata servers                        *)
(* (src/metadata/hlc.go).  Every HLC instance composes its timestamps from *)
(* a wall clock in milliseconds, a node ID and a logical counter, in one   *)
(* unsigned machine word.                                                  *)
(*                                                                         *)
(* The word is split into fields of PhysSize, NodeSize and LogicalSize     *)
(* values (2^36, 2^8 and 2^20 in the code).  An instance lives in an       *)
(* operating-system process, and the node IDs are handed out by a counter  *)
(* that is a global variable of that process.                              *)
(***************************************************************************)
EXTENDS Integers, Sequences

CONSTANTS
    Instances,      \* HLC instances
    Procs,          \* operating-system processes (metadata servers)
    Proc,           \* Proc[i]: the process that creates instance i
    PhysSize,       \* 2^(64 - hlcNodeIDBits - hlcLogicalBits)
    NodeSize,       \* 2^hlcNodeIDBits
    LogicalSize,    \* 2^hlcLogicalBits
    MaxMs,          \* bound: latest wall-clock reading
    MaxIssued       \* bound: timestamps per instance

ASSUME HLCAssumption ==
    /\ Proc \in [Instances -> Procs]
    /\ PhysSize \in Nat \ {0}
    /\ NodeSize \in Nat \ {0}
    /\ LogicalSize \in Nat \ {0}
    /\ MaxMs \in Nat
    /\ MaxIssued \in Nat

\* A value of Proc for TLC: every process has a clock, and if there are more
\* clocks than processes, one process has several.
SeveralServers ==
    CHOOSE f \in [Instances -> Procs] : \A p \in Procs : \E i \in Instances : f[i] = p

VARIABLES
    wall,           \* wall[p]: UnixMilli of the machine of process p
    hlcNodeCounter, \* hlcNodeCounter[p]: the package variable, per process
    live,           \* the instances created so far
    nodeID,         \* HLC.nodeID
    lastPhysical,   \* HLC.lastPhysical
    logical,        \* HLC.logical
    waiting,        \* instances whose Now() spins, holding HLC.mu
    issued          \* issued[i]: the words returned so far, in order, each with
                    \* the millisecond it was composed from (history)

vars == <<wall, hlcNodeCounter, live, nodeID, lastPhysical, logical, waiting, issued>>

-----------------------------------------------------------------------------
\* Mutant of Stamp: the node ID is left out of the word.
StampNoNode(ms, id, l) == ((ms % PhysSize) * NodeSize) * LogicalSize + l

\* (lastPhysical << 28) | (nodeID << 20) | logical, in one word: the shift
\* drops the bits of lastPhysical above its field.
Stamp(ms, id, l) == ((ms % PhysSize) * NodeSize + id) * LogicalSize + l

Init ==
    /\ wall \in [Procs -> 0..MaxMs]
    /\ hlcNodeCounter = [p \in Procs |-> 0]
    /\ live = {}
    /\ nodeID = [i \in Instances |-> 0]
    /\ lastPhysical = [i \in Instances |-> 0]
    /\ logical = [i \in Instances |-> 0]
    /\ waiting = {}
    /\ issued = [i \in Instances |-> << >>]

\* The machine's clock moves on or is set back.
SetClock(p, ms) ==
    /\ ms # wall[p]
    /\ wall' = [wall EXCEPT ![p] = ms]
    /\ UNCHANGED <<hlcNodeCounter, live, nodeID, lastPhysical, logical, waiting, issued>>

NewHLCWithClock(i) ==
    /\ i \notin live
    /\ live' = live \cup {i}
    /\ hlcNodeCounter' = [hlcNodeCounter EXCEPT ![Proc[i]] = @ + 1]
    /\ nodeID' = [nodeID EXCEPT ![i] = hlcNodeCounter'[Proc[i]] % NodeSize]
    /\ UNCHANGED <<wall, lastPhysical, logical, waiting, issued>>

\* Now() may be called: the instance exists and its mutex is free.
CanCall(i) == i \in live /\ i \notin waiting /\ Len(issued[i]) < MaxIssued

Issue(i) ==
    issued' = [issued EXCEPT ![i] =
                 Append(@, [ts |-> Stamp(lastPhysical'[i], nodeID[i], logical'[i]),
                            ms |-> lastPhysical'[i]])]

\* Now(), the clock has moved past lastPhysical.
NowForward(i) ==
    /\ CanCall(i)
    /\ wall[Proc[i]] > lastPhysical[i]
    /\ lastPhysical' = [lastPhysical EXCEPT ![i] = wall[Proc[i]]]
    /\ logical' = [logical EXCEPT ![i] = 0]
    /\ Issue(i)
    /\ UNCHANGED <<wall, hlcNodeCounter, live, nodeID, waiting>>

\* Mutant of NowSame: the counter is not incremented.
NowSameNoIncrement(i) ==
    /\ CanCall(i)
    /\ wall[Proc[i]] <= lastPhysical[i]
    /\ logical[i] + 1 < LogicalSize
    /\ UNCHANGED logical
    /\ UNCHANGED lastPhysical
    /\ Issue(i)
    /\ UNCHANGED <<wall, hlcNodeCounter, live, nodeID, waiting>>

\* Now(), same millisecond or the clock went backward.
NowSame(i) ==
    /\ CanCall(i)
    /\ wall[Proc[i]] <= lastPhysical[i]
    /\ logical[i] + 1 < LogicalSize
    /\ logical' = [logical EXCEPT ![i] = @ + 1]
    /\ UNCHANGED lastPhysical
    /\ Issue(i)
    /\ UNCHANGED <<wall, hlcNodeCounter, live, nodeID, waiting>>

\* Mutant of NowOverflow: the caller returns instead of waiting.
NowOverflowNoWait(i) ==
    /\ CanCall(i)
    /\ wall[Proc[i]] <= lastPhysical[i]
    /\ logical[i] + 1 >= LogicalSize
    /\ logical' = [logical EXCEPT ![i] = @ + 1]
    /\ UNCHANGED <<wall, hlcNodeCounter, live, nodeID, lastPhysical, waiting>>
    /\ Issue(i)

\* Now(), the logical counter is exhausted: it is left one past its field and
\* the caller spins, with the mutex held.
NowOverflow(i) ==
    /\ CanCall(i)
    /\ wall[Proc[i]] <= lastPhysical[i]
    /\ logical[i] + 1 >= LogicalSize
    /\ logical' = [logical EXCEPT ![i] = @ + 1]
    /\ waiting' = waiting \cup {i}
    /\ UNCHANGED <<wall, hlcNodeCounter, live, nodeID, lastPhysical, issued>>

\* The spinning Now() sees a later millisecond and returns.
NowResume(i) ==
    /\ i \in waiting
    /\ wall[Proc[i]] > lastPhysical[i]
    /\ lastPhysical' = [lastPhysical EXCEPT ![i] = wall[Proc[i]]]
    /\ logical' = [logical EXCEPT ![i] = 0]
    /\ waiting' = waiting \ {i}
    /\ Issue(i)
    /\ UNCHANGED <<wall, hlcNodeCounter, live, nodeID>>

Now(i) == NowForward(i) \/ NowSame(i) \/ NowOverflow(i) \/ NowResume(i)

Next ==
    \/ \E p \in Procs, ms \in 0..MaxMs : SetClock(p, ms)
    \/ \E i \in Instances : NewHLCWithClock(i) \/ Now(i)

Spec == Init /\ [][Next]_vars

-----------------------------------------------------------------------------
\* Type correctness.  Only while Now() spins is logical one past its field.
TypeOK ==
    /\ wall \in [Procs -> 0..MaxMs]
    /\ hlcNodeCounter \in [Procs -> Nat]
    /\ live \subseteq Instances
    /\ nodeID \in [Instances -> 0..(NodeSize - 1)]
    /\ lastPhysical \in [Instances -> 0..MaxMs]
    /\ logical \in [Instances -> 0..LogicalSize]
    /\ \A i \in Instances : logical[i] = LogicalSize => i \in waiting
    /\ waiting \subseteq live
    /\ issued \in [Instances -> Seq([ts : Nat, ms : 0..MaxMs])]

\* The wrap-around period a millisecond is in: 2^36 ms, 2.2 years, in the code.
Period(ms) == ms \div PhysSize

\* Two timestamps of one instance are issued in increasing order of (period,
\* word), however the clock was set back in between: Now never goes back to an
\* earlier period and within a period its words increase.  This is what is left
\* of hlc.go:27, "monotonically increasing within a single server": when the
\* clock passes into the next period the shift at hlc.go:129 drops the carry and
\* the words start over.
MonotonicInPeriod ==
    \A i \in Instances : \A j, k \in 1..Len(issued[i]) :
        j < k =>
            /\ Period(issued[i][j].ms) <= Period(issued[i][k].ms)
            /\ Period(issued[i][j].ms) = Period(issued[i][k].ms) =>
                  issued[i][j].ts < issued[i][k].ts

\* Two instances of one process never return the same word, in any two periods,
\* until the process has made more instances than there are node IDs.  This is
\* what is left of hlc.go:28, "globally unique across multiple servers": the
\* counter of hlc.go:63 is per process, so instances of two servers are given
\* the same node ID and may return the same word.
UniqueInServer ==
    \A i1, i2 \in Instances :
        /\ i1 # i2
        /\ Proc[i1] = Proc[i2]
        /\ hlcNodeCounter[Proc[i1]] <= NodeSize
        => \A j \in 1..Len(issued[i1]), k \in 1..Len(issued[i2]) :
              issued[i1][j].ts # issued[i2][k].ts
=============================================================================
