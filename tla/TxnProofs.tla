----------------------------- MODULE TxnProofs -----------------------------
(***************************************************************************)
(* Proofs about distributed transactions.  TypeCorrect holds as it is; the *)
(* others are about executions in which a transaction's own requests reach *)
(* the coordinator before its record is five minutes old (Prompt).         *)
(***************************************************************************)
EXTENDS Txn, TLAPS

-----------------------------------------------------------------------------
(***************************************************************************)
(* The inductive invariant.  Whatever could lead to a commit of t anywhere *)
(* excludes whatever could lead to an abort, and no replica's record       *)
(* disagrees with a decision that someone may act on.                      *)
(***************************************************************************)

\* A request op of t is in flight.
Sent(op, t) == \E q \in net : q.txn = t /\ q.op = op

SentCommitted(t) == \E q \in net : q.txn = t /\ q.op = "resolve" /\ q.status = Committed
SentAborted(t)   == \E q \in net : q.txn = t /\ q.op = "resolve" /\ q.status # Committed

\* The orchestrator of t has been answered.
Acked(op, t) == \E p \in replies : p.req.txn = t /\ p.req.op = op /\ p.ok

\* Someone acts, or has acted, on the decision to commit t ...
CommitDecided(t) ==
    \/ result[t] \in {"synced", "committed"} \/ pc[t] = "resolve"
    \/ Acked("commit", t) \/ SentCommitted(t) \/ Has(t, "applied")
    \/ \E r \in Replicas : rec[t][r].status = Committed
    \/ \E r \in Replicas : scan[t][r] # NoScan /\ scan[t][r].status = Committed

\* ... or to abort it.
AbortDecided(t) ==
    \/ SentAborted(t) \/ Has(t, "dropped")
    \/ \E r \in Replicas : rec[t][r].status = Aborted
    \/ \E r \in Replicas : scan[t][r] # NoScan /\ scan[t][r].status # Committed

\* The decision has been asked for, or the client has been told.
CommitSide(t) == CommitDecided(t) \/ pc[t] = "commit" \/ Sent("commit", t)
AbortSide(t)  == AbortDecided(t) \/ pc[t] = "abort" \/ result[t] = "failed" \/ Sent("abort", t)

\* No record of t exists and nothing that is under way can make it be decided.
Clean(t) ==
    /\ ~CommitSide(t) /\ ~AbortDecided(t) /\ ~Sent("abort", t) /\ ~Acked("init", t)
    /\ \A r \in Replicas : rec[t][r] = NoRec

Exclusive(t) == ~(CommitSide(t) /\ AbortSide(t))

RecordsAgree(t) ==
    \A r \in Replicas :
        /\ CommitDecided(t) => rec[t][r].status \in {Committed, "none"}
        /\ AbortDecided(t) => rec[t][r].status \in {Aborted, "none"}

Undecided(t) ==
    pc[t] \in {"idle", "init", "intents"} => ~CommitSide(t) /\ ~AbortSide(t)

Fresh(t) ==
    /\ pc[t] = "idle" \/ Sent("init", t) => Clean(t)
    /\ Sent("init", t) => pc[t] \in {"init", "done"}

\* Who sends what: one init request per transaction, and only the orchestrator
\* asks for a commit.
Origin(t) ==
    \A q \in net : q.txn = t =>
        /\ q.op = "init" => q = Req("init", t, coord[t], "orch")
        /\ q.op = "commit" => q.src = "orch"

OldQuiet(t) == t \in old => Quiet(t)

TxnInv(t) ==
    /\ Exclusive(t) /\ RecordsAgree(t) /\ Undecided(t)
    /\ Fresh(t) /\ Origin(t) /\ OldQuiet(t)

\* A transaction that has started, or is being scanned, has a coordinator.
HasCoord ==
    \A t \in Txns :
        /\ pc[t] # "idle" => coord[t] \in Shards
        /\ \A r \in Replicas : scan[t][r] # NoScan => coord[t] \in Shards

IInv == TypeOK /\ HasCoord /\ \A t \in Txns : TxnInv(t)

TInv == TypeOK /\ HasCoord

-----------------------------------------------------------------------------
(***************************************************************************)
(* Type correctness.                                                       *)
(***************************************************************************)

\* collectShards returns shards.
LEMMA CollectShards == ASSUME NEW t \in Txns PROVE collectShards(t) \subseteq Shards
  BY TxnAssumption DEF collectShards

\* The requests the code sends are requests.
LEMMA ReqType ==
  ASSUME NEW op \in {"init", "intent", "commit", "abort", "resolve"}, NEW t \in Txns,
         NEW s \in Shards, NEW src \in Sources
  PROVE  Req(op, t, s, src) \in Requests
  BY TxnAssumption DEF Req, Requests

\* So are the notifications of a decision.
LEMMA ResolveReqType ==
  ASSUME NEW t \in Txns, NEW s \in Shards, NEW src \in Sources,
         NEW status \in {"none", Committed, Aborted}, NEW cv \in 0..MaxTs
  PROVE  ResolveReq(t, s, src, status, cv) \in Requests
  BY DEF ResolveReq, Requests

\* Sending a reply keeps the set of replies well-typed.
LEMMA ReplyType ==
  ASSUME replies \subseteq Replies, NEW q \in Requests, NEW ok \in BOOLEAN,
         NEW cv \in 0..MaxTs, Reply(q, ok, cv)
  PROVE  replies' \subseteq Replies
  BY DEF Reply, Replies

\* Initially.
LEMMA TInvInit == Init => TInv
  <1> SUFFICES ASSUME Init PROVE TInv
    OBVIOUS
  <1>1. TypeOK
    BY TxnAssumption DEF Init, TypeOK, Phases, Results, Records, Scans, NoRec, NoScan,
       Pending, Committed, Aborted
  <1>2. HasCoord
    BY DEF Init, HasCoord
  <1> QED
    BY <1>1, <1>2 DEF TInv

\* The orchestrator goes from one phase to the next.
LEMMA ProceedType ==
  ASSUME TInv, NEW t \in Txns, pc[t] # "idle", NEW p \in Phases \ {"idle"},
         NEW Q \in SUBSET Requests, Proceed(t, p, Q),
         result' \in [Txns -> Results]
  PROVE  TInv'
  <1>1. pc' \in [Txns -> Phases]
    BY DEF TInv, TypeOK, Proceed
  <1>2. net' \subseteq Requests /\ replies' \subseteq Replies
    BY DEF TInv, TypeOK, Proceed, OtherReplies
  <1>3. UNCHANGED <<ts, coord, expect, rec, old, finOld, scan, leader, intents, val, effect>>
    BY DEF Proceed, recVars, dataVars
  <1>4. HasCoord'
    BY <1>3 DEF TInv, TypeOK, HasCoord, Proceed
  <1> QED
    BY <1>1, <1>2, <1>3, <1>4 DEF TInv, TypeOK

\* The steps of the orchestrator.
LEMMA OrchestratorType ==
  ASSUME TInv, NEW t \in Txns, Orchestrator(t) PROVE TInv'
  <1> USE DEF TInv
  <1>0. collectShards(t) \subseteq Shards /\ "orch" \in Sources
    BY CollectShards DEF Sources
  <1>1. ASSUME NEW n \in 1..MaxTs, NEW c \in collectShards(t), Begin(t, n, c)
        PROVE  TInv'
    <2>1. pc' \in [Txns -> Phases] /\ ts' \in [Txns -> 0..MaxTs]
      BY <1>1, TxnAssumption DEF Begin, TypeOK, Phases
    <2>2. coord' \in [Txns -> Shards \cup {None}] /\ c \in Shards
      BY <1>0, <1>1 DEF Begin, TypeOK
    <2>3. expect' \in [Txns -> [Keys -> 0..MaxTs]]
      BY <1>1 DEF Begin, TypeOK
    <2>4. net' \subseteq Requests
      BY <1>0, <1>1, <2>2, ReqType DEF Begin, TypeOK
    <2>5. UNCHANGED <<result, replies, rec, old, finOld, scan, leader, intents, val, effect>>
      BY <1>1 DEF Begin, recVars, dataVars
    <2>6. HasCoord'
      BY <1>1, <2>2, <2>5 DEF Begin, HasCoord, TypeOK
    <2> QED
      BY <2>1, <2>2, <2>3, <2>4, <2>5, <2>6 DEF TypeOK
  <1>2. CASE writeIntents(t)
    <2>1. {Req("intent", t, s, "orch") : s \in collectShards(t)} \subseteq Requests
      BY <1>0, ReqType
    <2> QED
      BY <1>2, <2>1, ProceedType DEF writeIntents, Phases, TypeOK
  <1>3. CASE commitTransaction(t) \/ abortTransaction(t)
    <2>1. coord[t] \in Shards
      BY <1>3 DEF commitTransaction, abortTransaction, HasCoord
    <2>2. {Req("commit", t, coord[t], "orch")} \subseteq Requests
          /\ {Req("abort", t, coord[t], "orch")} \subseteq Requests
      BY <1>0, <2>1, ReqType
    <2>3. CASE commitTransaction(t)
      <3>1. pc[t] # "idle" /\ result' \in [Txns -> Results]
            /\ Proceed(t, "commit", {Req("commit", t, coord[t], "orch")})
        BY <2>3 DEF commitTransaction, TypeOK
      <3>2. {Req("commit", t, coord[t], "orch")} \in SUBSET Requests
            /\ "commit" \in Phases \ {"idle"}
        BY <2>2 DEF Phases
      <3> QED
        BY <3>1, <3>2, ProceedType
    <2>4. CASE abortTransaction(t)
      <3>1. pc[t] # "idle" /\ result' \in [Txns -> Results]
            /\ Proceed(t, "abort", {Req("abort", t, coord[t], "orch")})
        BY <2>4 DEF abortTransaction, TypeOK
      <3>2. {Req("abort", t, coord[t], "orch")} \in SUBSET Requests
            /\ "abort" \in Phases \ {"idle"}
        BY <2>2 DEF Phases
      <3> QED
        BY <3>1, <3>2, ProceedType
    <2> QED
      BY <1>3, <2>3, <2>4
  <1>4. CASE notifyParticipantsSync(t) \/ notifyParticipantsAsync(t)
    <2>1. \A p \in CommitReplies(t) : p.cv \in 0..MaxTs
      BY DEF CommitReplies, TypeOK, Replies
    <2>2. \A p \in CommitReplies(t), s \in Shards :
             ResolveReq(t, s, "orch", Committed, p.cv) \in Requests
      BY <1>0, <2>1, ResolveReqType
    <2>3. participants(t) \subseteq Shards
      BY <1>0 DEF participants
    <2>4. CASE notifyParticipantsSync(t)
      <3>1. PICK p \in CommitReplies(t) :
               Proceed(t, "resolve",
                       {ResolveReq(t, s, "orch", Committed, p.cv) : s \in collectShards(t)})
        BY <2>4 DEF notifyParticipantsSync
      <3>2. {ResolveReq(t, s, "orch", Committed, p.cv) : s \in collectShards(t)}
               \subseteq Requests
        BY <1>0, <2>2
      <3> QED
        BY <2>4, <3>1, <3>2, ProceedType DEF notifyParticipantsSync, Phases, TypeOK
    <2>5. CASE notifyParticipantsAsync(t)
      <3>1. PICK p \in CommitReplies(t) :
               Proceed(t, "done",
                       {ResolveReq(t, s, "orch", Committed, p.cv) : s \in participants(t)})
        BY <2>5 DEF notifyParticipantsAsync
      <3>2. {ResolveReq(t, s, "orch", Committed, p.cv) : s \in participants(t)}
               \subseteq Requests
        BY <2>2, <2>3
      <3>3. result' \in [Txns -> Results]
        BY <2>5 DEF notifyParticipantsAsync, Return, TypeOK, Results
      <3> QED
        BY <2>5, <3>1, <3>2, <3>3, ProceedType DEF notifyParticipantsAsync, Phases
    <2> QED
      BY <1>4, <2>4, <2>5
  <1>5. CASE initFailed(t) \/ abortReturned(t) \/ commitFailed(t) \/ resolveReturned(t)
             \/ resolveFailed(t) \/ Crash(t)
    <2>1. pc[t] # "idle" /\ Proceed(t, "done", {}) /\ result' \in [Txns -> Results]
      BY <1>5 DEF initFailed, abortReturned, commitFailed, resolveReturned, resolveFailed,
         Crash, Return, TypeOK, Results
    <2> QED
      BY <2>1, ProceedType DEF Phases
  <1> QED
    BY <1>1, <1>2, <1>3, <1>4, <1>5 DEF Orchestrator

\* The steps of the shards.
LEMMA ApplyType == ASSUME TInv, NEW q \in net, Apply(q) PROVE TInv'
  <1> USE DEF TInv
  <1>1. q \in Requests /\ q.txn \in Txns /\ q.shard \in Shards /\ q.cv \in 0..MaxTs
        /\ Version(q.txn) \in 0..MaxTs /\ leader[q.shard] \in Replicas
        /\ "self" \in Sources
    BY DEF TypeOK, Requests, Version, Sources
  <1>2. 0 \in 0..MaxTs
    BY TxnAssumption
  <1>3. replies' \subseteq Replies
    <2>1. \E ok \in BOOLEAN, cv \in 0..MaxTs : Reply(q, ok, cv)
      BY <1>1, <1>2 DEF Apply, InitTransaction, WriteIntent, CommitTransaction,
         AbortTransaction, ResolveIntents
    <2> QED
      BY <1>1, <2>1, ReplyType DEF TypeOK
  <1>4. \A status \in {Committed, Aborted}, cv \in 0..MaxTs :
           asyncResolveIntents(q, status, cv) \subseteq Requests
    BY <1>1, ResolveReqType DEF asyncResolveIntents
  <1>5. \A status \in {Committed, Aborted} : finalizeTransaction(q.txn, status) =>
           rec' \in [Txns -> [Replicas -> Records]] /\ finOld' \subseteq Txns
    <2> SUFFICES ASSUME NEW status \in {Committed, Aborted}, finalizeTransaction(q.txn, status)
                 PROVE  rec' \in [Txns -> [Replicas -> Records]] /\ finOld' \subseteq Txns
      OBVIOUS
    <2>1. NoRec \in Records
      BY DEF NoRec, Records
    <2>2. \A x \in Records : [x EXCEPT !.status = status] \in Records
      BY DEF Records
    <2> QED
      BY <1>1, <2>1, <2>2 DEF finalizeTransaction, TypeOK
  <1>6. CASE InitTransaction(q)
    <2>1. rec' \in [Txns -> [Replicas -> Records]] /\ old' \subseteq Txns /\ net' \subseteq Requests
      BY <1>1, <1>6 DEF InitTransaction, TypeOK, Records
    <2>2. UNCHANGED <<pc, ts, coord, expect, result, finOld, scan, leader, intents, val, effect>>
      BY <1>6 DEF InitTransaction, orchVars, dataVars
    <2> QED
      BY <1>3, <2>1, <2>2 DEF TypeOK, HasCoord
  <1>7. CASE WriteIntent(q)
    <2>1. net' \subseteq Requests /\ intents' \subseteq Txns \X Keys
      BY <1>1, <1>7, TxnAssumption DEF WriteIntent, TypeOK, IntentKeys
    <2>2. UNCHANGED <<pc, ts, coord, expect, result, rec, old, finOld, scan, leader, val, effect>>
      BY <1>7 DEF WriteIntent, orchVars, recVars
    <2> QED
      BY <1>3, <2>1, <2>2 DEF TypeOK, HasCoord
  <1>8. CASE CommitTransaction(q)
    <2>1. net' \subseteq Requests
      BY <1>1, <1>4, <1>8 DEF CommitTransaction, TypeOK
    <2>2. rec' \in [Txns -> [Replicas -> Records]] /\ finOld' \subseteq Txns
      BY <1>5, <1>8 DEF CommitTransaction
    <2>3. UNCHANGED <<pc, ts, coord, expect, result, old, scan, leader, intents, val, effect>>
      BY <1>8 DEF CommitTransaction, orchVars, dataVars
    <2> QED
      BY <1>3, <2>1, <2>2, <2>3 DEF TypeOK, HasCoord
  <1>9. CASE AbortTransaction(q)
    <2>1. net' \subseteq Requests
      BY <1>2, <1>4, <1>9 DEF AbortTransaction, TypeOK
    <2>2. rec' \in [Txns -> [Replicas -> Records]] /\ finOld' \subseteq Txns
      BY <1>5, <1>9 DEF AbortTransaction
    <2>3. UNCHANGED <<pc, ts, coord, expect, result, old, scan, leader, intents, val, effect>>
      BY <1>9 DEF AbortTransaction, orchVars, dataVars
    <2> QED
      BY <1>3, <2>1, <2>2, <2>3 DEF TypeOK, HasCoord
  <1>10. CASE ResolveIntents(q)
    <2>1. net' \subseteq Requests /\ intents' \subseteq Txns \X Keys
      BY <1>10 DEF ResolveIntents, TypeOK
    <2>2. val' \in [Keys -> [ts : 0..MaxTs, by : Txns \cup {None, Earlier}]]
      BY <1>1, <1>2, <1>10 DEF ResolveIntents, TypeOK
    <2>3. effect' \subseteq Txns \X Shards \X {"applied", "dropped"}
      BY <1>1, <1>10 DEF ResolveIntents, TypeOK
    <2>4. UNCHANGED <<pc, ts, coord, expect, result, rec, old, finOld, scan, leader>>
      BY <1>10 DEF ResolveIntents, orchVars, recVars
    <2> QED
      BY <1>3, <2>1, <2>2, <2>3, <2>4 DEF TypeOK, HasCoord
  <1> QED
    BY <1>6, <1>7, <1>8, <1>9, <1>10 DEF Apply

\* The steps of the recovery loop.
LEMMA RecoveryType ==
  ASSUME TInv, NEW t \in Txns, NEW r \in Replicas, Recovery(t, r) \/ recoverStop(t, r)
  PROVE  TInv'
  <1> USE DEF TInv
  <1>1. Version(t) \in 0..MaxTs /\ "self" \in Sources /\ r \in Sources
    BY DEF TypeOK, Version, Sources
  <1>2. CanScan(t, r) => coord[t] \in Shards
    BY DEF CanScan, TypeOK
  <1>3. CASE recoverAbort(t, r)
    <2>1. net' \subseteq Requests
      BY <1>1, <1>2, <1>3, ReqType DEF recoverAbort, TypeOK
    <2> QED
      BY <1>3, <2>1 DEF recoverAbort, TypeOK, HasCoord, orchVars, recVars, dataVars
  <1>4. CASE recoverDelete(t, r)
    <2>1. rec' \in [Txns -> [Replicas -> Records]]
      BY <1>4 DEF recoverDelete, TypeOK, Records, NoRec
    <2> QED
      BY <1>4, <2>1 DEF recoverDelete, TypeOK, HasCoord, orchVars, dataVars
  <1>5. CASE recoverNotify(t, r)
    <2> DEFINE todo == participants(t) \ rec[t][r].resolved
    <2>1. todo \subseteq Shards
      BY CollectShards DEF participants
    <2>2. rec[t][r].status \in {Committed, Aborted} /\ rec[t][r].resolved \subseteq Shards
      BY <1>5 DEF recoverNotify, Finalized, TypeOK, Records
    <2>3. net' \subseteq Requests
      <3>1. \A s \in todo : ResolveReq(t, s, r, rec[t][r].status, Version(t)) \in Requests
        BY <1>1, <2>1, <2>2, ResolveReqType
      <3> QED
        BY <1>5, <3>1 DEF recoverNotify, TypeOK
    <2>4. scan' \in [Txns -> [Replicas -> Scans]]
      BY <1>5, <2>1, <2>2 DEF recoverNotify, TypeOK, Scans
    <2>5. UNCHANGED <<pc, ts, coord, expect, result, replies, rec, old, finOld, leader,
                      intents, val, effect>>
      BY <1>5 DEF recoverNotify, orchVars, dataVars
    <2>6. HasCoord'
      BY <1>2, <1>5, <2>5 DEF recoverNotify, HasCoord, TypeOK
    <2> QED
      BY <2>3, <2>4, <2>5, <2>6 DEF TypeOK
  <1>6. ASSUME NEW s \in Shards, recoverNotified(t, r, s)
        PROVE  TInv'
    <2>1. scan' \in [Txns -> [Replicas -> Scans]]
      <3>1. PICK ok \in BOOLEAN : scan' = [scan EXCEPT ![t][r] = Answered(@, s, ok)]
        BY <1>6 DEF recoverNotified
      <3>2. \A x \in Scans : Answered(x, s, ok) \in Scans
        <4> SUFFICES ASSUME NEW x \in Scans PROVE Answered(x, s, ok) \in Scans
          OBVIOUS
        <4>1. x.todo \ {s} \in SUBSET Shards /\ x.done \cup {s} \in SUBSET Shards
              /\ x.done \in SUBSET Shards
          BY DEF Scans
        <4>2. (IF ok THEN x.done \cup {s} ELSE x.done) \in SUBSET Shards
          BY <4>1
        <4> QED
          BY <4>1, <4>2 DEF Scans, Answered
      <3> QED
        BY <3>1, <3>2 DEF TypeOK
    <2>2. replies' \subseteq Replies
      BY <1>6 DEF recoverNotified, TypeOK
    <2>3. UNCHANGED <<pc, ts, coord, expect, result, net, rec, old, finOld, leader,
                      intents, val, effect>>
      BY <1>6 DEF recoverNotified, orchVars, dataVars
    <2>4. HasCoord'
      <3>1. coord[t] \in Shards
        BY <1>6 DEF recoverNotified, HasCoord, NoScan
      <3> QED
        BY <1>6, <2>3, <3>1 DEF recoverNotified, HasCoord, TypeOK
    <2> QED
      BY <2>1, <2>2, <2>3, <2>4 DEF TypeOK
  <1>7. CASE recoverSave(t, r)
    <2>1. coord[t] \in Shards /\ scan[t][r] \in Scans
      BY <1>7 DEF recoverSave, HasCoord, TypeOK
    <2>2. rec' \in [Txns -> [Replicas -> Records]]
      BY <1>7, <2>1 DEF recoverSave, TypeOK, Records, Scans
    <2>3. net' \subseteq Requests
      BY <1>1, <1>7, <2>1, ResolveReqType DEF recoverSave, TypeOK, Scans
    <2>4. scan' \in [Txns -> [Replicas -> Scans]]
      BY <1>7 DEF recoverSave, TypeOK, Scans, NoScan
    <2>5. UNCHANGED <<pc, ts, coord, expect, result, replies, old, finOld, leader,
                      intents, val, effect>>
      BY <1>7 DEF recoverSave, orchVars, dataVars
    <2>6. HasCoord'
      BY <1>7, <2>5 DEF recoverSave, HasCoord, TypeOK
    <2> QED
      BY <2>2, <2>3, <2>4, <2>5, <2>6 DEF TypeOK
  <1>8. CASE recoverStop(t, r)
    <2>1. scan' \in [Txns -> [Replicas -> Scans]]
      BY <1>8 DEF recoverStop, TypeOK, Scans, NoScan
    <2>2. replies' \subseteq Replies
      BY <1>8 DEF recoverStop, TypeOK
    <2>3. UNCHANGED <<pc, ts, coord, expect, result, net, rec, old, finOld, leader,
                      intents, val, effect>>
      BY <1>8 DEF recoverStop, orchVars, dataVars
    <2>4. HasCoord'
      BY <1>8, <2>3 DEF recoverStop, HasCoord, TypeOK
    <2> QED
      BY <2>1, <2>2, <2>3, <2>4 DEF TypeOK
  <1> QED
    BY <1>3, <1>4, <1>5, <1>6, <1>7, <1>8 DEF Recovery

\* All steps.
LEMMA TInvStep == TInv /\ [Next]_vars => TInv'
  <1> SUFFICES ASSUME TInv, [Next]_vars PROVE TInv'
    OBVIOUS
  <1> USE DEF TInv
  <1>1. ASSUME NEW q \in net, Lose(q) PROVE TInv'
    BY <1>1 DEF Lose, TypeOK, HasCoord, orchVars, recVars, dataVars
  <1>2. ASSUME NEW t \in Txns, PassCreated(t) \/ PassFinalized(t) PROVE TInv'
    BY <1>2 DEF PassCreated, PassFinalized, TypeOK, HasCoord, orchVars, dataVars
  <1>3. ASSUME NEW s \in Shards, NEW r \in Replicas, ChangeLeader(s, r) PROVE TInv'
    BY <1>3 DEF ChangeLeader, TypeOK, HasCoord, orchVars, dataVars
  <1>4. CASE UNCHANGED vars
    BY <1>4 DEF vars, TypeOK, HasCoord, orchVars, recVars, dataVars
  <1> QED
    BY <1>1, <1>2, <1>3, <1>4, OrchestratorType, ApplyType, RecoveryType
    DEF Next, Environment

\* Type correctness of the orchestrator, the recovery loop and the shards, for
\* every number of shards, keys, transactions and replicas.
THEOREM TypeCorrect == Spec => []TypeOK
  <1>1. TInv => TypeOK
    BY DEF TInv
  <1> QED
    BY <1>1, TInvInit, TInvStep, PTL DEF Spec

-----------------------------------------------------------------------------
(***************************************************************************)
(* Steps that decide nothing about a transaction.                          *)
(***************************************************************************)

\* The step adds nothing about u that TxnInv(u) looks at.
Kept(u) ==
    /\ pc'[u] = pc[u] /\ result'[u] = result[u] /\ coord'[u] = coord[u]
    /\ u \in old' => u \in old
    /\ \A q \in net' : q.txn = u /\ q.op # "resolve" => q \in net
    /\ CommitDecided(u)' => CommitDecided(u)
    /\ AbortDecided(u)' => AbortDecided(u)
    /\ Acked("init", u)' => Acked("init", u)
    /\ \A r \in Replicas : rec'[u][r] \in {rec[u][r], NoRec}

\* Such a step preserves the invariant of u.
LEMMA KeptInv == ASSUME NEW u \in Txns, TxnInv(u), Kept(u) PROVE TxnInv(u)'
  <1>1. \A op \in {"init", "commit", "abort"} : Sent(op, u)' => Sent(op, u)
    BY DEF Sent, Kept
  <1>2. (CommitSide(u)' => CommitSide(u)) /\ (AbortSide(u)' => AbortSide(u))
    BY <1>1 DEF CommitSide, AbortSide, Kept
  <1>3. Clean(u) => Clean(u)'
    BY <1>1, <1>2 DEF Clean, Kept
  <1>4. Exclusive(u)' /\ Undecided(u)'
    BY <1>2 DEF TxnInv, Exclusive, Undecided, Kept
  <1>5. RecordsAgree(u)'
    BY DEF TxnInv, RecordsAgree, Kept, NoRec
  <1>6. Fresh(u)'
    BY <1>1, <1>3 DEF TxnInv, Fresh, Kept
  <1>7. Origin(u)'
    BY DEF TxnInv, Origin, Kept, Req
  <1>8. OldQuiet(u)'
    BY DEF TxnInv, OldQuiet, Quiet, Kept
  <1> QED
    BY <1>4, <1>5, <1>6, <1>7, <1>8 DEF TxnInv

\* The step adds no request, reply, effect or record of u.
Frame(u) ==
    /\ pc'[u] = pc[u] /\ result'[u] = result[u] /\ coord'[u] = coord[u]
    /\ u \in old' => u \in old
    /\ \A q \in net' : q.txn = u => q \in net
    /\ \A p \in replies' : p.req.txn = u /\ p.req.op \in {"init", "commit"} => p \in replies
    /\ \A x \in effect' : x[1] = u => x \in effect
    /\ \A r \in Replicas :
          /\ rec'[u][r] \in {rec[u][r], NoRec}
          /\ scan'[u][r] # NoScan =>
                scan[u][r] # NoScan /\ scan'[u][r].status = scan[u][r].status

\* Then nothing new is decided about u.
LEMMA FrameKept == ASSUME NEW u \in Txns, Frame(u) PROVE Kept(u)
  <1>1. \A e : Has(u, e)' => Has(u, e)
    BY DEF Has, Frame
  <1>2. (SentCommitted(u)' => SentCommitted(u)) /\ (SentAborted(u)' => SentAborted(u))
    BY DEF SentCommitted, SentAborted, Frame
  <1>3. \A op \in {"init", "commit"} : Acked(op, u)' => Acked(op, u)
    BY DEF Acked, Frame
  <1>4. \A r \in Replicas : rec'[u][r].status \in {Committed, Aborted} =>
           rec'[u][r] = rec[u][r]
    BY DEF Frame, NoRec, Committed, Aborted
  <1>5. CommitDecided(u)' => CommitDecided(u)
    BY <1>1, <1>2, <1>3, <1>4 DEF CommitDecided, Frame
  <1>6. AbortDecided(u)' => AbortDecided(u)
    BY <1>1, <1>2, <1>4 DEF AbortDecided, Frame
  <1> QED
    BY <1>3, <1>5, <1>6 DEF Kept, Frame

\* So it preserves the invariant of u.
LEMMA FrameInv == ASSUME NEW u \in Txns, TxnInv(u), Frame(u) PROVE TxnInv(u)'
  BY FrameKept, KeptInv

-----------------------------------------------------------------------------
(***************************************************************************)
(* The orchestrator preserves the invariant.                               *)
(***************************************************************************)

\* What a change of phase with new requests Q can add about t.
LEMMA ProceedSelf ==
  ASSUME TInv, NEW t \in Txns, NEW p, NEW Q, Proceed(t, p, Q), \A q \in Q : q.txn = t
  PROVE  /\ pc'[t] = p /\ coord' = coord /\ old' = old /\ rec' = rec /\ net' = net \cup Q
         /\ \A op : Sent(op, t)' => Sent(op, t) \/ \E q \in Q : q.op = op
         /\ \A op : Acked(op, t)' => Acked(op, t)
         /\ AbortDecided(t)' => AbortDecided(t) \/ \E q \in Q : q.op = "resolve" /\ q.status # Committed
         /\ CommitDecided(t)' => \/ CommitDecided(t) \/ p = "resolve"
                                 \/ result'[t] \in {"synced", "committed"}
                                 \/ \E q \in Q : q.op = "resolve"
  <1>1. pc'[t] = p /\ net' = net \cup Q
        /\ UNCHANGED <<coord, old, rec, scan, effect>>
    BY DEF Proceed, TInv, TypeOK, recVars, dataVars
  <1>2. \A op : Sent(op, t)' => Sent(op, t) \/ \E q \in Q : q.op = op
    BY <1>1 DEF Sent
  <1>3. \A op : Acked(op, t)' => Acked(op, t)
    BY DEF Acked, Proceed, OtherReplies
  <1>4. SentAborted(t)' => SentAborted(t) \/ \E q \in Q : q.op = "resolve" /\ q.status # Committed
    BY <1>1 DEF SentAborted
  <1>5. SentCommitted(t)' => SentCommitted(t) \/ \E q \in Q : q.op = "resolve"
    BY <1>1 DEF SentCommitted
  <1>6. \A e : Has(t, e)' <=> Has(t, e)
    BY <1>1 DEF Has
  <1> QED
    BY <1>1, <1>2, <1>3, <1>4, <1>5, <1>6 DEF AbortDecided, CommitDecided

\* It adds nothing about the other transactions.
LEMMA ProceedOther ==
  ASSUME TInv, NEW t \in Txns, NEW u \in Txns, u # t, NEW p, NEW Q, Proceed(t, p, Q),
         \A q \in Q : q.txn = t, result'[u] = result[u]
  PROVE  Frame(u)
  BY DEF Proceed, OtherReplies, TInv, TypeOK, Frame, recVars, dataVars

\* What the requests are for.
LEMMA ReqFields ==
  /\ \A op, t, s, src : Req(op, t, s, src).op = op /\ Req(op, t, s, src).txn = t
                          /\ Req(op, t, s, src).src = src
  /\ \A t, s, src, st, cv : ResolveReq(t, s, src, st, cv).op = "resolve"
                             /\ ResolveReq(t, s, src, st, cv).txn = t
                             /\ ResolveReq(t, s, src, st, cv).status = st
  BY DEF Req, ResolveReq

\* A phase that ends without new requests, on the side it was on.
LEMMA EndInv ==
  ASSUME TInv, NEW t \in Txns, TxnInv(t), pc[t] # "idle", Proceed(t, "done", {}),
         result'[t] \in {"synced", "committed"} => result[t] = result'[t] \/ pc[t] = "resolve",
         result'[t] = "failed" => result[t] = "failed" \/ pc[t] \in {"init", "abort"}
  PROVE  TxnInv(t)'
  <1>1. /\ pc'[t] = "done" /\ coord' = coord /\ old' = old /\ rec' = rec /\ net' = net
        /\ \A op : Sent(op, t)' => Sent(op, t)
        /\ \A op : Acked(op, t)' => Acked(op, t)
        /\ AbortDecided(t)' => AbortDecided(t)
        /\ CommitDecided(t)' => \/ CommitDecided(t) \/ result'[t] \in {"synced", "committed"}
    BY ProceedSelf, \A q \in {} : q.txn = t
  <1>2. CommitDecided(t)' => CommitDecided(t)
    BY <1>1 DEF CommitDecided
  <1>3. CommitSide(t)' => CommitSide(t)
    BY <1>1, <1>2 DEF CommitSide
  <1>4. AbortSide(t)' => AbortSide(t) \/ pc[t] = "init"
    BY <1>1 DEF AbortSide
  <1>5. Exclusive(t)' /\ Undecided(t)'
    BY <1>1, <1>3, <1>4 DEF TxnInv, Exclusive, Undecided
  <1>6. RecordsAgree(t)'
    BY <1>1, <1>2 DEF TxnInv, RecordsAgree
  <1>7. Clean(t) => Clean(t)'
    BY <1>1, <1>3 DEF Clean
  <1>8. Fresh(t)' /\ Origin(t)' /\ OldQuiet(t)'
    BY <1>1, <1>7 DEF TxnInv, Fresh, Origin, OldQuiet, Quiet
  <1> QED
    BY <1>5, <1>6, <1>8 DEF TxnInv

\* Begin: the transaction was idle, so nothing is known of it.
LEMMA BeginInv ==
  ASSUME TInv, NEW t \in Txns, TxnInv(t), NEW n, NEW c, Begin(t, n, c)
  PROVE  TxnInv(t)'
  <1> DEFINE i == Req("init", t, c, "orch")
  <1>1. /\ pc[t] = "idle" /\ pc'[t] = "init" /\ coord'[t] = c /\ net' = net \cup {i}
        /\ UNCHANGED <<result, replies, rec, old, scan, effect>>
    BY DEF Begin, TInv, TypeOK, recVars, dataVars
  <1>2. i.op = "init" /\ i.txn = t
    BY ReqFields
  <1>3. /\ (Sent("commit", t)' <=> Sent("commit", t)) /\ (Sent("abort", t)' <=> Sent("abort", t))
        /\ (SentCommitted(t)' <=> SentCommitted(t)) /\ (SentAborted(t)' <=> SentAborted(t))
    BY <1>1, <1>2 DEF Sent, SentCommitted, SentAborted
  <1>4. (\A op : Acked(op, t)' <=> Acked(op, t)) /\ (\A e : Has(t, e)' <=> Has(t, e))
    BY <1>1 DEF Acked, Has
  <1>5. (CommitDecided(t)' => CommitDecided(t)) /\ (AbortDecided(t)' => AbortDecided(t))
    BY <1>1, <1>3, <1>4 DEF CommitDecided, AbortDecided
  <1>6. (CommitSide(t)' => CommitSide(t)) /\ (AbortSide(t)' => AbortSide(t))
    BY <1>1, <1>3, <1>5 DEF CommitSide, AbortSide
  <1>7. Clean(t)
    BY <1>1 DEF TxnInv, Fresh
  <1>8. Clean(t)'
    BY <1>1, <1>3, <1>4, <1>5, <1>6, <1>7 DEF Clean
  <1>9. Exclusive(t)' /\ Undecided(t)' /\ RecordsAgree(t)'
    BY <1>1, <1>5, <1>6 DEF TxnInv, Exclusive, Undecided, RecordsAgree
  <1>10. Fresh(t)'
    BY <1>1, <1>8 DEF Fresh
  <1>11. ~Sent("init", t)
    BY <1>1 DEF TxnInv, Fresh
  <1>12. Origin(t)'
    BY <1>1, <1>2, <1>11 DEF TxnInv, Origin, Sent
  <1>13. OldQuiet(t)'
    BY <1>1 DEF TxnInv, OldQuiet, Quiet
  <1> QED
    BY <1>9, <1>10, <1>12, <1>13 DEF TxnInv

\* writeIntents: the init request has been answered, so it is not in flight.
LEMMA WriteIntentsInv ==
  ASSUME TInv, NEW t \in Txns, TxnInv(t), writeIntents(t) PROVE TxnInv(t)'
  <1> DEFINE Q == {Req("intent", t, s, "orch") : s \in collectShards(t)}
  <1>1. \A q \in Q : q.op = "intent" /\ q.txn = t
    BY ReqFields
  <1>2. Proceed(t, "intents", Q) /\ result' = result /\ pc[t] = "init"
    BY DEF writeIntents
  <1> HIDE DEF Q
  <1>3. /\ pc'[t] = "intents" /\ coord' = coord /\ old' = old /\ rec' = rec /\ net' = net \cup Q
        /\ \A op \in {"init", "commit", "abort"} : Sent(op, t)' => Sent(op, t)
        /\ AbortDecided(t)' => AbortDecided(t)
        /\ CommitDecided(t)' => CommitDecided(t)
    BY <1>1, <1>2, ProceedSelf DEF CommitDecided
  <1>4. (CommitSide(t)' => CommitSide(t)) /\ (AbortSide(t)' => AbortSide(t))
    BY <1>2, <1>3 DEF CommitSide, AbortSide
  <1>5. Acked("init", t)
    BY DEF writeIntents, Replied, Acked
  <1>6. ~Sent("init", t)
    BY <1>5 DEF TxnInv, Fresh, Clean
  <1>7. Exclusive(t)' /\ Undecided(t)' /\ RecordsAgree(t)'
    BY <1>2, <1>3, <1>4 DEF TxnInv, Exclusive, Undecided, RecordsAgree
  <1>8. Fresh(t)'
    BY <1>3, <1>6 DEF Fresh
  <1>9. Origin(t)'
    BY <1>1, <1>3 DEF TxnInv, Origin
  <1>10. OldQuiet(t)'
    BY <1>2, <1>3 DEF TxnInv, OldQuiet, Quiet
  <1> QED
    BY <1>7, <1>8, <1>9, <1>10 DEF TxnInv

\* commitTransaction and abortTransaction: the transaction was undecided.
LEMMA DecideInv ==
  ASSUME TInv, NEW t \in Txns, TxnInv(t), commitTransaction(t) \/ abortTransaction(t)
  PROVE  TxnInv(t)'
  <1>1. PICK op \in {"commit", "abort"} : Proceed(t, op, {Req(op, t, coord[t], "orch")})
    BY DEF commitTransaction, abortTransaction
  <1> DEFINE q0 == Req(op, t, coord[t], "orch")
  <1>2. q0.op = op /\ q0.txn = t /\ q0.src = "orch"
    BY ReqFields
  <1>3. result' = result /\ pc[t] = "intents"
    BY DEF commitTransaction, abortTransaction
  <1> HIDE DEF q0
  <1>4. /\ pc'[t] = op /\ coord' = coord /\ old' = old /\ rec' = rec /\ net' = net \cup {q0}
        /\ \A o : Sent(o, t)' => Sent(o, t) \/ o = op
        /\ AbortDecided(t)' => AbortDecided(t)
        /\ CommitDecided(t)' => CommitDecided(t)
    <2>1. Proceed(t, op, {q0})
      BY <1>1 DEF q0
    <2> QED
      BY <1>2, <1>3, <2>1, ProceedSelf DEF CommitDecided
  <1>5. ~CommitSide(t) /\ ~AbortSide(t) /\ ~Sent("init", t)
    BY <1>3 DEF TxnInv, Undecided, Fresh
  <1>6. (op = "commit" => ~AbortSide(t)') /\ (op = "abort" => ~CommitSide(t)')
    BY <1>3, <1>4, <1>5 DEF CommitSide, AbortSide
  <1>7. Exclusive(t)' /\ Undecided(t)' /\ RecordsAgree(t)'
    BY <1>4, <1>5, <1>6 DEF Exclusive, Undecided, RecordsAgree, CommitSide, AbortSide
  <1>8. Fresh(t)'
    BY <1>4, <1>5 DEF Fresh
  <1>9. Origin(t)'
    BY <1>2, <1>4 DEF TxnInv, Origin
  <1>10. OldQuiet(t)'
    BY <1>3, <1>4 DEF TxnInv, OldQuiet, Quiet
  <1> QED
    BY <1>7, <1>8, <1>9, <1>10 DEF TxnInv

\* notifyParticipantsSync and notifyParticipantsAsync: the commit was answered.
LEMMA NotifyInv ==
  ASSUME TInv, NEW t \in Txns, TxnInv(t),
         notifyParticipantsSync(t) \/ notifyParticipantsAsync(t)
  PROVE  TxnInv(t)'
  <1>1. PICK p \in {"resolve", "done"}, S \in {collectShards(t), participants(t)},
             cv \in {y.cv : y \in CommitReplies(t)} :
           Proceed(t, p, {ResolveReq(t, s, "orch", Committed, cv) : s \in S})
    BY DEF notifyParticipantsSync, notifyParticipantsAsync
  <1> DEFINE Q == {ResolveReq(t, s, "orch", Committed, cv) : s \in S}
  <1>2. \A q \in Q : q.op = "resolve" /\ q.txn = t /\ q.status = Committed
    BY ReqFields
  <1>3. pc[t] = "commit" /\ result'[t] \in {result[t], "committed"} /\ CommitReplies(t) # {}
    BY DEF notifyParticipantsSync, notifyParticipantsAsync, Return, TInv, TypeOK
  <1>4. CommitDecided(t)
    BY <1>3 DEF CommitReplies, CommitDecided, Acked
  <1> HIDE DEF Q
  <1>5. /\ pc'[t] = p /\ coord' = coord /\ old' = old /\ rec' = rec /\ net' = net \cup Q
        /\ \A op \in {"init", "commit", "abort"} : Sent(op, t)' => Sent(op, t)
        /\ AbortDecided(t)' => AbortDecided(t)
    <2>1. Proceed(t, p, Q)
      BY <1>1 DEF Q
    <2> QED
      BY <1>2, <2>1, ProceedSelf
  <1>6. CommitSide(t) /\ ~AbortSide(t) /\ ~Sent("init", t)
    BY <1>3, <1>4 DEF TxnInv, Exclusive, CommitSide, Fresh
  <1>7. ~AbortSide(t)'
    BY <1>3, <1>5, <1>6 DEF AbortSide
  <1>8. Exclusive(t)' /\ Undecided(t)'
    BY <1>5, <1>7 DEF Exclusive, Undecided
  <1>9. RecordsAgree(t)'
    BY <1>4, <1>5, <1>7 DEF TxnInv, RecordsAgree, AbortSide
  <1>10. Fresh(t)'
    BY <1>5, <1>6 DEF Fresh
  <1>11. Origin(t)'
    BY <1>2, <1>5 DEF TxnInv, Origin
  <1>12. OldQuiet(t)'
    BY <1>3, <1>5 DEF TxnInv, OldQuiet, Quiet
  <1> QED
    BY <1>8, <1>9, <1>10, <1>11, <1>12 DEF TxnInv

\* A step of the orchestrator of t adds nothing about the other transactions.
LEMMA OrchestratorOther ==
  ASSUME TInv, NEW t \in Txns, Orchestrator(t), NEW u \in Txns, u # t
  PROVE  Frame(u)
  <1>1. CASE \E n \in 1..MaxTs, c \in collectShards(t) : Begin(t, n, c)
    <2>1. PICK n \in 1..MaxTs, c \in collectShards(t) : Begin(t, n, c)
      BY <1>1
    <2>2. Req("init", t, c, "orch").txn = t
      BY ReqFields
    <2> QED
      BY <2>1, <2>2 DEF Begin, Frame, TInv, TypeOK, recVars, dataVars
  <1>2. CASE ~\E n \in 1..MaxTs, c \in collectShards(t) : Begin(t, n, c)
    <2>1. result'[u] = result[u]
      BY <1>2 DEF Orchestrator, writeIntents, initFailed, commitTransaction,
         abortTransaction, abortReturned, commitFailed, notifyParticipantsSync,
         notifyParticipantsAsync, resolveReturned, resolveFailed, Crash, Return, TInv, TypeOK
    <2>2. \E p, Q : Proceed(t, p, Q) /\ \A q \in Q : q.txn = t
      <3>1. CASE writeIntents(t)
        BY <3>1, ReqFields DEF writeIntents
      <3>2. CASE commitTransaction(t)
        BY <3>2, ReqFields DEF commitTransaction
      <3>3. CASE abortTransaction(t)
        BY <3>3, ReqFields DEF abortTransaction
      <3>4. CASE notifyParticipantsSync(t)
        BY <3>4, ReqFields DEF notifyParticipantsSync
      <3>5. CASE notifyParticipantsAsync(t)
        BY <3>5, ReqFields DEF notifyParticipantsAsync
      <3>6. CASE \/ initFailed(t) \/ abortReturned(t) \/ commitFailed(t)
                 \/ resolveReturned(t) \/ resolveFailed(t) \/ Crash(t)
        <4>1. Proceed(t, "done", {})
          BY <3>6 DEF initFailed, abortReturned, commitFailed, resolveReturned,
             resolveFailed, Crash
        <4>2. \A q \in {} : q.txn = t
          OBVIOUS
        <4> QED
          BY <4>1, <4>2
      <3> QED
        BY <1>2, <3>1, <3>2, <3>3, <3>4, <3>5, <3>6 DEF Orchestrator
    <2> QED
      BY <2>1, <2>2, ProceedOther
  <1> QED
    BY <1>1, <1>2

\* Every step of the orchestrator of t, for t and for the others.
LEMMA OrchestratorInv ==
  ASSUME TInv, NEW t \in Txns, Orchestrator(t), NEW u \in Txns, TxnInv(u)
  PROVE  TxnInv(u)'
  <1>1. CASE u = t
    <2>1. CASE \/ initFailed(t) \/ abortReturned(t) \/ commitFailed(t)
               \/ resolveReturned(t) \/ resolveFailed(t) \/ Crash(t)
      <3>1. /\ pc[t] # "idle" /\ Proceed(t, "done", {})
            /\ result'[t] \in {"synced", "committed"} =>
                  result[t] = result'[t] \/ pc[t] = "resolve"
            /\ result'[t] = "failed" => result[t] = "failed" \/ pc[t] \in {"init", "abort"}
        BY <2>1 DEF initFailed, abortReturned, commitFailed, resolveReturned, resolveFailed,
           Crash, Return, TInv, TypeOK
      <3> QED
        BY <1>1, <3>1, EndInv
    <2> QED
      BY <1>1, <2>1, BeginInv, WriteIntentsInv, DecideInv, NotifyInv DEF Orchestrator
  <1>2. CASE u # t
    BY <1>2, OrchestratorOther, FrameInv
  <1> QED
    BY <1>1, <1>2

-----------------------------------------------------------------------------
(***************************************************************************)
(* The shards preserve the invariant.                                      *)
(***************************************************************************)

\* A reply answers the request it is for.
LEMMA ReplySelf ==
  ASSUME NEW q, NEW ok, NEW cv, Reply(q, ok, cv)
  PROVE  \A p \in replies' : p \in replies \/ p.req = q
  BY DEF Reply

\* An applied request adds nothing about the other transactions.
LEMMA ApplyOther ==
  ASSUME TInv, NEW q \in net, Apply(q), NEW u \in Txns, u # q.txn
  PROVE  Frame(u)
  <1>1. \A p \in replies' : p \in replies \/ p.req = q
    BY ReplySelf DEF Apply, InitTransaction, WriteIntent, CommitTransaction,
       AbortTransaction, ResolveIntents
  <1>2. q.txn \in Txns
    BY DEF TInv, TypeOK, Requests
  <1>3. \A st, cv : \A x \in asyncResolveIntents(q, st, cv) : x.txn = q.txn
    BY ReqFields DEF asyncResolveIntents
  <1>4. CASE InitTransaction(q)
    BY <1>1, <1>2, <1>4 DEF InitTransaction, Frame, TInv, TypeOK, orchVars, dataVars
  <1>5. CASE WriteIntent(q)
    BY <1>1, <1>2, <1>5 DEF WriteIntent, Frame, TInv, TypeOK, orchVars, recVars
  <1>6. CASE CommitTransaction(q)
    BY <1>1, <1>2, <1>3, <1>6 DEF CommitTransaction, finalizeTransaction, Frame, TInv, TypeOK,
       orchVars, dataVars
  <1>7. CASE AbortTransaction(q)
    BY <1>1, <1>2, <1>3, <1>7 DEF AbortTransaction, finalizeTransaction, Frame, TInv, TypeOK,
       orchVars, dataVars
  <1>8. CASE ResolveIntents(q)
    <2>1. \A x \in effect' : x[1] = u => x \in effect
      BY <1>8 DEF ResolveIntents
    <2> QED
      BY <1>1, <1>2, <1>8, <2>1 DEF ResolveIntents, Frame, orchVars, recVars
  <1> QED
    BY <1>4, <1>5, <1>6, <1>7, <1>8 DEF Apply

\* InitTransaction: no record of t exists and nothing is under way.
LEMMA InitTransactionInv ==
  ASSUME TInv, NEW q \in net, InitTransaction(q), TxnInv(q.txn), q.txn \in Txns
  PROVE  TxnInv(q.txn)'
  <1> DEFINE t == q.txn
  <1>1. q.op = "init" /\ Sent("init", t)
    BY DEF InitTransaction, Sent
  <1>2. Clean(t) /\ pc[t] \in {"init", "done"}
    BY <1>1 DEF TxnInv, Fresh
  <1>3. /\ UNCHANGED <<pc, coord, result, scan, effect>>
        /\ net' = net \ {q} /\ t \notin old'
    BY DEF InitTransaction, orchVars, dataVars
  <1>4. \A r \in Replicas : rec'[t][r].status = Pending
    BY DEF InitTransaction, TInv, TypeOK
  <1>5. \A p \in replies' : p \in replies \/ p.req = q
    BY ReplySelf DEF InitTransaction
  <1>6. Acked("commit", t)' => Acked("commit", t)
    BY <1>1, <1>5 DEF Acked
  <1>7. (SentCommitted(t)' => SentCommitted(t)) /\ (SentAborted(t)' => SentAborted(t))
        /\ \A op : Sent(op, t)' => Sent(op, t)
    BY <1>3 DEF SentCommitted, SentAborted, Sent
  <1>8. \A e : Has(t, e)' <=> Has(t, e)
    BY <1>3 DEF Has
  <1>9. (CommitDecided(t)' => CommitDecided(t)) /\ (AbortDecided(t)' => AbortDecided(t))
    BY <1>3, <1>4, <1>6, <1>7, <1>8 DEF CommitDecided, AbortDecided, Pending, Committed, Aborted
  <1>10. ~CommitSide(t)' /\ ~AbortDecided(t)'
    BY <1>2, <1>3, <1>7, <1>9 DEF Clean, CommitSide
  <1>11. AbortSide(t)' => AbortSide(t)
    BY <1>3, <1>7, <1>9 DEF AbortSide
  <1>12. ~Sent("init", t)'
    <2>1. \A x \in net : x.txn = t /\ x.op = "init" => x = q
      BY <1>1 DEF TxnInv, Origin
    <2> QED
      BY <1>3, <2>1 DEF Sent
  <1>13. Exclusive(t)' /\ Undecided(t)' /\ RecordsAgree(t)'
    BY <1>3, <1>10, <1>11 DEF TxnInv, Exclusive, Undecided, RecordsAgree, CommitSide
  <1>14. Fresh(t)' /\ Origin(t)' /\ OldQuiet(t)'
    BY <1>2, <1>3, <1>12 DEF TxnInv, Fresh, Origin, OldQuiet
  <1> QED
    BY <1>13, <1>14 DEF TxnInv

\* finalizeTransaction leaves no replica with a record of another status.
LEMMA FinalizeRec ==
  ASSUME TInv, NEW t \in Txns, NEW status \in {Committed, Aborted},
         finalizeTransaction(t, status)
  PROVE  \A r \in Replicas : rec'[t][r] = NoRec \/ rec'[t][r].status = status
  BY DEF finalizeTransaction, TInv, TypeOK, Records

\* CommitTransaction: t is on the commit side already.
LEMMA CommitTransactionInv ==
  ASSUME TInv, NEW q \in net, CommitTransaction(q), TxnInv(q.txn), q.txn \in Txns
  PROVE  TxnInv(q.txn)'
  <1> DEFINE t == q.txn
  <1>1. q.op = "commit" /\ Sent("commit", t)
    BY DEF CommitTransaction, Sent
  <1>2. ~AbortSide(t) /\ ~Sent("init", t) /\ pc[t] \notin {"idle", "init", "intents"}
    BY <1>1 DEF TxnInv, Exclusive, Undecided, Fresh, Clean, CommitSide
  <1>3. UNCHANGED <<pc, coord, result, old, scan, effect>>
    BY DEF CommitTransaction, orchVars, dataVars
  <1>4. \A r \in Replicas : rec'[t][r] = NoRec \/ rec'[t][r].status = Committed
    BY FinalizeRec DEF CommitTransaction
  <1>5. \A x \in net' : x \in net \/ (x.op = "resolve" /\ x.txn = t /\ x.status = Committed)
    BY ReqFields DEF CommitTransaction, asyncResolveIntents
  <1>6. (SentAborted(t)' => SentAborted(t))
        /\ \A op \in {"init", "commit", "abort"} : Sent(op, t)' => Sent(op, t)
    BY <1>5 DEF SentAborted, Sent
  <1>7. \A e : Has(t, e)' <=> Has(t, e)
    BY <1>3 DEF Has
  <1>8. ~AbortSide(t)'
    BY <1>2, <1>3, <1>4, <1>6, <1>7 DEF AbortSide, AbortDecided, NoRec, Committed, Aborted
  <1>9. Exclusive(t)' /\ Undecided(t)'
    BY <1>2, <1>3, <1>8 DEF Exclusive, Undecided
  <1>10. RecordsAgree(t)'
    BY <1>4, <1>8 DEF RecordsAgree, AbortSide, NoRec
  <1>11. Fresh(t)'
    BY <1>2, <1>3, <1>6 DEF Fresh
  <1>12. Origin(t)' /\ OldQuiet(t)'
    BY <1>3, <1>5 DEF TxnInv, Origin, OldQuiet, Quiet
  <1> QED
    BY <1>9, <1>10, <1>11, <1>12 DEF TxnInv

\* AbortTransaction: t is on the abort side already.
LEMMA AbortTransactionInv ==
  ASSUME TInv, NEW q \in net, AbortTransaction(q), TxnInv(q.txn), q.txn \in Txns
  PROVE  TxnInv(q.txn)'
  <1> DEFINE t == q.txn
  <1>1. q.op = "abort" /\ Sent("abort", t)
    BY DEF AbortTransaction, Sent
  <1>2. ~CommitSide(t) /\ ~Sent("init", t) /\ pc[t] \notin {"idle", "init", "intents"}
    BY <1>1 DEF TxnInv, Exclusive, Undecided, Fresh, Clean, AbortSide
  <1>3. UNCHANGED <<pc, coord, result, old, scan, effect>>
    BY DEF AbortTransaction, orchVars, dataVars
  <1>4. \A r \in Replicas : rec'[t][r] = NoRec \/ rec'[t][r].status = Aborted
    BY FinalizeRec DEF AbortTransaction
  <1>5. \A x \in net' : x \in net \/ (x.op = "resolve" /\ x.txn = t /\ x.status = Aborted)
    BY ReqFields DEF AbortTransaction, asyncResolveIntents
  <1>6. (SentCommitted(t)' => SentCommitted(t))
        /\ \A op \in {"init", "commit", "abort"} : Sent(op, t)' => Sent(op, t)
    BY <1>5 DEF SentCommitted, Sent, Committed, Aborted
  <1>7. \A e : Has(t, e)' <=> Has(t, e)
    BY <1>3 DEF Has
  <1>8. Acked("commit", t)' => Acked("commit", t)
    <2>1. \A p \in replies' : p \in replies \/ p.req = q
      BY ReplySelf DEF AbortTransaction
    <2> QED
      BY <1>1, <2>1 DEF Acked
  <1>9. ~CommitSide(t)'
    BY <1>2, <1>3, <1>4, <1>6, <1>7, <1>8 DEF CommitSide, CommitDecided, NoRec, Committed, Aborted
  <1>10. Exclusive(t)' /\ Undecided(t)'
    BY <1>2, <1>3, <1>9 DEF Exclusive, Undecided
  <1>11. RecordsAgree(t)'
    BY <1>4, <1>9 DEF RecordsAgree, CommitSide, NoRec
  <1>12. Fresh(t)'
    BY <1>2, <1>3, <1>6 DEF Fresh
  <1>13. Origin(t)' /\ OldQuiet(t)'
    BY <1>3, <1>5 DEF TxnInv, Origin, OldQuiet, Quiet
  <1> QED
    BY <1>10, <1>11, <1>12, <1>13 DEF TxnInv

\* ResolveIntents acts on a decision that its request already carries.
LEMMA ResolveIntentsInv ==
  ASSUME TInv, NEW q \in net, ResolveIntents(q), TxnInv(q.txn), q.txn \in Txns
  PROVE  TxnInv(q.txn)'
  <1> DEFINE t == q.txn
  <1>1. q.op = "resolve" /\ net' = net \ {q}
        /\ UNCHANGED <<pc, coord, result, rec, old, scan>>
    BY DEF ResolveIntents, orchVars, recVars
  <1>2. (q.status = Committed => SentCommitted(t)) /\ (q.status # Committed => SentAborted(t))
    BY <1>1 DEF SentCommitted, SentAborted
  <1>3. /\ Has(t, "applied")' => Has(t, "applied") \/ q.status = Committed
        /\ Has(t, "dropped")' => Has(t, "dropped") \/ q.status # Committed
    BY DEF ResolveIntents, Has
  <1>4. \A p \in replies' : p \in replies \/ p.req = q
    BY ReplySelf DEF ResolveIntents
  <1>5. \A op \in {"init", "commit"} : Acked(op, t)' => Acked(op, t)
    BY <1>1, <1>4 DEF Acked
  <1>6. (SentCommitted(t)' => SentCommitted(t)) /\ (SentAborted(t)' => SentAborted(t))
    BY <1>1 DEF SentCommitted, SentAborted
  <1>7. CommitDecided(t)' => CommitDecided(t)
    BY <1>1, <1>2, <1>3, <1>5, <1>6 DEF CommitDecided
  <1>8. AbortDecided(t)' => AbortDecided(t)
    BY <1>1, <1>2, <1>3, <1>6 DEF AbortDecided
  <1>9. Kept(t)
    BY <1>1, <1>5, <1>7, <1>8 DEF Kept
  <1> QED
    BY <1>9, KeptInv

\* Every applied request, for its transaction and for the others.
LEMMA ApplyInv ==
  ASSUME TInv, NEW q \in net, Apply(q), NEW u \in Txns, TxnInv(u)
  PROVE  TxnInv(u)'
  <1>1. CASE u # q.txn
    BY <1>1, ApplyOther, FrameInv
  <1>2. CASE u = q.txn
    <2>1. CASE WriteIntent(q)
      <3>1. \A p \in replies' : p \in replies \/ p.req = q
        BY <2>1, ReplySelf DEF WriteIntent
      <3>2. Frame(u)
        BY <2>1, <3>1 DEF WriteIntent, Frame, orchVars, recVars
      <3> QED
        BY <3>2, FrameInv
    <2> QED
      BY <1>2, <2>1, InitTransactionInv, CommitTransactionInv, AbortTransactionInv,
         ResolveIntentsInv DEF Apply
  <1> QED
    BY <1>1, <1>2

-----------------------------------------------------------------------------
(***************************************************************************)
(* The recovery loop and the environment preserve the invariant.           *)
(***************************************************************************)

\* The recovery loop of t adds nothing about the other transactions.
LEMMA RecoveryOther ==
  ASSUME TInv, NEW t \in Txns, NEW r \in Replicas, Recovery(t, r) \/ recoverStop(t, r),
         NEW u \in Txns, u # t
  PROVE  Frame(u)
  <1>1. CASE recoverAbort(t, r)
    BY <1>1, ReqFields DEF recoverAbort, Frame, orchVars, recVars, dataVars
  <1>2. CASE recoverDelete(t, r)
    BY <1>2 DEF recoverDelete, Frame, TInv, TypeOK, orchVars, dataVars
  <1>3. CASE recoverNotify(t, r)
    BY <1>3, ReqFields DEF recoverNotify, Frame, TInv, TypeOK, orchVars, dataVars
  <1>4. ASSUME NEW s \in Shards, recoverNotified(t, r, s) PROVE Frame(u)
    BY <1>4 DEF recoverNotified, Frame, TInv, TypeOK, orchVars, dataVars
  <1>5. CASE recoverSave(t, r)
    <2>1. \A st, cv : ResolveReq(t, coord[t], "self", st, cv).txn = t
      BY ReqFields
    <2> QED
      BY <1>5, <2>1 DEF recoverSave, Frame, TInv, TypeOK, orchVars, dataVars
  <1>6. CASE recoverStop(t, r)
    BY <1>6 DEF recoverStop, Frame, TInv, TypeOK, orchVars, dataVars
  <1> QED
    BY <1>1, <1>2, <1>3, <1>4, <1>5, <1>6 DEF Recovery

\* recoverAbort: the record is Pending and, the transaction being prompt,
\* nothing of it that could commit it is under way any more.
LEMMA RecoverAbortInv ==
  ASSUME TInv, NEW t \in Txns, NEW r \in Replicas, TxnInv(t), recoverAbort(t, r)
  PROVE  TxnInv(t)'
  <1> DEFINE a == Req("abort", t, coord[t], "self")
  <1>1. /\ rec[t][r].status = Pending /\ t \in old /\ net' = net \cup {a}
        /\ UNCHANGED <<pc, coord, result, replies, rec, old, scan, effect>>
    BY DEF recoverAbort, orchVars, recVars, dataVars
  <1>2. a.op = "abort" /\ a.txn = t /\ a.src = "self"
    BY ReqFields
  <1> HIDE DEF a
  <1>3. Quiet(t)
    BY <1>1 DEF TxnInv, OldQuiet
  <1>4. ~Sent("commit", t) /\ pc[t] \in {"resolve", "done"}
    BY <1>3 DEF Quiet, Sent, TxnInv, Origin
  <1>5. ~CommitDecided(t)
    BY <1>1 DEF TxnInv, RecordsAgree, Pending, Committed
  <1>6. ~Sent("init", t)
    BY <1>1 DEF TxnInv, Fresh, Clean, NoRec, Pending
  <1>7. /\ \A op \in {"init", "commit"} : Sent(op, t)' => Sent(op, t)
        /\ (SentCommitted(t)' => SentCommitted(t)) /\ (SentAborted(t)' => SentAborted(t))
        /\ (\A op : Acked(op, t)' <=> Acked(op, t)) /\ (\A e : Has(t, e)' <=> Has(t, e))
    BY <1>1, <1>2 DEF Sent, SentCommitted, SentAborted, Acked, Has
  <1>8. (CommitDecided(t)' => CommitDecided(t)) /\ (AbortDecided(t)' => AbortDecided(t))
    BY <1>1, <1>7 DEF CommitDecided, AbortDecided
  <1>9. ~CommitSide(t)'
    BY <1>1, <1>4, <1>5, <1>7, <1>8 DEF CommitSide
  <1>10. Exclusive(t)' /\ Undecided(t)' /\ RecordsAgree(t)'
    BY <1>1, <1>4, <1>8, <1>9 DEF TxnInv, Exclusive, Undecided, RecordsAgree
  <1>11. Fresh(t)'
    BY <1>1, <1>4, <1>6, <1>7 DEF Fresh
  <1>12. Origin(t)' /\ OldQuiet(t)'
    BY <1>1, <1>2 DEF TxnInv, Origin, OldQuiet, Quiet
  <1> QED
    BY <1>10, <1>11, <1>12 DEF TxnInv

\* recoverNotify and recoverNotified act on the decision in the record.
LEMMA RecoverNotifyInv ==
  ASSUME TInv, NEW t \in Txns, NEW r \in Replicas, TxnInv(t), recoverNotify(t, r)
  PROVE  TxnInv(t)'
  <1>1. /\ UNCHANGED <<pc, coord, result, replies, rec, old, effect>>
        /\ rec[t][r].status \in {Committed, Aborted}
    BY DEF recoverNotify, Finalized, orchVars, dataVars
  <1>2. \A q \in net' : q \in net \/ (q.op = "resolve" /\ q.status = rec[t][r].status)
    BY ReqFields DEF recoverNotify
  <1>3. \A x \in Replicas : scan'[t][x] = scan[t][x] \/ (x = r /\ scan'[t][x].status = rec[t][r].status)
    BY DEF recoverNotify, TInv, TypeOK
  <1>4. (\A op : Acked(op, t)' <=> Acked(op, t)) /\ (\A e : Has(t, e)' <=> Has(t, e))
    BY <1>1 DEF Acked, Has
  <1>5. /\ SentCommitted(t)' => SentCommitted(t) \/ rec[t][r].status = Committed
        /\ SentAborted(t)' => SentAborted(t) \/ rec[t][r].status = Aborted
    BY <1>1, <1>2 DEF SentCommitted, SentAborted
  <1>6. CommitDecided(t)' => CommitDecided(t)
    BY <1>1, <1>3, <1>4, <1>5 DEF CommitDecided
  <1>7. AbortDecided(t)' => AbortDecided(t)
    BY <1>1, <1>3, <1>4, <1>5 DEF AbortDecided
  <1>8. Kept(t)
    BY <1>1, <1>2, <1>4, <1>6, <1>7 DEF Kept
  <1> QED
    BY <1>8, KeptInv

\* recoverSave: the write-back agrees with the decision the pass has read.
LEMMA RecoverSaveInv ==
  ASSUME TInv, NEW t \in Txns, NEW r \in Replicas, TxnInv(t), recoverSave(t, r)
  PROVE  TxnInv(t)'
  <1> DEFINE st == scan[t][r].status
             q0 == ResolveReq(t, coord[t], "self", st, Version(t))
  <1>1. /\ UNCHANGED <<pc, coord, result, replies, old, effect>>
        /\ scan[t][r] # NoScan /\ net' = net \cup {q0}
    BY DEF recoverSave, orchVars, dataVars
  <1>2. q0.op = "resolve" /\ q0.status = st /\ q0.txn = t
    BY ReqFields
  <1> HIDE DEF q0
  <1>3. \A x \in Replicas : scan'[t][x] \in {scan[t][x], NoScan}
    BY DEF recoverSave, TInv, TypeOK
  <1>4. \A x \in Replicas : rec'[t][x] = rec[t][x] \/ rec'[t][x].status = st
    BY DEF recoverSave, TInv, TypeOK
  <1>5. st \in {"none", Committed, Aborted}
    BY DEF TInv, TypeOK, Scans
  <1>6. IF st = Committed THEN CommitDecided(t) ELSE AbortDecided(t)
    BY <1>1 DEF CommitDecided, AbortDecided
  <1>7. /\ (\A op : Acked(op, t)' <=> Acked(op, t)) /\ (\A e : Has(t, e)' <=> Has(t, e))
        /\ \A op \in {"init", "commit", "abort"} : Sent(op, t)' => Sent(op, t)
    BY <1>1, <1>2 DEF Acked, Has, Sent
  <1>8. /\ SentCommitted(t)' => SentCommitted(t) \/ st = Committed
        /\ SentAborted(t)' => SentAborted(t) \/ st # Committed
    BY <1>1, <1>2 DEF SentCommitted, SentAborted
  <1>9. CommitDecided(t)' => CommitDecided(t)
    <2>1. ASSUME NEW x \in Replicas, rec'[t][x].status = Committed PROVE CommitDecided(t)
      BY <1>4, <1>6, <2>1 DEF CommitDecided
    <2> QED
      BY <1>1, <1>3, <1>6, <1>7, <1>8, <2>1 DEF CommitDecided
  <1>10. AbortDecided(t)' => AbortDecided(t)
    <2>1. ASSUME NEW x \in Replicas, rec'[t][x].status = Aborted PROVE AbortDecided(t)
      BY <1>4, <1>6, <2>1 DEF AbortDecided, Committed, Aborted
    <2> QED
      BY <1>1, <1>3, <1>6, <1>7, <1>8, <2>1 DEF AbortDecided
  <1>11. (CommitSide(t)' => CommitSide(t)) /\ (AbortSide(t)' => AbortSide(t))
    BY <1>1, <1>7, <1>9, <1>10 DEF CommitSide, AbortSide
  <1>12. pc[t] # "idle" /\ ~Sent("init", t)
    BY <1>6 DEF TxnInv, Fresh, Clean, CommitSide
  <1>13. Exclusive(t)' /\ Undecided(t)'
    BY <1>1, <1>11 DEF TxnInv, Exclusive, Undecided
  <1>14. ~(CommitDecided(t) /\ AbortDecided(t))
    BY DEF TxnInv, Exclusive, CommitSide, AbortSide
  <1>15. RecordsAgree(t)'
    BY <1>4, <1>5, <1>6, <1>9, <1>10, <1>14 DEF TxnInv, RecordsAgree
  <1>16. Fresh(t)'
    BY <1>1, <1>7, <1>12 DEF Fresh
  <1>17. Origin(t)' /\ OldQuiet(t)'
    BY <1>1, <1>2 DEF TxnInv, Origin, OldQuiet, Quiet
  <1> QED
    BY <1>13, <1>15, <1>16, <1>17 DEF TxnInv

\* Every step of the recovery loop, for t and for the others.
LEMMA RecoveryInv ==
  ASSUME TInv, NEW t \in Txns, NEW r \in Replicas, Recovery(t, r) \/ recoverStop(t, r),
         NEW u \in Txns, TxnInv(u)
  PROVE  TxnInv(u)'
  <1>1. CASE u # t
    BY <1>1, RecoveryOther, FrameInv
  <1>2. CASE u = t
    <2>1. CASE recoverDelete(t, r)
      <3>1. Frame(t)
        BY <2>1 DEF recoverDelete, Frame, TInv, TypeOK, orchVars, dataVars
      <3> QED
        BY <1>2, <3>1, FrameInv
    <2>2. ASSUME NEW s \in Shards, recoverNotified(t, r, s) PROVE TxnInv(t)'
      <3>1. PICK ok \in BOOLEAN : scan' = [scan EXCEPT ![t][r] = Answered(@, s, ok)]
        BY <2>2 DEF recoverNotified
      <3>2. Answered(scan[t][r], s, ok).status = scan[t][r].status /\ scan[t][r] # NoScan
        BY <2>2 DEF recoverNotified, Answered, TInv, TypeOK, Scans, NoScan
      <3>3. Frame(t)
        BY <2>2, <3>1, <3>2 DEF recoverNotified, Frame, TInv, TypeOK, orchVars, dataVars
      <3> QED
        BY <1>2, <3>3, FrameInv
    <2>3. CASE recoverStop(t, r)
      <3>1. Frame(t)
        BY <2>3 DEF recoverStop, Frame, TInv, TypeOK, orchVars, dataVars
      <3> QED
        BY <1>2, <3>1, FrameInv
    <2> QED
      BY <1>2, <2>1, <2>2, <2>3, RecoverAbortInv, RecoverNotifyInv, RecoverSaveInv
      DEF Recovery
  <1> QED
    BY <1>1, <1>2

\* Every step of the environment.
LEMMA EnvironmentInv ==
  ASSUME Prompt, TInv, Environment, NEW u \in Txns, TxnInv(u)
  PROVE  TxnInv(u)'
  <1>1. ASSUME NEW q \in net, Lose(q) PROVE TxnInv(u)'
    <2>1. Frame(u)
      BY <1>1 DEF Lose, Frame, orchVars, recVars, dataVars
    <2> QED
      BY <2>1, FrameInv
  <1>2. ASSUME NEW t \in Txns, PassCreated(t) PROVE TxnInv(u)'
    <2>1. UNCHANGED <<pc, coord, result, net, replies, rec, scan, effect>>
      BY <1>2 DEF PassCreated, orchVars, dataVars
    <2>2. CASE u # t
      <3>1. Frame(u)
        BY <1>2, <2>1, <2>2 DEF PassCreated, Frame
      <3> QED
        BY <3>1, FrameInv
    <2>3. CASE u = t
      <3>1. OldQuiet(u)'
        BY <1>2, <2>1, <2>3 DEF PassCreated, OldQuiet, Quiet
      <3>2. /\ \A op : (Sent(op, u)' <=> Sent(op, u)) /\ (Acked(op, u)' <=> Acked(op, u))
            /\ (SentCommitted(u)' <=> SentCommitted(u)) /\ (SentAborted(u)' <=> SentAborted(u))
            /\ \A e : Has(u, e)' <=> Has(u, e)
        BY <2>1 DEF Sent, Acked, SentCommitted, SentAborted, Has
      <3>3. (CommitDecided(u)' <=> CommitDecided(u)) /\ (AbortDecided(u)' <=> AbortDecided(u))
        BY <2>1, <3>2 DEF CommitDecided, AbortDecided
      <3>4. (CommitSide(u)' <=> CommitSide(u)) /\ (AbortSide(u)' <=> AbortSide(u))
        BY <2>1, <3>2, <3>3 DEF CommitSide, AbortSide
      <3>5. Clean(u)' <=> Clean(u)
        BY <2>1, <3>2, <3>3, <3>4 DEF Clean
      <3>6. Exclusive(u)' /\ Undecided(u)' /\ RecordsAgree(u)'
        BY <2>1, <3>3, <3>4 DEF TxnInv, Exclusive, Undecided, RecordsAgree
      <3>7. Fresh(u)' /\ Origin(u)'
        BY <2>1, <3>2, <3>5 DEF TxnInv, Fresh, Origin
      <3> QED
        BY <3>1, <3>6, <3>7 DEF TxnInv
    <2> QED
      BY <2>2, <2>3
  <1>3. ASSUME NEW t \in Txns, PassFinalized(t) PROVE TxnInv(u)'
    <2>1. Frame(u)
      BY <1>3 DEF PassFinalized, Frame, orchVars, dataVars
    <2> QED
      BY <2>1, FrameInv
  <1>4. ASSUME NEW s \in Shards, NEW r \in Replicas, ChangeLeader(s, r) PROVE TxnInv(u)'
    <2>1. Frame(u)
      BY <1>4 DEF ChangeLeader, Frame, orchVars, dataVars
    <2> QED
      BY <2>1, FrameInv
  <1> QED
    BY <1>1, <1>2, <1>3, <1>4, RecoveryInv DEF Environment

-----------------------------------------------------------------------------
(***************************************************************************)
(* The theorems.                                                           *)
(***************************************************************************)

\* Initially nothing is decided.
LEMMA IInvInit == Init => IInv
  <1> SUFFICES ASSUME Init, NEW t \in Txns PROVE TxnInv(t)
    BY TInvInit DEF IInv, TInv
  <1>1. ~CommitSide(t) /\ ~AbortSide(t)
    BY DEF Init, CommitSide, AbortSide, CommitDecided, AbortDecided, Sent, Acked,
       SentCommitted, SentAborted, Has, NoRec, Committed, Aborted
  <1>2. \A r \in Replicas : rec[t][r] = NoRec
    BY DEF Init
  <1>3. Clean(t)
    BY <1>1, <1>2 DEF Init, Clean, AbortSide, Acked
  <1>4. Exclusive(t) /\ Undecided(t) /\ RecordsAgree(t)
    BY <1>1 DEF Exclusive, Undecided, RecordsAgree, CommitSide, AbortSide
  <1>5. Fresh(t) /\ Origin(t) /\ OldQuiet(t)
    BY <1>3 DEF Init, Fresh, Origin, OldQuiet, Sent
  <1> QED
    BY <1>4, <1>5 DEF TxnInv

\* Every step preserves the invariant.
LEMMA IInvStep == ASSUME Prompt PROVE IInv /\ [Next]_vars => IInv'
  <1> SUFFICES ASSUME IInv, [Next]_vars PROVE IInv'
    OBVIOUS
  <1>1. TInv
    BY DEF IInv, TInv
  <1>2. ASSUME NEW u \in Txns PROVE TxnInv(u)'
    <2>1. TxnInv(u)
      BY DEF IInv
    <2>2. CASE UNCHANGED vars
      <3>1. Frame(u)
        BY <2>2 DEF vars, orchVars, recVars, dataVars, Frame
      <3> QED
        BY <2>1, <3>1, FrameInv
    <2>3. CASE Next
      BY <1>1, <2>1, <2>3, OrchestratorInv, ApplyInv, RecoveryInv, EnvironmentInv DEF Next
    <2> QED
      BY <2>2, <2>3
  <1> QED
    BY <1>1, <1>2, TInvStep DEF IInv, TInv

\* The invariant implies the properties the runs check.
LEMMA IInvImplies == IInv => Atomicity /\ CommitPoint /\ ClientTruth
  <1> SUFFICES ASSUME IInv, NEW t \in Txns
               PROVE  /\ ~(Has(t, "applied") /\ Has(t, "dropped"))
                      /\ \A r \in Replicas :
                            /\ Has(t, "applied") => rec[t][r].status \in {Committed, "none"}
                            /\ Has(t, "dropped") => rec[t][r].status \in {Aborted, "none"}
                      /\ result[t] \in {"synced", "committed"} => ~Has(t, "dropped")
                      /\ result[t] = "failed" => ~Has(t, "applied")
    BY DEF Atomicity, CommitPoint, ClientTruth
  <1>1. Exclusive(t) /\ RecordsAgree(t)
    BY DEF IInv, TxnInv
  <1>2. (Has(t, "applied") => CommitDecided(t)) /\ (Has(t, "dropped") => AbortDecided(t))
    BY DEF CommitDecided, AbortDecided
  <1>3. (CommitDecided(t) => CommitSide(t)) /\ (AbortDecided(t) => AbortSide(t))
    BY DEF CommitSide, AbortSide
  <1>4. /\ result[t] \in {"synced", "committed"} => CommitSide(t)
        /\ result[t] = "failed" => AbortSide(t)
    BY DEF CommitSide, CommitDecided, AbortSide
  <1> QED
    BY <1>1, <1>2, <1>3, <1>4 DEF Exclusive, RecordsAgree

\* If requests are prompt, no transaction is applied on one shard and dropped on
\* another (ResolveIntents), for any crashes, losses and leader changes.
THEOREM AtomicCommit == ASSUME Prompt PROVE Spec => []Atomicity
  BY IInvInit, IInvStep, IInvImplies, PTL DEF Spec

\* If requests are prompt, the coordinator's record is the commit point: what a
\* shard does with its intents agrees with every replica's record.
THEOREM RecordDecides == ASSUME Prompt PROVE Spec => []CommitPoint
  BY IInvInit, IInvStep, IInvImplies, PTL DEF Spec

\* If requests are prompt, the outcome ExecuteTransaction reports is the one
\* that the shards see.
THEOREM ReportedOutcome == ASSUME Prompt PROVE Spec => []ClientTruth
  BY IInvInit, IInvStep, IInvImplies, PTL DEF Spec

\* A record that says Committed or Aborted keeps its status or is deleted: the
\* actions that write records are all on the side of the decision it holds.
LEMMA DecisionKept ==
  ASSUME IInv, Next, NEW t \in Txns, NEW r \in Replicas, Finalized(rec[t][r])
  PROVE  rec'[t][r].status \in {rec[t][r].status, "none"}
  <1>1. TInv /\ TxnInv(t) /\ rec[t][r].status \in {Committed, Aborted}
    BY DEF IInv, TInv, Finalized
  <1>2. /\ rec[t][r].status = Committed => CommitDecided(t)
        /\ rec[t][r].status = Aborted => AbortDecided(t)
    BY DEF CommitDecided, AbortDecided
  <1>3. ~(CommitSide(t) /\ AbortSide(t)) /\ (CommitDecided(t) => CommitSide(t))
        /\ (AbortDecided(t) => AbortSide(t)) /\ ~Clean(t)
    BY <1>1, <1>2 DEF TxnInv, Exclusive, CommitSide, AbortSide, Clean
  <1>4. ASSUME NEW q \in net, Apply(q), q.txn = t
        PROVE  rec'[t][r].status \in {rec[t][r].status, "none"}
    <2>1. ~InitTransaction(q)
      BY <1>1, <1>3, <1>4 DEF TxnInv, Fresh, Sent, InitTransaction
    <2>2. CASE CommitTransaction(q)
      <3>1. CommitSide(t)
        BY <1>4, <2>2 DEF CommitTransaction, CommitSide, Sent
      <3>2. rec'[t][r] = NoRec \/ rec'[t][r].status = Committed
        BY <1>1, <1>4, <2>2, FinalizeRec DEF CommitTransaction
      <3> QED
        BY <1>1, <1>2, <1>3, <3>1, <3>2 DEF NoRec
    <2>3. CASE AbortTransaction(q)
      <3>1. AbortSide(t)
        BY <1>4, <2>3 DEF AbortTransaction, AbortSide, Sent
      <3>2. rec'[t][r] = NoRec \/ rec'[t][r].status = Aborted
        BY <1>1, <1>4, <2>3, FinalizeRec DEF AbortTransaction
      <3> QED
        BY <1>1, <1>2, <1>3, <3>1, <3>2 DEF NoRec
    <2>4. CASE WriteIntent(q) \/ ResolveIntents(q)
      BY <2>4 DEF WriteIntent, ResolveIntents, recVars
    <2> QED
      BY <1>4, <2>1, <2>2, <2>3, <2>4 DEF Apply
  <1>5. ASSUME NEW q \in net, Apply(q), q.txn # t
        PROVE  rec'[t][r].status \in {rec[t][r].status, "none"}
    BY <1>1, <1>5, ApplyOther DEF Frame, NoRec
  <1>6. ASSUME NEW u \in Txns, Orchestrator(u) PROVE rec' = rec
    BY <1>6 DEF Orchestrator, Begin, writeIntents, initFailed, commitTransaction,
       abortTransaction, abortReturned, commitFailed, notifyParticipantsSync,
       notifyParticipantsAsync, resolveReturned, resolveFailed, Crash, Proceed, recVars
  <1>7. ASSUME NEW u \in Txns, NEW x \in Replicas, Recovery(u, x), u # t
        PROVE  rec'[t][r].status \in {rec[t][r].status, "none"}
    BY <1>1, <1>7, RecoveryOther DEF Frame, NoRec
  <1>8. ASSUME NEW x \in Replicas, Recovery(t, x)
        PROVE  rec'[t][r].status \in {rec[t][r].status, "none"}
    <2>1. CASE recoverSave(t, x)
      <3>1. rec'[t][r] = rec[t][r] \/ rec'[t][r].status = scan[t][x].status
        BY <2>1, <1>1 DEF recoverSave, TInv, TypeOK
      <3>2. IF scan[t][x].status = Committed THEN CommitDecided(t) ELSE AbortDecided(t)
        BY <2>1 DEF recoverSave, CommitDecided, AbortDecided
      <3>3. scan[t][x].status \in {"none", Committed, Aborted}
        BY <1>1 DEF TInv, TypeOK, Scans
      <3> QED
        BY <1>1, <1>2, <1>3, <3>1, <3>2, <3>3 DEF Committed, Aborted
    <2>2. CASE recoverDelete(t, x)
      BY <1>1, <2>2 DEF recoverDelete, TInv, TypeOK, NoRec
    <2> QED
      BY <1>8, <2>1, <2>2 DEF Recovery, recoverAbort, recoverNotify, recoverNotified, recVars
  <1>9. CASE Environment
    BY <1>9 DEF Environment, Lose, PassCreated, PassFinalized, ChangeLeader, recoverStop, recVars
  <1> QED
    BY <1>4, <1>5, <1>6, <1>7, <1>8, <1>9 DEF Next

\* If requests are prompt, no replica's record ever goes from Committed to
\* Aborted or back (finalizeTransaction and the recovery loop's write-back).
THEOREM DecisionStable == ASSUME Prompt PROVE Spec => DecisionFinal
  <1>1. IInv /\ [Next]_vars =>
           [\A t \in Txns, r \in Replicas : Finalized(rec[t][r]) =>
               rec'[t][r].status \in {rec[t][r].status, "none"}]_vars
    BY DecisionKept
  <1> QED
    BY <1>1, IInvInit, IInvStep, PTL DEF Spec, DecisionFinal
=============================================================================
