--------------------------- MODULE TxnDataProofs ---------------------------
(***************************************************************************)
(* Proofs about what a transaction leaves on the shards: no part of a      *)
(* committed batch is lost, a synchronous commit is complete when it       *)
(* returns, the recovery loop forgets a commit only when every participant *)
(* is done with it, and the whole protocol implements AtomicCommit.  All   *)
(* are about prompt executions (Prompt), like the theorems of TxnProofs,   *)
(* whose invariant they build on.                                          *)
(*                                                                         *)
(* The second part is about the versions of the documents: last writer     *)
(* wins, what was applied stays visible, and what the version predicates   *)
(* of a transaction guarantee.  Each theorem names the conditions it       *)
(* needs; the README says what happens without them.                       *)
(***************************************************************************)
EXTENDS TxnProofs

-----------------------------------------------------------------------------
(***************************************************************************)
(* The inductive invariant.                                                *)
(***************************************************************************)

\* The keys of t that get an intent.
Owned(t) == Writes[t] \cup Deletes[t]

\* The orchestrator of t has not asked for a decision.
Early(t) == pc[t] \in {"idle", "init", "intents"}

\* Shard s holds no intent of t.
Gone(t, s) == \A k \in Keys : ShardOf[k] = s => <<t, k>> \notin intents

\* Every write and delete of t is an intent or has been applied.
Held(t) ==
    \A k \in Owned(t) : <<t, k>> \in intents \/ <<t, ShardOf[k], "applied">> \in effect

\* The participants that some replica takes for resolved, in its record or in
\* the pass it is making.
Marked(t) ==
    {s \in Shards : \E r \in Replicas :
        s \in rec[t][r].resolved \cup scan[t][r].resolved \cup scan[t][r].done}

\* Who asks for what: only the orchestrator sends intents, and once per shard;
\* the recovery loop waits for nothing but resolutions; intents are answered
\* while the orchestrator waits for them, resolutions after a decision.
Callers(t) ==
    /\ \A q \in net : q.txn = t =>
          /\ q.op = "intent" =>
                q = Req("intent", t, q.shard, "orch") /\ q.shard \in collectShards(t)
          /\ q.src \in Replicas => q.op = "resolve"
    /\ \A p \in replies : p.req.txn = t =>
          /\ p.req.op = "intent" =>
                p.req = Req("intent", t, p.req.shard, "orch") /\ pc[t] = "intents"
          /\ p.req.src \in Replicas => p.req.op = "resolve"
          /\ p.req.op = "resolve" => ~Early(t)

\* Before the intents are sent there are none.
Untouched(t) ==
    pc[t] \in {"idle", "init"} => ~Sent("intent", t) /\ \A k \in Keys : <<t, k>> \notin intents

\* A shard that has answered holds its intents, and will not be asked again.
Prepared(t) ==
    \A p \in replies : p.req.txn = t /\ p.req.op = "intent" /\ p.ok =>
        /\ p.req \notin net
        /\ \A k \in IntentKeys(t, p.req.shard) : <<t, k>> \in intents

\* Once a commit may happen, nothing of the batch is missing or still to come.
Complete(t) == CommitSide(t) => Held(t) /\ ~Sent("intent", t)

\* A shard that has resolved a commit, or is taken for resolved, has no intent.
Settled(t) ==
    /\ Early(t) => Marked(t) = {}
    /\ CommitSide(t) =>
          /\ \A p \in replies : p.req.txn = t /\ p.req.op = "resolve" => Gone(t, p.req.shard)
          /\ \A s \in Marked(t) : Gone(t, s)
          /\ result[t] = "synced" => \A s \in collectShards(t) : Gone(t, s)

\* Intents are on keys of the batch.
OwnIntents(t) == \A k \in Keys : <<t, k>> \in intents => k \in Owned(t)

\* ExecuteTransaction reports at its end only.
Unreported(t) == pc[t] # "done" => result[t] = "none"

DataInv(t) ==
    /\ Callers(t) /\ Untouched(t) /\ Prepared(t) /\ Complete(t) /\ Settled(t)
    /\ OwnIntents(t) /\ Unreported(t)

DInv == IInv /\ \A t \in Txns : DataInv(t)

-----------------------------------------------------------------------------
(***************************************************************************)
(* Steps that touch neither the intents of a transaction nor what is known *)
(* of them.                                                                *)
(***************************************************************************)

DataFrame(u) ==
    /\ \A k \in Keys : <<u, k>> \in intents' <=> <<u, k>> \in intents
    /\ effect \subseteq effect'
    /\ \A q \in net' : q.txn = u => q \in net \/ (q.op # "intent" /\
                                                   (q.src \in Replicas => q.op = "resolve"))
    /\ \A p \in replies' : p.req.txn = u =>
          p \in replies \/ (p.req.op \notin {"intent", "resolve"} /\ p.req.src \notin Replicas)
    /\ \/ pc'[u] = pc[u] \/ (pc[u] = "idle" /\ pc'[u] = "init")
       \/ ~Early(u)' /\ \A p \in replies' : p.req.txn = u => p.req.src # "orch"
    /\ CommitSide(u)' => CommitSide(u)
    /\ \A s \in Marked(u)' : s \in Marked(u) \/ \E p \in replies :
          p.req.txn = u /\ p.req.op = "resolve" /\ p.req.shard = s
    /\ result'[u] = "synced" => result[u] = "synced"
    /\ pc'[u] # "done" => pc[u] # "done" /\ result'[u] = result[u]

\* Such a step preserves what is known of them.
LEMMA DataFrameInv == ASSUME NEW u \in Txns, DataInv(u), DataFrame(u) PROVE DataInv(u)'
  <1> USE DEF DataInv
  <1>1. (Early(u)' => Early(u)) /\ (pc'[u] \in {"idle", "init"} => pc[u] \in {"idle", "init"})
    BY DEF DataFrame, Early
  <1>2. Sent("intent", u)' => Sent("intent", u)
    BY DEF DataFrame, Sent
  <1>3. \A s : Gone(u, s) => Gone(u, s)'
    BY DEF DataFrame, Gone
  <1>4. Held(u) => Held(u)'
    BY TxnAssumption DEF DataFrame, Held, Owned
  <1>5. Callers(u)'
    <2>1. \A q \in net' : q.txn = u =>
             /\ q.op = "intent" =>
                   q = Req("intent", u, q.shard, "orch") /\ q.shard \in collectShards(u)
             /\ q.src \in Replicas => q.op = "resolve"
      BY DEF DataFrame, Callers
    <2>2. ASSUME NEW p \in replies', p.req.txn = u
          PROVE  /\ p.req.op = "intent" =>
                       p.req = Req("intent", u, p.req.shard, "orch") /\ pc'[u] = "intents"
                 /\ p.req.src \in Replicas => p.req.op = "resolve"
                 /\ p.req.op = "resolve" => ~Early(u)'
      <3>1. CASE p \in replies
        <4>1. p.req.op = "intent" => p.req.src = "orch" /\ pc[u] = "intents"
          BY <2>2, <3>1, ReqFields DEF Callers
        <4>2. p.req.op = "intent" => pc'[u] = "intents"
          BY <2>2, <4>1 DEF DataFrame
        <4> QED
          BY <1>1, <2>2, <3>1, <4>2 DEF Callers
      <3>2. CASE p \notin replies
        BY <2>2, <3>2 DEF DataFrame
      <3> QED
        BY <3>1, <3>2
    <2> QED
      BY <2>1, <2>2 DEF Callers, collectShards
  <1>6. Untouched(u)'
    BY <1>1, <1>2 DEF Untouched, DataFrame
  <1>7. Prepared(u)'
    <2>1. ASSUME NEW p \in replies', p.req.txn = u, p.req.op = "intent", p.ok
          PROVE  p.req \notin net' /\ \A k \in IntentKeys(u, p.req.shard) : <<u, k>> \in intents'
      <3>1. p \in replies
        BY <2>1 DEF DataFrame
      <3>2. p.req \notin net /\ \A k \in IntentKeys(u, p.req.shard) : <<u, k>> \in intents
        BY <2>1, <3>1 DEF Prepared
      <3> QED
        BY <2>1, <3>2, TxnAssumption DEF DataFrame, IntentKeys
    <2> QED
      BY <2>1 DEF Prepared, IntentKeys
  <1>8. Complete(u)'
    BY <1>2, <1>4 DEF Complete, DataFrame
  <1>9. Settled(u)'
    <2>1. Early(u)' => Marked(u)' = {}
      BY <1>1 DEF Settled, Callers, DataFrame
    <2>2. CommitSide(u)' => \A s \in Marked(u)' : Gone(u, s)'
      BY <1>3 DEF Settled, DataFrame
    <2> QED
      BY <1>3, <2>1, <2>2 DEF Settled, DataFrame, collectShards
  <1>10. OwnIntents(u)' /\ Unreported(u)'
    BY DEF OwnIntents, Unreported, DataFrame, Owned
  <1> QED
    BY <1>5, <1>6, <1>7, <1>8, <1>9, <1>10

\* A step that adds nothing about u (Frame) and leaves its intents alone.
LEMMA FrameData ==
  ASSUME NEW u \in Txns, Frame(u), effect \subseteq effect',
         \A k \in Keys : <<u, k>> \in intents' <=> <<u, k>> \in intents,
         \A p \in replies' : p.req.txn = u => p \in replies,
         \A r \in Replicas : scan'[u][r] \in {scan[u][r], NoScan}
  PROVE  DataFrame(u)
  <1>1. CommitSide(u)' => CommitSide(u)
    <2>1. CommitDecided(u)' => CommitDecided(u)
      BY FrameKept DEF Kept
    <2>2. Sent("commit", u)' => Sent("commit", u)
      BY DEF Sent, Frame
    <2> QED
      BY <2>1, <2>2 DEF CommitSide, Frame
  <1>2. Marked(u)' \subseteq Marked(u)
    <2>1. \A r \in Replicas : rec'[u][r] \in {rec[u][r], NoRec}
      BY DEF Frame
    <2>2. NoRec.resolved = {} /\ NoScan.resolved = {} /\ NoScan.done = {}
      BY DEF NoRec, NoScan
    <2> QED
      BY <2>1, <2>2 DEF Marked
  <1> QED
    BY <1>1, <1>2 DEF DataFrame, Frame

\* Where the commit side of t can come from in a step.
LEMMA CommitSideFrom ==
  ASSUME NEW t \in Txns,
         pc'[t] \in {"commit", "resolve"} => CommitSide(t),
         result'[t] \in {"synced", "committed"} => CommitSide(t),
         \A q \in net' : q.txn = t /\ q.op \in {"commit", "resolve"}
                            /\ (q.op = "resolve" => q.status = Committed)
                         => q \in net \/ CommitSide(t),
         \A p \in replies' : p.req.txn = t /\ p.req.op = "commit" => p \in replies \/ CommitSide(t),
         \A s \in Shards : <<t, s, "applied">> \in effect' =>
                           <<t, s, "applied">> \in effect \/ CommitSide(t),
         \A r \in Replicas : rec'[t][r].status = Committed => CommitSide(t),
         \A r \in Replicas : scan'[t][r] # NoScan /\ scan'[t][r].status = Committed =>
                             CommitSide(t)
  PROVE  CommitSide(t)' => CommitSide(t)
  <1> SUFFICES ASSUME ~CommitSide(t) PROVE ~CommitSide(t)'
    OBVIOUS
  <1>1. ~Sent("commit", t)' /\ ~SentCommitted(t)'
    BY DEF CommitSide, CommitDecided, Sent, SentCommitted
  <1>2. ~Acked("commit", t)' /\ ~Has(t, "applied")'
    BY DEF CommitSide, CommitDecided, Acked, Has
  <1> QED
    BY <1>1, <1>2 DEF CommitSide, CommitDecided

-----------------------------------------------------------------------------
(***************************************************************************)
(* The orchestrator preserves the invariant.                               *)
(***************************************************************************)

\* A phase that ends the transaction, or asks for its abort, or passes on its
\* commit, touches no intents.
LEMMA ProceedData ==
  ASSUME TInv, NEW t \in Txns, pc[t] \notin {"idle", "done"}, NEW p, NEW Q, Proceed(t, p, Q),
         p \in {"abort", "resolve", "done"}, p = "resolve" => CommitSide(t),
         result'[t] # result[t] => p = "done",
         result'[t] \in {"synced", "committed"} => CommitSide(t),
         result'[t] = "synced" => result[t] = "synced",
         \A q \in Q : /\ q.txn = t /\ q.op \in {"abort", "resolve"} /\ q.src \notin Replicas
                      /\ q.op = "resolve" => CommitSide(t)
  PROVE  DataFrame(t)
  <1>1. /\ pc'[t] = p /\ net' = net \cup Q /\ UNCHANGED <<rec, scan, intents, effect>>
        /\ \A x \in replies' : x \in replies /\ (x.req.txn = t => x.req.src # "orch")
    BY DEF Proceed, OtherReplies, TInv, TypeOK, recVars, dataVars
  <1>2. CommitSide(t)' => CommitSide(t)
    <2>1. \A r \in Replicas : rec[t][r].status = Committed => CommitSide(t)
      BY DEF CommitSide, CommitDecided
    <2>2. \A r \in Replicas : scan[t][r] # NoScan /\ scan[t][r].status = Committed => CommitSide(t)
      BY DEF CommitSide, CommitDecided
    <2> QED
      BY <1>1, <2>1, <2>2, CommitSideFrom
  <1>3. Marked(t)' = Marked(t)
    BY <1>1 DEF Marked
  <1> QED
    BY <1>1, <1>2, <1>3 DEF DataFrame, Early

\* Begin touches nothing but the init request.
LEMMA BeginData ==
  ASSUME TInv, NEW t \in Txns, NEW n, NEW c, Begin(t, n, c), TxnInv(t), Unreported(t)
  PROVE  DataFrame(t)
  <1> DEFINE i == Req("init", t, c, "orch")
  <1>1. /\ pc[t] = "idle" /\ pc'[t] = "init" /\ net' = net \cup {i}
        /\ UNCHANGED <<result, replies, rec, scan, intents, effect>>
    BY DEF Begin, TInv, TypeOK, recVars, dataVars
  <1>2. i.op = "init" /\ i.src = "orch"
    BY ReqFields
  <1> HIDE DEF i
  <1>3. CommitSide(t)' => CommitSide(t)
    <2>1. \A r \in Replicas : rec[t][r].status = Committed => CommitSide(t)
      BY DEF CommitSide, CommitDecided
    <2>2. \A r \in Replicas : scan[t][r] # NoScan /\ scan[t][r].status = Committed => CommitSide(t)
      BY DEF CommitSide, CommitDecided
    <2>3. result[t] \in {"synced", "committed"} => CommitSide(t)
      BY DEF CommitSide, CommitDecided
    <2> QED
      BY <1>1, <1>2, <2>1, <2>2, <2>3, CommitSideFrom
  <1>4. Marked(t)' = Marked(t)
    BY <1>1 DEF Marked
  <1> QED
    BY <1>1, <1>2, <1>3, <1>4, TxnAssumption DEF DataFrame

\* writeIntents: the first intents are sent; no decision can exist yet.
LEMMA WriteIntentsData ==
  ASSUME TInv, NEW t \in Txns, DataInv(t), writeIntents(t), TxnInv(t)'
  PROVE  DataInv(t)'
  <1> DEFINE Q == {Req("intent", t, s, "orch") : s \in collectShards(t)}
  <1>1. /\ pc[t] = "init" /\ pc'[t] = "intents" /\ net' = net \cup Q
        /\ UNCHANGED <<result, rec, scan, intents, effect>>
        /\ \A x \in replies' : x \in replies /\ (x.req.txn = t => x.req.src # "orch")
    BY DEF writeIntents, Proceed, OtherReplies, TInv, TypeOK, recVars, dataVars
  <1>2. \A q \in Q : /\ q.op = "intent" /\ q.src = "orch" /\ q.shard \in collectShards(t)
                     /\ q = Req("intent", t, q.shard, "orch")
    BY DEF Req
  <1> HIDE DEF Q
  <1>3. ~CommitSide(t)'
    BY <1>1 DEF TxnInv, Undecided
  <1>4. \A p \in replies' : p.req.txn = t =>
           p.req.op \notin {"intent", "resolve"} /\ p.req.src \notin Replicas
    BY <1>1, ReqFields DEF DataInv, Callers, Early
  <1>5. Callers(t)'
    BY <1>1, <1>2, <1>4, TxnAssumption DEF DataInv, Callers, collectShards
  <1>6. Untouched(t)' /\ Prepared(t)' /\ Complete(t)'
    BY <1>1, <1>3, <1>4 DEF Untouched, Prepared, Complete
  <1>7. Settled(t)'
    BY <1>1, <1>3 DEF DataInv, Settled, Marked, Early
  <1>8. OwnIntents(t)' /\ Unreported(t)'
    BY <1>1 DEF DataInv, OwnIntents, Unreported, Owned
  <1> QED
    BY <1>5, <1>6, <1>7, <1>8 DEF DataInv

\* commitTransaction: every shard has answered, so all intents are in the store
\* and none is under way.
LEMMA CommitData ==
  ASSUME TInv, NEW t \in Txns, DataInv(t), commitTransaction(t)
  PROVE  DataInv(t)'
  <1> DEFINE c == Req("commit", t, coord[t], "orch")
  <1>1. /\ pc[t] = "intents" /\ pc'[t] = "commit" /\ net' = net \cup {c}
        /\ UNCHANGED <<result, rec, scan, intents, effect>>
        /\ \A x \in replies' : x \in replies /\ (x.req.txn = t => x.req.src # "orch")
    BY DEF commitTransaction, Proceed, OtherReplies, TInv, TypeOK, recVars, dataVars
  <1>2. c.op = "commit" /\ c.src = "orch"
    BY ReqFields
  <1> HIDE DEF c
  <1>3. ASSUME NEW s \in collectShards(t)
        PROVE  Req("intent", t, s, "orch") \notin net
               /\ \A k \in IntentKeys(t, s) : <<t, k>> \in intents
    <2>1. PICK p \in replies : /\ p.req.op = "intent" /\ p.req.txn = t /\ p.req.shard = s
                               /\ p.ok = TRUE
      BY DEF commitTransaction, Replied
    <2>2. p.req = Req("intent", t, s, "orch")
      BY <2>1 DEF DataInv, Callers
    <2> QED
      BY <2>1, <2>2 DEF DataInv, Prepared
  <1>4. ~Sent("intent", t)'
    <2>1. ~Sent("intent", t)
      BY <1>3 DEF Sent, DataInv, Callers
    <2> QED
      BY <1>1, <1>2, <2>1 DEF Sent
  <1>5. Held(t)'
    <2>1. ASSUME NEW k \in Owned(t) PROVE <<t, k>> \in intents
      <3>1. ShardOf[k] \in collectShards(t) /\ k \in IntentKeys(t, ShardOf[k])
        BY DEF collectShards, IntentKeys, Owned
      <3> QED
        BY <1>3, <3>1
    <2> QED
      BY <1>1, <2>1 DEF Held, Owned
  <1>6. \A p \in replies' : p.req.txn = t =>
           p.req.op \notin {"intent", "resolve"} /\ p.req.src \notin Replicas
    BY <1>1, ReqFields DEF DataInv, Callers, Early
  <1>7. Callers(t)'
    BY <1>1, <1>2, <1>6, TxnAssumption DEF DataInv, Callers, collectShards
  <1>8. Untouched(t)' /\ Prepared(t)' /\ Complete(t)'
    BY <1>1, <1>4, <1>5, <1>6 DEF Untouched, Prepared, Complete
  <1>9. Settled(t)'
    <2>1. Marked(t)' = {} /\ result'[t] = "none"
      BY <1>1 DEF DataInv, Settled, Marked, Early, Unreported
    <2> QED
      BY <1>6, <2>1 DEF Settled
  <1>10. OwnIntents(t)' /\ Unreported(t)'
    BY <1>1 DEF DataInv, OwnIntents, Unreported, Owned
  <1> QED
    BY <1>7, <1>8, <1>9, <1>10 DEF DataInv

\* resolveReturned: every shard has answered its resolution.
LEMMA ResolveReturnedData ==
  ASSUME TInv, NEW t \in Txns, DataInv(t), resolveReturned(t)
  PROVE  DataInv(t)'
  <1>1. /\ pc[t] = "resolve" /\ pc'[t] = "done" /\ net' = net /\ result'[t] = "synced"
        /\ UNCHANGED <<rec, scan, intents, effect>>
        /\ \A x \in replies' : x \in replies /\ (x.req.txn = t => x.req.src # "orch")
    BY DEF resolveReturned, Return, Proceed, OtherReplies, TInv, TypeOK, recVars, dataVars
  <1>2. CommitSide(t)
    BY <1>1 DEF CommitSide, CommitDecided
  <1>3. Held(t) /\ ~Sent("intent", t)
    BY <1>2 DEF DataInv, Complete
  <1>4. \A s \in collectShards(t) : Gone(t, s)
    BY <1>2 DEF resolveReturned, Replied, DataInv, Settled
  <1>5. \A p \in replies' : p.req.txn = t => p.req.op # "intent"
    BY <1>1, ReqFields DEF DataInv, Callers
  <1>6. Callers(t)'
    BY <1>1, <1>5 DEF DataInv, Callers, Early, collectShards
  <1>7. Untouched(t)' /\ Prepared(t)' /\ Complete(t)'
    BY <1>1, <1>3, <1>5 DEF Untouched, Prepared, Complete, Held, Owned, Sent
  <1>8. Settled(t)'
    BY <1>1, <1>2, <1>4 DEF DataInv, Settled, Marked, Early, Gone, collectShards
  <1>9. OwnIntents(t)' /\ Unreported(t)'
    BY <1>1 DEF DataInv, OwnIntents, Unreported, Owned
  <1> QED
    BY <1>6, <1>7, <1>8, <1>9 DEF DataInv

\* A step of the orchestrator leaves the stores and the recovery loops alone,
\* and produces no reply.
LEMMA OrchestratorLeaves ==
  ASSUME NEW t \in Txns, Orchestrator(t)
  PROVE  UNCHANGED <<rec, scan, intents, effect, val>> /\ replies' \subseteq replies
  <1>1. ASSUME NEW p, NEW Q, Proceed(t, p, Q)
        PROVE  UNCHANGED <<rec, scan, intents, effect, val>> /\ replies' \subseteq replies
    BY <1>1 DEF Proceed, OtherReplies, recVars, dataVars
  <1> QED
    BY <1>1 DEF Orchestrator, Begin, writeIntents, initFailed, commitTransaction,
       abortTransaction, abortReturned, commitFailed, notifyParticipantsSync,
       notifyParticipantsAsync, resolveReturned, resolveFailed, Crash, recVars, dataVars

\* Every step of the orchestrator of t, for t and for the others.
LEMMA OrchestratorData ==
  ASSUME TInv, NEW t \in Txns, Orchestrator(t), NEW u \in Txns, TxnInv(u), TxnInv(u)', DataInv(u)
  PROVE  DataInv(u)'
  <1>1. CASE u # t
    <2>1. DataFrame(u)
      BY <1>1, OrchestratorOther, OrchestratorLeaves, FrameData
    <2> QED
      BY <2>1, DataFrameInv
  <1>2. CASE u = t
    <2>1. /\ pc[t] \in {"commit", "resolve"} => CommitSide(t)
          /\ result[t] \in {"synced", "committed"} => CommitSide(t)
      BY DEF CommitSide, CommitDecided
    <2>2. ASSUME NEW n \in 1..MaxTs, NEW c \in collectShards(t), Begin(t, n, c)
          PROVE  DataInv(t)'
      BY <1>2, <2>2, BeginData, DataFrameInv DEF DataInv
    <2>3. CASE abortTransaction(t)
      <3> DEFINE Q == {Req("abort", t, coord[t], "orch")}
      <3>1. \A q \in Q : q.txn = t /\ q.op = "abort" /\ q.src \notin Replicas
        BY ReqFields, TxnAssumption
      <3>2. pc[t] = "intents" /\ Proceed(t, "abort", Q) /\ result' = result
        BY <2>3 DEF abortTransaction
      <3> HIDE DEF Q
      <3>3. result[t] = "none"
        BY <1>2, <3>2 DEF DataInv, Unreported
      <3> QED
        BY <1>2, <3>1, <3>2, <3>3, ProceedData, DataFrameInv
    <2>4. CASE notifyParticipantsSync(t) \/ notifyParticipantsAsync(t)
      <3>1. PICK p \in {"resolve", "done"}, S \in {collectShards(t), participants(t)},
                 cv \in {y.cv : y \in CommitReplies(t)} :
               Proceed(t, p, {ResolveReq(t, s, "orch", Committed, cv) : s \in S})
        BY <2>4 DEF notifyParticipantsSync, notifyParticipantsAsync
      <3> DEFINE Q == {ResolveReq(t, s, "orch", Committed, cv) : s \in S}
      <3>2. \A q \in Q : q.txn = t /\ q.op = "resolve" /\ q.src \notin Replicas
        BY TxnAssumption DEF ResolveReq
      <3>3. Proceed(t, p, Q)
        BY <3>1
      <3> HIDE DEF Q
      <3>4. /\ pc[t] = "commit"
            /\ result'[t] = result[t] \/ (result'[t] = "committed" /\ pc'[t] = "done")
        BY <2>4 DEF notifyParticipantsSync, notifyParticipantsAsync, Return, Proceed, TInv, TypeOK
      <3>5. result'[t] # result[t] => p = "done"
        BY <3>3, <3>4 DEF Proceed, TInv, TypeOK
      <3> QED
        BY <1>2, <2>1, <3>2, <3>3, <3>4, <3>5, ProceedData, DataFrameInv
    <2>5. CASE initFailed(t) \/ abortReturned(t) \/ commitFailed(t) \/ resolveFailed(t) \/ Crash(t)
      <3>1. /\ pc[t] \notin {"idle", "done"} /\ Proceed(t, "done", {})
            /\ \/ result'[t] \in {result[t], "failed", "unknown"}
               \/ result'[t] = "committed" /\ pc[t] = "resolve"
        BY <2>5 DEF initFailed, abortReturned, commitFailed, resolveFailed, Crash, Return,
           TInv, TypeOK
      <3>2. \A q \in {} : /\ q.txn = t /\ q.op \in {"abort", "resolve"} /\ q.src \notin Replicas
                          /\ q.op = "resolve" => CommitSide(t)
        OBVIOUS
      <3> QED
        BY <1>2, <2>1, <3>1, <3>2, ProceedData, DataFrameInv
    <2> QED
      BY <1>2, <2>2, <2>3, <2>4, <2>5, WriteIntentsData, CommitData, ResolveReturnedData
      DEF Orchestrator
  <1> QED
    BY <1>1, <1>2

-----------------------------------------------------------------------------
(***************************************************************************)
(* The shards preserve the invariant.                                      *)
(***************************************************************************)

\* A request in flight is for some transaction and shard.
LEMMA InFlight ==
  ASSUME TInv, NEW q \in net
  PROVE  q.txn \in Txns /\ q.shard \in Shards /\ q \in Requests
  BY DEF TInv, TypeOK, Requests

\* The commit side of t is what its records and passes make it.
LEMMA CommitSideRecords ==
  ASSUME NEW t \in Txns
  PROVE  /\ pc[t] \in {"commit", "resolve"} => CommitSide(t)
         /\ result[t] \in {"synced", "committed"} => CommitSide(t)
         /\ \A r \in Replicas : rec[t][r].status = Committed => CommitSide(t)
         /\ \A r \in Replicas : scan[t][r] # NoScan /\ scan[t][r].status = Committed => CommitSide(t)
  BY DEF CommitSide, CommitDecided

\* WriteIntent adds all the intents of its transaction on its shard, or nothing.
LEMMA WriteIntentAdds ==
  ASSUME NEW q \in net, WriteIntent(q)
  PROVE  \/ intents' = intents
         \/ \A t, k : <<t, k>> \in intents' <=>
               <<t, k>> \in intents \/ (t = q.txn /\ k \in IntentKeys(q.txn, q.shard))
  <1> DEFINE new == {q.txn} \X IntentKeys(q.txn, q.shard)
  <1>1. intents' = intents \/ intents' = intents \cup new
    BY DEF WriteIntent
  <1>2. \A t, k : <<t, k>> \in new <=> t = q.txn /\ k \in IntentKeys(q.txn, q.shard)
    OBVIOUS
  <1> HIDE DEF new
  <1> QED
    BY <1>1, <1>2

\* An applied request leaves the intents of the other transactions alone.
LEMMA ApplyOtherData ==
  ASSUME TInv, NEW q \in net, Apply(q), NEW u \in Txns, u # q.txn
  PROVE  DataFrame(u)
  <1>1. Frame(u)
    BY ApplyOther
  <1>2. \A p \in replies' : p \in replies \/ p.req = q
    BY ReplySelf DEF Apply, InitTransaction, WriteIntent, CommitTransaction,
       AbortTransaction, ResolveIntents
  <1>3. scan' = scan /\ effect \subseteq effect'
    BY DEF Apply, InitTransaction, WriteIntent, CommitTransaction, AbortTransaction,
       ResolveIntents, recVars, dataVars
  <1>4. \A k \in Keys : <<u, k>> \in intents' <=> <<u, k>> \in intents
    <2>1. CASE InitTransaction(q) \/ CommitTransaction(q) \/ AbortTransaction(q)
      BY <2>1 DEF InitTransaction, CommitTransaction, AbortTransaction, dataVars
    <2>2. CASE WriteIntent(q)
      BY <2>2, WriteIntentAdds
    <2>3. CASE ResolveIntents(q)
      BY <2>3 DEF ResolveIntents
    <2> QED
      BY <2>1, <2>2, <2>3 DEF Apply
  <1> QED
    BY <1>1, <1>2, <1>3, <1>4, FrameData

\* InitTransaction writes a record that marks nothing.
LEMMA InitTransactionData ==
  ASSUME TInv, NEW q \in net, InitTransaction(q), TxnInv(q.txn)
  PROVE  DataFrame(q.txn)
  <1> DEFINE t == q.txn
  <1>0. t \in Txns
    BY InFlight
  <1>1. /\ UNCHANGED <<pc, result, scan, intents, effect>> /\ net' = net \ {q}
        /\ \A r \in Replicas : rec'[t][r] = [status |-> Pending, resolved |-> {}]
    BY <1>0 DEF InitTransaction, TInv, TypeOK, orchVars, dataVars
  <1>2. \A p \in replies' : p \in replies \/ p.req = q
    BY ReplySelf DEF InitTransaction
  <1>3. q.op = "init" /\ q.src = "orch"
    BY ReqFields DEF InitTransaction, TxnInv, Origin
  <1>4. \A r \in Replicas : rec'[t][r].status # Committed /\ rec'[t][r].resolved = {}
    BY <1>1 DEF Pending, Committed
  <1>5. CommitSide(t)' => CommitSide(t)
    BY <1>0, <1>1, <1>2, <1>3, <1>4, CommitSideRecords, CommitSideFrom
  <1>6. Marked(t)' \subseteq Marked(t)
    BY <1>1, <1>4 DEF Marked
  <1> QED
    BY <1>1, <1>2, <1>3, <1>5, <1>6, TxnAssumption DEF DataFrame

\* CommitTransaction and AbortTransaction change the status of the record only.
LEMMA FinalizeData ==
  ASSUME TInv, NEW q \in net, CommitTransaction(q) \/ AbortTransaction(q), DataInv(q.txn)
  PROVE  DataFrame(q.txn)
  <1> DEFINE t == q.txn
  <1>0. t \in Txns
    BY InFlight
  <1>1. PICK status \in {Committed, Aborted} : /\ finalizeTransaction(t, status)
                                               /\ status = Committed <=> q.op = "commit"
    BY DEF CommitTransaction, AbortTransaction, Committed, Aborted
  <1>2. UNCHANGED <<pc, result, scan, intents, effect>> /\ q.op \in {"commit", "abort"}
    BY DEF CommitTransaction, AbortTransaction, orchVars, dataVars
  <1>3. \A x \in net' : x \in net \/ (x.op = "resolve" /\ x.status = status)
    BY <1>1, ReqFields DEF CommitTransaction, AbortTransaction, asyncResolveIntents,
       Committed, Aborted
  <1>4. \A p \in replies' : p \in replies \/ p.req = q
    BY ReplySelf DEF CommitTransaction, AbortTransaction
  <1>5. q.op = "commit" => CommitSide(t)
    BY DEF CommitSide, Sent
  <1>6. \A r \in Replicas : rec'[t][r] = NoRec \/ rec'[t][r].status = status
    BY <1>0, <1>1, FinalizeRec
  <1>7. \A r \in Replicas : rec'[t][r].resolved \subseteq rec[t][r].resolved
    BY <1>0, <1>1 DEF finalizeTransaction, TInv, TypeOK, Records, NoRec
  <1>8. \A r \in Replicas : rec'[t][r].status = Committed => status = Committed
    BY <1>6 DEF NoRec, Committed
  <1>9. CommitSide(t)' => CommitSide(t)
    BY <1>0, <1>1, <1>2, <1>3, <1>4, <1>5, <1>8, CommitSideRecords, CommitSideFrom
  <1>10. Marked(t)' \subseteq Marked(t)
    BY <1>2, <1>7 DEF Marked
  <1>11. q.src \notin Replicas
    BY <1>2 DEF DataInv, Callers
  <1> QED
    BY <1>2, <1>3, <1>4, <1>9, <1>10, <1>11 DEF DataFrame

\* WriteIntent: a request for intents in flight means that no commit was asked
\* for; the shard answers with its intents in the store, or without success.
LEMMA WriteIntentData ==
  ASSUME TInv, NEW q \in net, WriteIntent(q), DataInv(q.txn)
  PROVE  DataInv(q.txn)'
  <1> DEFINE t == q.txn
  <1>0. t \in Txns
    BY InFlight
  <1>1. /\ UNCHANGED <<pc, result, rec, scan, effect>> /\ net' = net \ {q} /\ q.op = "intent"
        /\ intents \subseteq intents'
    BY DEF WriteIntent, orchVars, recVars
  <1>2. q = Req("intent", t, q.shard, "orch") /\ q.src = "orch"
    BY <1>1, ReqFields DEF DataInv, Callers
  <1>3. ~CommitSide(t) /\ pc[t] \notin {"idle", "init"}
    BY <1>1 DEF DataInv, Complete, Untouched, Sent
  <1>4. ASSUME NEW p \in replies', p \notin replies
        PROVE  /\ p.req = q /\ pc[t] = "intents"
               /\ p.ok => \A k \in IntentKeys(t, q.shard) : <<t, k>> \in intents'
    <2>1. PICK ok \in BOOLEAN : /\ Reply(q, ok, 0)
                                /\ ok => intents' = intents \cup ({t} \X IntentKeys(t, q.shard))
      BY DEF WriteIntent
    <2>2. Waiting(q) /\ p = [req |-> q, ok |-> ok, cv |-> 0]
      BY <1>4, <2>1 DEF Reply
    <2>3. pc[t] = "intents"
      BY <1>1, <1>2, <2>2, TxnAssumption DEF Waiting
    <2> QED
      BY <2>1, <2>2, <2>3
  <1>5. ~CommitSide(t)'
    <2>1. \A p \in replies' : p.req.op = "commit" => p \in replies
      BY <1>1, <1>4
    <2> QED
      BY <1>0, <1>1, <1>3, <2>1, CommitSideRecords, CommitSideFrom
  <1>6. Callers(t)'
    <2>1. \A x \in net' : x \in net
      BY <1>1
    <2>2. ASSUME NEW p \in replies', p.req.txn = t
          PROVE  /\ p.req.op = "intent" =>
                       p.req = Req("intent", t, p.req.shard, "orch") /\ pc[t] = "intents"
                 /\ p.req.src \in Replicas => p.req.op = "resolve"
                 /\ p.req.op = "resolve" => ~Early(t)
      <3>1. CASE p \in replies
        BY <2>2, <3>1 DEF DataInv, Callers
      <3>2. CASE p \notin replies
        BY <1>1, <1>2, <1>4, <3>2, TxnAssumption
      <3> QED
        BY <3>1, <3>2
    <2> QED
      BY <1>1, <2>1, <2>2 DEF DataInv, Callers, Early, collectShards
  <1>7. Prepared(t)'
    <2>1. ASSUME NEW p \in replies', p.req.txn = t, p.req.op = "intent", p.ok
          PROVE  p.req \notin net' /\ \A k \in IntentKeys(t, p.req.shard) : <<t, k>> \in intents'
      <3>1. CASE p \in replies
        BY <1>1, <2>1, <3>1 DEF DataInv, Prepared
      <3>2. CASE p \notin replies
        BY <1>1, <1>4, <2>1, <3>2
      <3> QED
        BY <3>1, <3>2
    <2> QED
      BY <2>1 DEF Prepared, IntentKeys
  <1>8. Untouched(t)' /\ Complete(t)'
    BY <1>1, <1>3, <1>5 DEF Untouched, Complete
  <1>9. Settled(t)'
    BY <1>1, <1>5 DEF DataInv, Settled, Marked, Early
  <1>10. OwnIntents(t)'
    <2>1. \A k \in Keys : <<t, k>> \in intents' =>
             <<t, k>> \in intents \/ k \in IntentKeys(t, q.shard)
      BY WriteIntentAdds
    <2> QED
      BY <2>1 DEF DataInv, OwnIntents, Owned, IntentKeys
  <1>11. Unreported(t)'
    BY <1>1 DEF DataInv, Unreported
  <1> QED
    BY <1>6, <1>7, <1>8, <1>9, <1>10, <1>11 DEF DataInv

\* ResolveIntents: on the commit side it turns every intent of the shard into an
\* applied write, and no intent can arrive after it.
LEMMA ResolveIntentsData ==
  ASSUME TInv, NEW q \in net, ResolveIntents(q), TxnInv(q.txn), DataInv(q.txn)
  PROVE  DataInv(q.txn)'
  <1> DEFINE t == q.txn
             mine == {k \in Keys : ShardOf[k] = q.shard /\ <<t, k>> \in intents}
  <1>0. t \in Txns
    BY InFlight
  <1>1. /\ UNCHANGED <<pc, result, rec, scan>> /\ net' = net \ {q} /\ q.op = "resolve"
        /\ intents' = intents \ ({t} \X mine)
        /\ effect' = IF mine = {} THEN effect
                     ELSE effect \cup {<<t, q.shard,
                            IF q.status = Committed THEN "applied" ELSE "dropped">>}
    BY DEF ResolveIntents, orchVars, recVars
  <1>2. \A k : <<t, k>> \in intents' => <<t, k>> \in intents
    BY <1>1
  <1>3. Gone(t, q.shard)'
    BY <1>1 DEF Gone
  <1>4. \A s : Gone(t, s) => Gone(t, s)'
    BY <1>2 DEF Gone
  <1>5. \A p \in replies' : p \in replies \/ p.req = q
    BY ReplySelf DEF ResolveIntents
  <1>6. /\ q.status = Committed => CommitSide(t)
        /\ q.status # Committed => AbortSide(t)
    BY <1>1 DEF CommitSide, CommitDecided, SentCommitted, AbortSide, AbortDecided, SentAborted
  <1>7. ~Early(t) /\ (CommitSide(t) => q.status = Committed)
    BY <1>6 DEF TxnInv, Undecided, Exclusive, Early
  <1>8. CommitSide(t)' => CommitSide(t)
    BY <1>0, <1>1, <1>5, <1>6, CommitSideRecords, CommitSideFrom
  <1>9. Callers(t)'
    <2>1. ASSUME NEW p \in replies', p.req.txn = t
          PROVE  /\ p.req.op = "intent" =>
                       p.req = Req("intent", t, p.req.shard, "orch") /\ pc[t] = "intents"
                 /\ p.req.src \in Replicas => p.req.op = "resolve"
                 /\ p.req.op = "resolve" => ~Early(t)
      BY <1>1, <1>5, <1>7, <2>1 DEF DataInv, Callers
    <2> QED
      BY <1>1, <2>1 DEF DataInv, Callers, Early, collectShards
  <1>10. Untouched(t)' /\ Prepared(t)'
    <2>1. \A p \in replies' : p.req.txn = t => p.req.op # "intent"
      BY <1>1, <1>5, <1>7 DEF DataInv, Callers, Early
    <2> QED
      BY <1>1, <1>7, <2>1 DEF Untouched, Prepared, Early
  <1>11. Complete(t)'
    <2> SUFFICES ASSUME CommitSide(t) PROVE Held(t)' /\ ~Sent("intent", t)'
      BY <1>8 DEF Complete
    <2>1. Held(t) /\ ~Sent("intent", t) /\ q.status = Committed
      BY <1>7 DEF DataInv, Complete
    <2>2. ASSUME NEW k \in Owned(t)
          PROVE  <<t, k>> \in intents' \/ <<t, ShardOf[k], "applied">> \in effect'
      <3>1. k \in Keys
        BY <1>0, TxnAssumption DEF Owned
      <3>2. CASE k \in mine
        BY <1>1, <2>1, <3>2
      <3>3. CASE k \notin mine
        BY <1>1, <2>1, <2>2, <3>1, <3>3 DEF Held
      <3> QED
        BY <3>2, <3>3
    <2> QED
      BY <1>1, <2>1, <2>2 DEF Held, Owned, Sent
  <1>12. Settled(t)'
    <2>1. Marked(t)' = Marked(t)
      BY <1>1 DEF Marked
    <2> QED
      BY <1>1, <1>3, <1>4, <1>5, <1>7, <1>8, <2>1 DEF DataInv, Settled, Early, collectShards
  <1>13. OwnIntents(t)' /\ Unreported(t)'
    BY <1>1, <1>2 DEF DataInv, OwnIntents, Unreported, Owned
  <1> QED
    BY <1>9, <1>10, <1>11, <1>12, <1>13 DEF DataInv

\* Every applied request, for its transaction and for the others.
LEMMA ApplyData ==
  ASSUME TInv, NEW q \in net, Apply(q), NEW u \in Txns, TxnInv(u), DataInv(u)
  PROVE  DataInv(u)'
  <1>1. CASE u # q.txn
    BY <1>1, ApplyOtherData, DataFrameInv
  <1>2. CASE u = q.txn
    BY <1>2, InitTransactionData, FinalizeData, DataFrameInv, WriteIntentData,
       ResolveIntentsData DEF Apply
  <1> QED
    BY <1>1, <1>2

-----------------------------------------------------------------------------
(***************************************************************************)
(* The recovery loop and the environment preserve the invariant.           *)
(***************************************************************************)

\* The recovery loop writes no intents and produces no reply.
LEMMA RecoveryLeaves ==
  ASSUME NEW t \in Txns, NEW r \in Replicas, Recovery(t, r) \/ recoverStop(t, r)
  PROVE  UNCHANGED <<pc, result, intents, effect, val>> /\ replies' \subseteq replies
  BY DEF Recovery, recoverAbort, recoverDelete, recoverNotify, recoverNotified, recoverSave,
     recoverStop, orchVars, dataVars

\* recoverAbort sends a request nobody waits for.
LEMMA RecoverAbortData ==
  ASSUME TInv, NEW t \in Txns, NEW r \in Replicas, recoverAbort(t, r)
  PROVE  DataFrame(t)
  <1> DEFINE a == Req("abort", t, coord[t], "self")
  <1>1. a.op = "abort" /\ a.src \notin Replicas
    BY ReqFields, TxnAssumption
  <1>2. /\ net' = net \cup {a}
        /\ UNCHANGED <<pc, result, replies, rec, scan, intents, effect>>
    BY DEF recoverAbort, orchVars, recVars, dataVars
  <1> HIDE DEF a
  <1>3. CommitSide(t)' => CommitSide(t)
    BY <1>1, <1>2, CommitSideRecords, CommitSideFrom
  <1>4. Marked(t)' = Marked(t)
    BY <1>2 DEF Marked
  <1> QED
    BY <1>1, <1>2, <1>3, <1>4 DEF DataFrame

\* recoverNotify starts from what the record has marked.
LEMMA RecoverNotifyData ==
  ASSUME TInv, NEW t \in Txns, NEW r \in Replicas, recoverNotify(t, r)
  PROVE  DataFrame(t)
  <1>1. UNCHANGED <<pc, result, replies, rec, intents, effect>>
    BY DEF recoverNotify, orchVars, dataVars
  <1>2. \A q \in net' : q \in net \/ (q.op = "resolve" /\ q.status = rec[t][r].status)
    BY ReqFields DEF recoverNotify
  <1>3. \A x \in Replicas :
           \/ scan'[t][x] = scan[t][x]
           \/ /\ x = r /\ scan'[t][x].status = rec[t][r].status
              /\ scan'[t][x].resolved = rec[t][r].resolved /\ scan'[t][x].done = {}
    BY DEF recoverNotify, TInv, TypeOK
  <1>4. CommitSide(t)' => CommitSide(t)
    BY <1>1, <1>2, <1>3, CommitSideRecords, CommitSideFrom
  <1>5. Marked(t)' \subseteq Marked(t)
    BY <1>1, <1>3 DEF Marked
  <1> QED
    BY <1>1, <1>2, <1>4, <1>5 DEF DataFrame

\* recoverNotified marks a participant only if it has answered a resolution.
LEMMA RecoverNotifiedData ==
  ASSUME TInv, NEW t \in Txns, NEW r \in Replicas, NEW s \in Shards, recoverNotified(t, r, s),
         DataInv(t)
  PROVE  DataFrame(t)
  <1>1. UNCHANGED <<pc, result, net, rec, intents, effect>> /\ replies' \subseteq replies
    BY DEF recoverNotified, orchVars, dataVars
  <1>2. PICK ok \in BOOLEAN : /\ ok => ScanReplies(t, r, s) # {}
                              /\ scan' = [scan EXCEPT ![t][r] = Answered(@, s, ok)]
    BY DEF recoverNotified
  <1>3. scan[t][r] \in Scans /\ scan[t][r] # NoScan
    BY DEF recoverNotified, TInv, TypeOK, NoScan
  <1>4. \A x \in Replicas :
           \/ scan'[t][x] = scan[t][x]
           \/ /\ scan[t][x] # NoScan /\ scan'[t][x].status = scan[t][x].status
              /\ scan'[t][x].resolved = scan[t][x].resolved
              /\ scan'[t][x].done \subseteq scan[t][x].done \cup (IF ok THEN {s} ELSE {})
    <2>1. /\ Answered(scan[t][r], s, ok).status = scan[t][r].status
          /\ Answered(scan[t][r], s, ok).resolved = scan[t][r].resolved
          /\ Answered(scan[t][r], s, ok).done \subseteq
                scan[t][r].done \cup (IF ok THEN {s} ELSE {})
      BY <1>3 DEF Answered, Scans
    <2> QED
      BY <1>2, <1>3, <2>1 DEF TInv, TypeOK
  <1>5. ok => \E p \in replies : p.req.txn = t /\ p.req.op = "resolve" /\ p.req.shard = s
    BY <1>2 DEF ScanReplies, DataInv, Callers
  <1>6. CommitSide(t)' => CommitSide(t)
    BY <1>1, <1>4, CommitSideRecords, CommitSideFrom
  <1>7. \A x \in Marked(t)' : x \in Marked(t) \/ (ok /\ x = s)
    BY <1>1, <1>4 DEF Marked
  <1> QED
    BY <1>1, <1>5, <1>6, <1>7 DEF DataFrame

\* recoverSave moves marks from the pass to the record.
LEMMA RecoverSaveData ==
  ASSUME TInv, NEW t \in Txns, NEW r \in Replicas, recoverSave(t, r)
  PROVE  DataFrame(t)
  <1> DEFINE st == scan[t][r].status
             q0 == ResolveReq(t, coord[t], "self", st, Version(t))
  <1>1. /\ UNCHANGED <<pc, result, replies, intents, effect>>
        /\ scan[t][r] # NoScan /\ net' = net \cup {q0}
    BY DEF recoverSave, orchVars, dataVars
  <1>2. q0.op = "resolve" /\ q0.status = st
    BY ReqFields
  <1> HIDE DEF q0
  <1>3. \A x \in Replicas : scan'[t][x] \in {scan[t][x], NoScan}
    BY DEF recoverSave, TInv, TypeOK
  <1>4. \A x \in Replicas :
           \/ rec'[t][x] = rec[t][x]
           \/ /\ rec'[t][x].status = st
              /\ rec'[t][x].resolved = scan[t][r].resolved \cup scan[t][r].done
    BY DEF recoverSave, TInv, TypeOK
  <1>5. CommitSide(t)' => CommitSide(t)
    BY <1>1, <1>2, <1>3, <1>4, CommitSideRecords, CommitSideFrom
  <1>6. Marked(t)' \subseteq Marked(t)
    <2>1. NoScan.resolved = {} /\ NoScan.done = {}
      BY DEF NoScan
    <2> QED
      BY <1>3, <1>4, <2>1 DEF Marked
  <1> QED
    BY <1>1, <1>2, <1>5, <1>6 DEF DataFrame

\* Every step of the recovery loop, for t and for the others.
LEMMA RecoveryData ==
  ASSUME TInv, NEW t \in Txns, NEW r \in Replicas, Recovery(t, r) \/ recoverStop(t, r),
         NEW u \in Txns, DataInv(u)
  PROVE  DataInv(u)'
  <1>1. CASE u # t
    <2>1. \A x \in Replicas : scan'[u][x] = scan[u][x]
      BY <1>1 DEF Recovery, recoverAbort, recoverDelete, recoverNotify, recoverNotified,
         recoverSave, recoverStop, recVars, TInv, TypeOK
    <2> QED
      BY <1>1, <2>1, RecoveryOther, RecoveryLeaves, FrameData, DataFrameInv
  <1>2. CASE u = t
    <2>1. CASE recoverDelete(t, r) \/ recoverStop(t, r)
      <3>1. Frame(t)
        <4>1. CASE recoverDelete(t, r)
          BY <4>1 DEF recoverDelete, Frame, TInv, TypeOK, orchVars, dataVars
        <4>2. CASE recoverStop(t, r)
          BY <4>2 DEF recoverStop, Frame, TInv, TypeOK, orchVars, dataVars
        <4> QED
          BY <2>1, <4>1, <4>2
      <3>2. \A x \in Replicas : scan'[t][x] \in {scan[t][x], NoScan}
        BY <2>1 DEF recoverDelete, recoverStop, TInv, TypeOK
      <3> QED
        BY <1>2, <2>1, <3>1, <3>2, RecoveryLeaves, FrameData, DataFrameInv
    <2> QED
      BY <1>2, <2>1, RecoverAbortData, RecoverNotifyData, RecoverNotifiedData, RecoverSaveData,
         DataFrameInv DEF Recovery
  <1> QED
    BY <1>1, <1>2

\* Every step of the environment.
LEMMA EnvironmentData ==
  ASSUME TInv, Environment, NEW u \in Txns, DataInv(u) PROVE DataInv(u)'
  <1>1. ASSUME NEW q \in net, Lose(q) PROVE DataFrame(u)
    BY <1>1, FrameData DEF Lose, Frame, orchVars, recVars, dataVars
  <1>2. ASSUME NEW t \in Txns, PassCreated(t) PROVE DataFrame(u)
    <2>1. UNCHANGED <<pc, result, net, replies, rec, scan, intents, effect>>
      BY <1>2 DEF PassCreated, orchVars, dataVars
    <2>2. CommitSide(u)' => CommitSide(u)
      BY <2>1, CommitSideRecords, CommitSideFrom
    <2>3. Marked(u)' = Marked(u)
      BY <2>1 DEF Marked
    <2> QED
      BY <2>1, <2>2, <2>3 DEF DataFrame
  <1>3. ASSUME NEW t \in Txns, PassFinalized(t) PROVE DataFrame(u)
    BY <1>3, FrameData DEF PassFinalized, Frame, orchVars, dataVars
  <1>4. ASSUME NEW s \in Shards, NEW r \in Replicas, ChangeLeader(s, r) PROVE DataFrame(u)
    BY <1>4, FrameData DEF ChangeLeader, Frame, orchVars, dataVars
  <1> QED
    BY <1>1, <1>2, <1>3, <1>4, DataFrameInv, RecoveryData DEF Environment

-----------------------------------------------------------------------------
(***************************************************************************)
(* The theorems about the data.                                            *)
(***************************************************************************)

\* Initially there are no intents and nothing is known of them.
LEMMA DInvInit == Init => DInv
  <1> SUFFICES ASSUME Init, NEW t \in Txns PROVE DataInv(t)
    BY IInvInit DEF DInv
  <1>1. Callers(t) /\ Untouched(t) /\ Prepared(t)
    BY DEF Init, Callers, Untouched, Prepared, Sent
  <1>2. ~CommitSide(t)
    BY IInvInit DEF Init, IInv, TxnInv, Undecided
  <1>3. Marked(t) = {}
    BY DEF Init, Marked, NoRec, NoScan
  <1>4. Complete(t) /\ Settled(t) /\ OwnIntents(t) /\ Unreported(t)
    BY <1>2, <1>3 DEF Init, Complete, Settled, OwnIntents, Unreported
  <1> QED
    BY <1>1, <1>4 DEF DataInv

\* Every step preserves the invariant.
LEMMA DInvStep == ASSUME Prompt PROVE DInv /\ [Next]_vars => DInv'
  <1> SUFFICES ASSUME DInv, [Next]_vars PROVE DInv'
    OBVIOUS
  <1>1. TInv /\ IInv'
    BY IInvStep DEF DInv, IInv, TInv
  <1>2. ASSUME NEW u \in Txns PROVE DataInv(u)'
    <2>1. TxnInv(u) /\ DataInv(u) /\ TxnInv(u)'
      BY <1>1 DEF DInv, IInv
    <2>2. CASE UNCHANGED vars
      <3>1. Frame(u)
        BY <2>2 DEF vars, orchVars, recVars, dataVars, Frame
      <3>2. DataFrame(u)
        BY <2>2, <3>1, FrameData DEF vars, orchVars, recVars, dataVars
      <3> QED
        BY <2>1, <3>2, DataFrameInv
    <2>3. CASE Next
      BY <1>1, <2>1, <2>3, OrchestratorData, ApplyData, RecoveryData, EnvironmentData DEF Next
    <2> QED
      BY <2>2, <2>3
  <1> QED
    BY <1>1, <1>2 DEF DInv

\* A commit that is decided has all its parts; one that was reported as synced
\* has no intents left.
LEMMA DInvImplies == DInv => NoWriteLost /\ SyncVisible
  <1> SUFFICES ASSUME DInv PROVE NoWriteLost /\ SyncVisible
    OBVIOUS
  <1>1. ASSUME NEW t \in Txns, NEW r \in Replicas, rec[t][r].status = Committed
        PROVE  Held(t)
    <2>1. CommitSide(t)
      BY <1>1 DEF CommitSide, CommitDecided
    <2> QED
      BY <2>1 DEF DInv, DataInv, Complete
  <1>2. ASSUME NEW t \in Txns, result[t] = "synced", NEW k \in Owned(t)
        PROVE  <<t, k>> \notin intents /\ <<t, ShardOf[k], "applied">> \in effect
    <2>1. CommitSide(t)
      BY <1>2 DEF CommitSide, CommitDecided
    <2>2. Held(t) /\ \A s \in collectShards(t) : Gone(t, s)
      BY <1>2, <2>1 DEF DInv, DataInv, Complete, Settled
    <2>3. ShardOf[k] \in collectShards(t) /\ k \in Keys
      BY TxnAssumption DEF collectShards, Owned
    <2> QED
      BY <2>2, <2>3 DEF Held, Gone
  <1> QED
    BY <1>1, <1>2 DEF NoWriteLost, SyncVisible, Held, Owned

\* If requests are prompt, no write or delete of a committed transaction is lost
\* between writeIntents and the end of its resolution.
THEOREM NothingLost == ASSUME Prompt PROVE Spec => []NoWriteLost
  BY DInvInit, DInvStep, DInvImplies, PTL DEF Spec

\* If requests are prompt, a transaction whose resolution notifyParticipantsSync
\* has waited for is applied on every shard, and no intent of it comes back.
THEOREM SyncMeansVisible == ASSUME Prompt PROVE Spec => []SyncVisible
  BY DInvInit, DInvStep, DInvImplies, PTL DEF Spec

\* Only recoverDelete removes a record that says Committed, and the marks it
\* goes by are true.
LEMMA CleanupKept ==
  ASSUME DInv, Next, NEW t \in Txns, NEW r \in Replicas,
         rec[t][r].status = Committed, rec'[t][r] = NoRec,
         NEW k \in Keys, <<t, k>> \in intents
  PROVE  ShardOf[k] = coord[t]
  <1>1. TInv /\ TxnInv(t) /\ DataInv(t) /\ rec[t][r] # NoRec
    BY DEF DInv, IInv, TInv, NoRec, Committed
  <1>2. CommitSide(t) /\ CommitDecided(t) /\ ~AbortSide(t) /\ ~Clean(t)
    BY <1>1 DEF CommitSide, CommitDecided, TxnInv, Exclusive, Clean
  <1>3. ASSUME NEW q \in net, Apply(q) PROVE FALSE
    <2>1. q.txn \in Txns
      BY <1>1, InFlight
    <2>2. CASE InitTransaction(q)
      BY <1>1, <2>1, <2>2 DEF InitTransaction, NoRec, TInv, TypeOK, Pending
    <2>3. ASSUME NEW st \in {Committed, Aborted}, finalizeTransaction(q.txn, st)
          PROVE  rec'[t][r] # NoRec
      <3>1. rec[t][r] \in Records
        BY <1>1 DEF TInv, TypeOK
      <3>2. [rec[t][r] EXCEPT !.status = st] # NoRec
        BY <3>1 DEF Records, NoRec, Committed, Aborted
      <3> QED
        BY <1>1, <2>1, <2>3, <3>2 DEF finalizeTransaction, TInv, TypeOK
    <2>4. CASE WriteIntent(q) \/ ResolveIntents(q)
      BY <1>1, <2>4 DEF WriteIntent, ResolveIntents, recVars
    <2> QED
      BY <1>3, <2>2, <2>3, <2>4 DEF Apply, CommitTransaction, AbortTransaction
  <1>4. ASSUME NEW u \in Txns, Orchestrator(u) PROVE FALSE
    BY <1>1, <1>4, OrchestratorLeaves
  <1>5. CASE Environment
    BY <1>1, <1>5 DEF Environment, Lose, PassCreated, PassFinalized, ChangeLeader, recoverStop, recVars
  <1>6. ASSUME NEW u \in Txns, NEW x \in Replicas, Recovery(u, x) PROVE ShardOf[k] = coord[t]
    <2>1. CASE recoverDelete(u, x)
      <3>1. u = t /\ x = r
        BY <1>1, <2>1 DEF recoverDelete, TInv, TypeOK
      <3>2. participants(t) \subseteq rec[t][r].resolved
        BY <2>1, <3>1 DEF recoverDelete, AllResolved
      <3>3. \A s \in participants(t) : s \in Marked(t)
        BY <3>2, CollectShards DEF Marked, participants
      <3>4. \A s \in participants(t) : Gone(t, s)
        BY <1>1, <1>2, <3>3 DEF DataInv, Settled
      <3>5. k \in Owned(t)
        BY <1>1 DEF DataInv, OwnIntents
      <3>6. ShardOf[k] \in collectShards(t)
        BY <3>5 DEF Owned, collectShards
      <3> QED
        BY <3>4, <3>6 DEF Gone, participants
    <2>2. CASE recoverSave(u, x)
      <3>1. \/ rec'[t][r] = rec[t][r]
            \/ u = t /\ x = r /\ rec'[t][r].status = scan[t][r].status
        BY <1>1, <2>2 DEF recoverSave, TInv, TypeOK
      <3>2. CASE u = t /\ x = r /\ rec'[t][r].status = scan[t][r].status
        <4>1. scan[t][r].status # Committed => AbortDecided(t)
          BY <2>2, <3>2 DEF recoverSave, AbortDecided
        <4> QED
          BY <1>2, <3>2, <4>1 DEF AbortSide, NoRec, Committed
      <3> QED
        BY <1>1, <3>1, <3>2
    <2>3. CASE recoverAbort(u, x) \/ recoverNotify(u, x) \/ \E s \in Shards : recoverNotified(u, x, s)
      BY <1>1, <2>3 DEF recoverAbort, recoverNotify, recoverNotified, recVars
    <2> QED
      BY <1>6, <2>1, <2>2, <2>3 DEF Recovery
  <1> QED
    BY <1>3, <1>4, <1>5, <1>6 DEF Next

\* If requests are prompt, the recovery loop deletes the record of a committed
\* transaction only when no participant needs it any more.
THEOREM CleanupIsSafe == ASSUME Prompt PROVE Spec => CleanupSafe
  <1>1. DInv /\ [Next]_vars =>
           [\A t \in Txns, r \in Replicas :
              rec[t][r].status = Committed /\ rec'[t][r] = NoRec =>
                 \A k \in Keys : <<t, k>> \in intents => ShardOf[k] = coord[t]]_vars
    BY CleanupKept
  <1> QED
    BY <1>1, DInvInit, DInvStep, PTL DEF Spec, CleanupSafe

-----------------------------------------------------------------------------
(***************************************************************************)
(* The protocol implements AtomicCommit.                                   *)
(***************************************************************************)

\* What a step must leave alone to be a stutter of AtomicCommit.
SameParts(u) == \A s \in Parts[u] : PartState(u, s)' = PartState(u, s)
SameTold(u)  == Told(u)' = Told(u)

\* Such a step is one.
LEMMA Stutter ==
  ASSUME \A u \in Txns : SameParts(u) /\ SameTold(u)
  PROVE  UNCHANGED AC!vars
  BY DEF SameParts, SameTold, AC!vars

\* A step that moves one part of one transaction.
LEMMA OnePart ==
  ASSUME NEW t \in Txns, NEW s \in Parts[t], NEW to, PartState(t, s)' = to,
         \A x \in Parts[t] : x # s => PartState(t, x)' = PartState(t, x),
         \A u \in Txns : u # t => SameParts(u),
         \A u \in Txns : SameTold(u),
         NEW from, PartState(t, s) \in from
  PROVE  AC!Move(t, s, from, to)
  BY DEF SameParts, SameTold, AC!Move

\* A step that tells one caller something.
LEMMA OneReport ==
  ASSUME NEW t \in Txns, NEW what, Told(t) = "nothing", Told(t)' = what,
         \A u \in Txns : u # t => SameTold(u),
         \A u \in Txns : SameParts(u),
         what = "success" => AC!CanCommit(t), what = "failed" => AC!NoneCommitted(t)
  PROVE  AC!Report(t, what)
  BY DEF SameParts, SameTold, AC!Report

\* A transaction's parts are on shards, and the keys of each get an intent.
LEMMA PartsShards ==
  ASSUME NEW t \in Txns PROVE Parts[t] \subseteq Shards
  BY TxnAssumption DEF Parts

\* How far a part is depends on the intents and the effects on its shard.
LEMMA PartStateSame ==
  ASSUME NEW u \in Txns, NEW s \in Shards,
         \A k \in IntentKeys(u, s) : <<u, k>> \in intents' <=> <<u, k>> \in intents,
         \A e \in {"applied", "dropped"} : <<u, s, e>> \in effect' <=> <<u, s, e>> \in effect
  PROVE  PartState(u, s)' = PartState(u, s)
  <1>1. ({u} \X IntentKeys(u, s) \subseteq intents)' <=> ({u} \X IntentKeys(u, s) \subseteq intents)
    <2>1. \A k : k \in IntentKeys(u, s)' <=> k \in IntentKeys(u, s)
      BY DEF IntentKeys
    <2>2. \A S : {u} \X IntentKeys(u, s) \subseteq S <=> \A k \in IntentKeys(u, s) : <<u, k>> \in S
      OBVIOUS
    <2> QED
      BY <2>1, <2>2
  <1> QED
    BY <1>1 DEF PartState

\* On the commit side every part is held or applied.
LEMMA SideCanCommit ==
  ASSUME DInv, NEW t \in Txns, CommitSide(t) PROVE AC!CanCommit(t)
  <1>1. TxnInv(t) /\ Held(t)
    BY DEF DInv, IInv, DataInv, Complete
  <1>2. ASSUME NEW s \in Parts[t] PROVE PartState(t, s) \in {"prepared", "committed"}
    <2>1. s \in Shards
      BY PartsShards
    <2>2. <<t, s, "dropped">> \notin effect
      BY <1>1, <2>1 DEF TxnInv, Exclusive, AbortSide, AbortDecided, Has
    <2>3. <<t, s, "applied">> \notin effect => \A k \in IntentKeys(t, s) : <<t, k>> \in intents
      BY <1>1 DEF Held, Owned, IntentKeys
    <2>4. (\A k \in IntentKeys(t, s) : <<t, k>> \in intents) => {t} \X IntentKeys(t, s) \subseteq intents
      OBVIOUS
    <2> QED
      BY <2>2, <2>3, <2>4 DEF PartState
  <1> QED
    BY <1>2 DEF AC!CanCommit

\* Off the commit side no part is applied.
LEMMA SideNoneCommitted ==
  ASSUME NEW t \in Txns, ~CommitSide(t) PROVE AC!NoneCommitted(t)
  <1>1. \A s \in Parts[t] : <<t, s, "applied">> \notin effect
    BY PartsShards DEF CommitSide, CommitDecided, Has
  <1> QED
    BY <1>1 DEF AC!NoneCommitted, PartState

\* A step of an orchestrator is a report to its caller, or a stutter.
LEMMA OrchestratorImplements ==
  ASSUME DInv, NEW t \in Txns, Orchestrator(t) PROVE AC!Next \/ UNCHANGED AC!vars
  <1>1. TInv /\ TxnInv(t) /\ DataInv(t)
    BY DEF DInv, IInv, TInv
  <1>2. ASSUME NEW u \in Txns PROVE SameParts(u)
    <2>1. UNCHANGED <<intents, effect>>
      BY OrchestratorLeaves
    <2> QED
      BY <2>1 DEF SameParts, PartState, IntentKeys
  <1>3. ASSUME NEW u \in Txns, u # t PROVE SameTold(u)
    BY <1>1, <1>3, OrchestratorOther DEF Frame, SameTold, Told
  <1>4. CASE result'[t] = result[t]
    <2>1. SameTold(t)
      BY <1>4 DEF SameTold, Told
    <2> QED
      BY <1>2, <1>3, <2>1, Stutter
  <1>5. CASE result'[t] # result[t]
    <2>1. /\ pc[t] \in {"init", "abort", "commit", "resolve"}
          /\ result'[t] = "failed" => pc[t] \in {"init", "abort"}
          /\ result'[t] \in {"synced", "committed"} => pc[t] \in {"commit", "resolve"}
      BY <1>1, <1>5 DEF Orchestrator, Begin, writeIntents, initFailed, commitTransaction,
         abortTransaction, abortReturned, commitFailed, notifyParticipantsSync,
         notifyParticipantsAsync, resolveReturned, resolveFailed, Crash, Return, TInv, TypeOK
    <2>2. Told(t) = "nothing"
      BY <1>1, <2>1 DEF DataInv, Unreported, Told
    <2>3. pc[t] \in {"init", "abort"} => ~CommitSide(t)
      BY <1>1 DEF TxnInv, Undecided, Exclusive, AbortSide
    <2>4. pc[t] \in {"commit", "resolve"} => CommitSide(t)
      BY CommitSideRecords
    <2>5. CASE result'[t] \in {"synced", "committed"}
      <3>1. Told(t)' = "success" /\ AC!CanCommit(t)
        BY <2>1, <2>4, <2>5, SideCanCommit DEF Told
      <3>2. AC!Report(t, "success")
        BY <1>2, <1>3, <2>2, <3>1, OneReport
      <3> QED
        BY <3>2 DEF AC!Next
    <2>6. CASE result'[t] = "failed"
      <3>1. Told(t)' = "failed" /\ AC!NoneCommitted(t)
        BY <2>1, <2>3, <2>6, SideNoneCommitted DEF Told
      <3>2. AC!Report(t, "failed")
        BY <1>2, <1>3, <2>2, <3>1, OneReport
      <3> QED
        BY <3>2 DEF AC!Next
    <2>7. CASE result'[t] \notin {"synced", "committed", "failed"}
      <3>1. SameTold(t)
        BY <2>2, <2>7 DEF SameTold, Told
      <3> QED
        BY <1>2, <1>3, <3>1, Stutter
    <2> QED
      BY <2>5, <2>6, <2>7
  <1> QED
    BY <1>4, <1>5

\* WriteIntent prepares the part of its shard, or leaves it as it is.
LEMMA WriteIntentImplements ==
  ASSUME DInv, NEW q \in net, WriteIntent(q) PROVE AC!Next \/ UNCHANGED AC!vars
  <1> DEFINE t == q.txn
             s == q.shard
  <1>1. t \in Txns /\ s \in Shards
    BY InFlight DEF DInv, IInv, TInv
  <1>2. UNCHANGED <<result, effect>>
    BY DEF WriteIntent, orchVars
  <1>3. \A u \in Txns : SameTold(u)
    BY <1>2 DEF SameTold, Told
  <1>4. ASSUME NEW u \in Txns, NEW x \in Parts[u], u # t \/ x # s
        PROVE  PartState(u, x)' = PartState(u, x)
    <2>1. x \in Shards
      BY PartsShards
    <2>2. \A k \in IntentKeys(u, x) : <<u, k>> \in intents' <=> <<u, k>> \in intents
      BY <1>4, WriteIntentAdds DEF IntentKeys
    <2> QED
      BY <1>2, <2>1, <2>2, PartStateSame
  <1>5. CASE s \in Parts[t] /\ PartState(t, s)' # PartState(t, s)
    <2>1. \/ intents' = intents
          \/ {t} \X IntentKeys(t, s) \subseteq intents'
      BY DEF WriteIntent
    <2>2. PartState(t, s) = "working" /\ PartState(t, s)' = "prepared"
      BY <1>2, <1>5, <2>1 DEF PartState, IntentKeys
    <2>3. AC!Move(t, s, {"working"}, "prepared")
      BY <1>1, <1>3, <1>4, <1>5, <2>2, OnePart DEF SameParts
    <2> QED
      BY <1>1, <1>5, <2>3 DEF AC!Next, AC!Prepare
  <1>6. CASE ~(s \in Parts[t] /\ PartState(t, s)' # PartState(t, s))
    BY <1>3, <1>4, <1>6, Stutter DEF SameParts
  <1> QED
    BY <1>5, <1>6

\* ResolveIntents commits or aborts the part of its shard as the decision says,
\* or finds nothing to do.
LEMMA ResolveIntentsImplements ==
  ASSUME DInv, NEW q \in net, ResolveIntents(q) PROVE AC!Next \/ UNCHANGED AC!vars
  <1> DEFINE t == q.txn
             s == q.shard
             mine == {k \in Keys : ShardOf[k] = s /\ <<t, k>> \in intents}
             e == IF q.status = Committed THEN "applied" ELSE "dropped"
  <1>1. t \in Txns /\ s \in Shards
    BY InFlight DEF DInv, IInv, TInv
  <1>2. /\ result' = result /\ q.op = "resolve"
        /\ intents' = intents \ ({t} \X mine)
        /\ effect' = IF mine = {} THEN effect ELSE effect \cup {<<t, s, e>>}
    BY DEF ResolveIntents, orchVars
  <1>3. \A u \in Txns : SameTold(u)
    BY <1>2 DEF SameTold, Told
  <1>4. ASSUME NEW u \in Txns, NEW x \in Parts[u], u # t \/ x # s
        PROVE  PartState(u, x)' = PartState(u, x)
    <2>1. x \in Shards
      BY PartsShards
    <2>2. \A k \in IntentKeys(u, x) : <<u, k>> \in intents' <=> <<u, k>> \in intents
      BY <1>2, <1>4 DEF IntentKeys
    <2>3. \A f \in {"applied", "dropped"} : <<u, x, f>> \in effect' <=> <<u, x, f>> \in effect
      BY <1>2, <1>4
    <2> QED
      BY <2>1, <2>2, <2>3, PartStateSame
  <1>5. CASE mine = {} \/ (s \in Parts[t] /\ PartState(t, s)' = PartState(t, s))
    <2>1. mine = {} => intents' = intents /\ effect' = effect
      BY <1>2
    <2>2. ASSUME mine = {}, NEW x \in Parts[t] PROVE PartState(t, x)' = PartState(t, x)
      BY <2>1, <2>2 DEF PartState, IntentKeys
    <2> QED
      BY <1>3, <1>4, <1>5, <2>2, Stutter DEF SameParts
  <1>6. CASE mine # {} /\ ~(s \in Parts[t] /\ PartState(t, s)' = PartState(t, s))
    <2>1. TxnInv(t) /\ DataInv(t)
      BY <1>1 DEF DInv, IInv
    <2>2. s \in Parts[t]
      BY <1>1, <1>6, <2>1 DEF DataInv, OwnIntents, Owned, Parts
    <2>3. <<t, s, e>> \in effect'
      BY <1>2, <1>6
    <2>4. /\ q.status = Committed => CommitSide(t) /\ ~AbortSide(t)
          /\ q.status # Committed => AbortSide(t) /\ ~CommitSide(t)
      BY <1>2, <2>1 DEF CommitSide, CommitDecided, SentCommitted, AbortSide, AbortDecided,
         SentAborted, TxnInv, Exclusive
    <2>5. CASE q.status = Committed
      <3>1. AC!CanCommit(t)
        BY <1>1, <2>4, <2>5, SideCanCommit
      <3>2. PartState(t, s)' = "committed"
        BY <2>3, <2>5 DEF PartState
      <3>3. PartState(t, s) \in {"prepared"}
        BY <1>1, <1>6, <2>2, <3>1, <3>2 DEF AC!CanCommit
      <3>4. AC!Move(t, s, {"prepared"}, "committed")
        BY <1>1, <1>3, <1>4, <2>2, <3>2, <3>3, OnePart DEF SameParts
      <3>5. Told(t) # "failed"
        BY <2>4, <2>5 DEF Told, AbortSide
      <3>6. AC!Commit(t, s)
        BY <1>1, <3>1, <3>4, <3>5 DEF AC!Commit
      <3> QED
        BY <1>1, <2>2, <3>6 DEF AC!Next
    <2>6. CASE q.status # Committed
      <3>1. AC!NoneCommitted(t)
        BY <1>1, <2>4, <2>6, SideNoneCommitted
      <3>2. <<t, s, "applied">> \notin effect /\ <<t, s, "applied">> \notin effect'
        BY <1>1, <1>2, <2>4, <2>6 DEF CommitSide, CommitDecided, Has
      <3>3. PartState(t, s)' = "aborted"
        BY <2>3, <2>6, <3>2 DEF PartState
      <3>4. PartState(t, s) \in {"working", "prepared"}
        BY <1>6, <2>2, <3>2, <3>3 DEF PartState
      <3>5. AC!Move(t, s, {"working", "prepared"}, "aborted")
        BY <1>1, <1>3, <1>4, <2>2, <3>3, <3>4, OnePart DEF SameParts
      <3>6. Told(t) # "success"
        BY <2>4, <2>6 DEF Told, CommitSide, CommitDecided
      <3>7. AC!Abort(t, s)
        BY <1>1, <3>1, <3>5, <3>6 DEF AC!Abort
      <3> QED
        BY <1>1, <2>2, <3>7 DEF AC!Next
    <2> QED
      BY <2>5, <2>6
  <1> QED
    BY <1>5, <1>6

\* Every step of the protocol is a step of AtomicCommit, or a stutter.
LEMMA StepImplements == ASSUME DInv, [Next]_vars PROVE [AC!Next]_(AC!vars)
  <1>1. ASSUME UNCHANGED <<result, intents, effect>> PROVE UNCHANGED AC!vars
    <2>1. \A u \in Txns : SameParts(u) /\ SameTold(u)
      BY <1>1 DEF SameParts, SameTold, PartState, Told, IntentKeys
    <2> QED
      BY <2>1, Stutter
  <1>2. CASE UNCHANGED vars
    BY <1>1, <1>2 DEF vars, orchVars, dataVars
  <1>3. ASSUME NEW q \in net, InitTransaction(q) \/ CommitTransaction(q) \/ AbortTransaction(q)
        PROVE  UNCHANGED AC!vars
    BY <1>1, <1>3 DEF InitTransaction, CommitTransaction, AbortTransaction, orchVars, dataVars
  <1>4. ASSUME NEW t \in Txns, NEW r \in Replicas, Recovery(t, r) \/ recoverStop(t, r)
        PROVE  UNCHANGED AC!vars
    BY <1>1, <1>4, RecoveryLeaves
  <1>5. CASE Environment
    <2>1. CASE \E t \in Txns, r \in Replicas : recoverStop(t, r)
      BY <1>4, <2>1
    <2>2. CASE ~\E t \in Txns, r \in Replicas : recoverStop(t, r)
      BY <1>1, <1>5, <2>2 DEF Environment, Lose, PassCreated, PassFinalized, ChangeLeader,
         orchVars, dataVars
    <2> QED
      BY <2>1, <2>2
  <1> QED
    BY <1>2, <1>3, <1>4, <1>5, OrchestratorImplements, WriteIntentImplements,
       ResolveIntentsImplements DEF Next, Apply

\* Initially nothing is prepared and nobody has been told anything.
LEMMA InitImplements == Init => AC!Init
  <1> SUFFICES ASSUME Init PROVE AC!Init
    OBVIOUS
  <1>1. ASSUME NEW t \in Txns, NEW s \in Parts[t] PROVE PartState(t, s) = "working"
    <2>1. PICK k \in Writes[t] \cup Deletes[t] : ShardOf[k] = s
      BY <1>1 DEF Parts
    <2>2. <<t, k>> \in {t} \X IntentKeys(t, s) /\ intents = {} /\ effect = {}
      BY <2>1 DEF IntentKeys, Init
    <2> QED
      BY <2>2 DEF PartState
  <1>2. ASSUME NEW t \in Txns PROVE Told(t) = "nothing"
    BY <1>2 DEF Init, Told
  <1> QED
    BY <1>1, <1>2 DEF AC!Init

\* If requests are prompt, the orchestrator, the records, the recovery loops and
\* the shards together implement AtomicCommit: nothing is undone or done twice,
\* and a caller is told of a success only when every part is safe.
THEOREM TxnImplementsAtomicCommit == ASSUME Prompt PROVE Spec => ImplementsAtomicCommit
  <1>1. DInv /\ [Next]_vars => [AC!Next]_(AC!vars)
    BY StepImplements
  <1> QED
    BY <1>1, InitImplements, DInvInit, DInvStep, PTL DEF Spec, ImplementsAtomicCommit, AC!Spec

-----------------------------------------------------------------------------
(***************************************************************************)
(* Conditions on the workload.                                             *)
(***************************************************************************)

\* Transactions only write: a delete removes the version with the document.
NoDeletes == \A t \in Txns : Deletes[t] = {}

\* Transactions read what they write, and a key that one of them reads is
\* written only by transactions that read it too.
ReadModifyWrite ==
    \A t \in Txns :
        /\ Reads[t] \subseteq Owned(t)
        /\ \A u \in Txns : Reads[t] \cap Owned(u) \subseteq Reads[u]

-----------------------------------------------------------------------------
(***************************************************************************)
(* Timestamps and commit versions.                                         *)
(***************************************************************************)

\* The commit version of t, or 0 where the commit handler could not read it.
CommitVersion(t, cv) == cv = ts[t] \/ (ReadBackFails /\ cv = 0)

\* Before ExecuteTransaction is called there is nothing of t anywhere.
Idle(t) ==
    pc[t] = "idle" =>
        /\ coord[t] = None /\ ts[t] = 0
        /\ \A q \in net : q.txn # t
        /\ \A p \in replies : p.req.txn # t
        /\ \A k \in Keys : <<t, k>> \notin intents
        /\ \A r \in Replicas : scan[t][r] = NoScan

\* Afterwards it has a timestamp, and that is the version it commits with.
Stamped(t) ==
    /\ pc[t] # "idle" => ts[t] > 0
    /\ \A q \in net : q.txn = t /\ q.op = "resolve" /\ q.status = Committed =>
          CommitVersion(t, q.cv)
    /\ \A p \in replies : p.req.txn = t /\ p.req.op = "commit" => CommitVersion(t, p.cv)

\* A document's version is one that was given to it.
Documents ==
    \A k \in Keys :
        /\ val[k].by = None => val[k].ts = 0
        /\ val[k].ts \in {0, InitTs} \cup {ts[t] : t \in Txns}

StampInv == TInv /\ Documents /\ \A t \in Txns : Idle(t) /\ Stamped(t)


\* The step gives u no timestamp and no version of its own.
StampFrame(u) ==
    /\ pc'[u] = "idle" <=> pc[u] = "idle"
    /\ ts'[u] = ts[u] /\ coord'[u] = coord[u]
    /\ \A q \in net' : q.txn = u => q \in net \/
          (pc[u] # "idle" /\ (q.op = "resolve" /\ q.status = Committed => CommitVersion(u, q.cv)))
    /\ \A p \in replies' : p.req.txn = u => p \in replies \/
          (pc[u] # "idle" /\ (p.req.op = "commit" => CommitVersion(u, p.cv)))
    /\ \A k \in Keys : <<u, k>> \in intents' => <<u, k>> \in intents \/ pc[u] # "idle"
    /\ \A r \in Replicas : scan'[u][r] # NoScan => scan[u][r] # NoScan \/ pc[u] # "idle"

\* Such a step preserves what is known of its timestamp.
LEMMA StampFrameInv ==
  ASSUME NEW u \in Txns, Idle(u), Stamped(u), StampFrame(u) PROVE Idle(u)' /\ Stamped(u)'
  <1>1. Idle(u)'
    BY DEF Idle, StampFrame
  <1>2. \A cv : CommitVersion(u, cv)' <=> CommitVersion(u, cv)
    BY DEF CommitVersion, StampFrame
  <1>3. Stamped(u)'
    BY <1>2 DEF Stamped, StampFrame
  <1> QED
    BY <1>1, <1>3

\* The orchestrator passes on the version it was given.
LEMMA OrchestratorStamp ==
  ASSUME TInv, NEW t \in Txns, Orchestrator(t), NEW u \in Txns, Idle(u), Stamped(u)
  PROVE  Idle(u)' /\ Stamped(u)'
  <1>1. UNCHANGED <<scan, intents>> /\ replies' \subseteq replies
    BY OrchestratorLeaves
  <1>2. ASSUME NEW n \in 1..MaxTs, NEW c \in collectShards(t), Begin(t, n, c)
        PROVE  Idle(u)' /\ Stamped(u)'
    <2> DEFINE i == Req("init", t, c, "orch")
    <2>1. /\ pc[t] = "idle" /\ pc' = [pc EXCEPT ![t] = "init"] /\ ts' = [ts EXCEPT ![t] = n]
          /\ coord' = [coord EXCEPT ![t] = c] /\ net' = net \cup {i}
      BY <1>2 DEF Begin
    <2>2. i.op = "init" /\ i.txn = t
      BY ReqFields
    <2> HIDE DEF i
    <2>3. CASE u # t
      <3>1. StampFrame(u)
        BY <1>1, <2>1, <2>2, <2>3 DEF StampFrame, TInv, TypeOK
      <3> QED
        BY <3>1, StampFrameInv
    <2>4. CASE u = t
      <3>1. pc'[t] = "init" /\ ts'[t] = n /\ n > 0
        BY <2>1, TxnAssumption DEF TInv, TypeOK
      <3>2. (\A q \in net : q.txn # t) /\ (\A p \in replies : p.req.txn # t)
        BY <2>1, <2>4 DEF Idle
      <3> QED
        BY <1>1, <2>1, <2>2, <2>4, <3>1, <3>2 DEF Idle, Stamped
    <2> QED
      BY <2>3, <2>4
  <1>3. ASSUME NEW p, p # "idle", NEW Q, Proceed(t, p, Q), pc[t] # "idle",
               \A q \in Q : q.txn = t /\ (q.op = "resolve" => CommitVersion(t, q.cv))
        PROVE  Idle(u)' /\ Stamped(u)'
    <2>1. pc' = [pc EXCEPT ![t] = p] /\ net' = net \cup Q /\ UNCHANGED <<ts, coord>>
      BY <1>3 DEF Proceed
    <2>2. StampFrame(u)
      BY <1>1, <1>3, <2>1 DEF StampFrame, TInv, TypeOK
    <2> QED
      BY <2>2, StampFrameInv
  <1>4. CASE ~\E n \in 1..MaxTs, c \in collectShards(t) : Begin(t, n, c)
    <2>1. CASE writeIntents(t)
      BY <1>3, <2>1, ReqFields DEF writeIntents
    <2>2. CASE commitTransaction(t)
      BY <1>3, <2>2, ReqFields DEF commitTransaction
    <2>3. CASE abortTransaction(t)
      BY <1>3, <2>3, ReqFields DEF abortTransaction
    <2>4. CASE notifyParticipantsSync(t) \/ notifyParticipantsAsync(t)
      <3>1. PICK p \in {"resolve", "done"}, S \in {collectShards(t), participants(t)},
                 y \in CommitReplies(t) :
               Proceed(t, p, {ResolveReq(t, s, "orch", Committed, y.cv) : s \in S})
        BY <2>4 DEF notifyParticipantsSync, notifyParticipantsAsync
      <3>2. pc[t] = "commit"
        BY <2>4 DEF notifyParticipantsSync, notifyParticipantsAsync
      <3>3. CASE u = t
        <4>1. CommitVersion(t, y.cv)
          BY <3>3 DEF CommitReplies, Stamped
        <4>2. \A q \in {ResolveReq(t, s, "orch", Committed, y.cv) : s \in S} :
                 q.txn = t /\ q.cv = y.cv
          BY DEF ResolveReq
        <4> QED
          BY <1>3, <3>1, <3>2, <4>1, <4>2
      <3>4. CASE u # t
        <4>1. \A q \in {ResolveReq(t, s, "orch", Committed, y.cv) : s \in S} : q.txn = t
          BY ReqFields
        <4>2. StampFrame(u)
          BY <1>1, <3>1, <3>4, <4>1 DEF StampFrame, Proceed, TInv, TypeOK
        <4> QED
          BY <4>2, StampFrameInv
      <3> QED
        BY <3>3, <3>4
    <2>5. CASE \/ initFailed(t) \/ abortReturned(t) \/ commitFailed(t)
               \/ resolveReturned(t) \/ resolveFailed(t) \/ Crash(t)
      <3>1. Proceed(t, "done", {}) /\ pc[t] # "idle"
        BY <2>5 DEF initFailed, abortReturned, commitFailed, resolveReturned, resolveFailed, Crash
      <3>2. \A q \in {} : q.txn = t /\ (q.op = "resolve" => CommitVersion(t, q.cv))
        OBVIOUS
      <3> QED
        BY <1>3, <3>1, <3>2
    <2> QED
      BY <1>4, <2>1, <2>2, <2>3, <2>4, <2>5 DEF Orchestrator
  <1> QED
    BY <1>2, <1>4

\* An applied request belongs to a transaction that has started; a commit is
\* answered with its version.
LEMMA ApplyStamp ==
  ASSUME TInv, NEW q \in net, Apply(q), NEW u \in Txns, Idle(u), Stamped(u)
  PROVE  Idle(u)' /\ Stamped(u)'
  <1>1. UNCHANGED <<pc, ts, coord, scan>>
    BY DEF Apply, InitTransaction, WriteIntent, CommitTransaction, AbortTransaction,
       ResolveIntents, orchVars, recVars
  <1>2. u = q.txn => pc[u] # "idle"
    BY DEF Idle
  <1>3. \A x \in net' : x.txn = u => x \in net \/
           (u = q.txn /\ (x.op = "resolve" /\ x.status = Committed => CommitVersion(u, x.cv)))
    <2>1. CASE CommitTransaction(q)
      <3>1. \A x \in net' : x \in net \/ (x.txn = q.txn /\ x.cv = ts[q.txn])
        BY <2>1 DEF CommitTransaction, asyncResolveIntents, ResolveReq, Version
      <3> QED
        BY <3>1 DEF CommitVersion
    <2>2. CASE AbortTransaction(q)
      <3>1. \A x \in net' : x \in net \/ (x.txn = q.txn /\ x.status = Aborted)
        BY <2>2, ReqFields DEF AbortTransaction, asyncResolveIntents
      <3> QED
        BY <3>1 DEF Aborted, Committed
    <2>3. CASE InitTransaction(q) \/ WriteIntent(q) \/ ResolveIntents(q)
      BY <2>3 DEF InitTransaction, WriteIntent, ResolveIntents
    <2> QED
      BY <2>1, <2>2, <2>3 DEF Apply
  <1>4. \A p \in replies' : p.req.txn = u => p \in replies \/
           (u = q.txn /\ (p.req.op = "commit" => CommitVersion(u, p.cv)))
    <2>1. CASE CommitTransaction(q)
      <3>1. PICK cv \in {Version(q.txn)} \cup (IF ReadBackFails THEN {0} ELSE {}) :
               Reply(q, rec[q.txn][leader[q.shard]] # NoRec, cv)
        BY <2>1 DEF CommitTransaction
      <3>2. \A p \in replies' : p \in replies \/ (p.req = q /\ p.cv = cv)
        BY <3>1 DEF Reply
      <3>3. CommitVersion(q.txn, cv)
        BY <3>1 DEF CommitVersion, Version
      <3> QED
        BY <3>2, <3>3
    <2>2. CASE InitTransaction(q) \/ WriteIntent(q) \/ ResolveIntents(q) \/ AbortTransaction(q)
      <3>1. \A p \in replies' : p \in replies \/ p.req = q
        BY <2>2, ReplySelf DEF InitTransaction, WriteIntent, ResolveIntents, AbortTransaction
      <3>2. q.op # "commit"
        BY <2>2 DEF InitTransaction, WriteIntent, ResolveIntents, AbortTransaction
      <3> QED
        BY <3>1, <3>2
    <2> QED
      BY <2>1, <2>2 DEF Apply
  <1>5. \A k \in Keys : <<u, k>> \in intents' => <<u, k>> \in intents \/ u = q.txn
    <2>1. u # q.txn => \A k \in Keys : <<u, k>> \in intents' <=> <<u, k>> \in intents
      BY ApplyOtherData DEF DataFrame
    <2> QED
      BY <2>1
  <1>6. StampFrame(u)
    BY <1>1, <1>2, <1>3, <1>4, <1>5 DEF StampFrame
  <1> QED
    BY <1>6, StampFrameInv

\* The recovery loop resolves with the version of the record.
LEMMA RecoveryStamp ==
  ASSUME TInv, NEW t \in Txns, NEW r \in Replicas, Recovery(t, r) \/ recoverStop(t, r),
         NEW u \in Txns, Idle(u), Stamped(u)
  PROVE  Idle(u)' /\ Stamped(u)'
  <1>1. UNCHANGED <<pc, intents>> /\ replies' \subseteq replies
    BY RecoveryLeaves
  <1>2. UNCHANGED <<ts, coord>>
    BY DEF Recovery, recoverAbort, recoverDelete, recoverNotify, recoverNotified, recoverSave,
       recoverStop, orchVars
  <1>3. CASE u # t
    <2>1. Frame(u)
      BY <1>3, RecoveryOther
    <2> QED
      BY <1>1, <1>2, <2>1, StampFrameInv DEF Frame, StampFrame
  <1>4. CASE u = t
    <2>1. pc[t] = "idle" => coord[t] = None /\ scan[t][r] = NoScan
      BY <1>4 DEF Idle
    <2>2. pc[t] # "idle"
      BY <2>1 DEF Recovery, recoverAbort, recoverDelete, recoverNotify, recoverNotified,
         recoverSave, recoverStop, CanScan, NoScan
    <2>3. \A q \in net' : q.txn = t => q \in net \/ (q.op = "resolve" => q.cv = ts[t])
      BY ReqFields DEF Recovery, recoverAbort, recoverDelete, recoverNotify, recoverNotified,
         recoverSave, recoverStop, ResolveReq, Version
    <2>4. StampFrame(t)
      BY <1>1, <1>2, <2>2, <2>3 DEF StampFrame, CommitVersion
    <2> QED
      BY <1>4, <2>4, StampFrameInv
  <1> QED
    BY <1>3, <1>4

\* The environment stamps nothing.
LEMMA EnvironmentStamp ==
  ASSUME TInv, Environment, NEW u \in Txns, Idle(u), Stamped(u)
  PROVE  Idle(u)' /\ Stamped(u)'
  <1>1. ASSUME UNCHANGED <<pc, ts, coord, replies, intents, scan>>, net' \subseteq net
        PROVE  Idle(u)' /\ Stamped(u)'
    <2>1. StampFrame(u)
      BY <1>1 DEF StampFrame
    <2> QED
      BY <2>1, StampFrameInv
  <1>2. ASSUME NEW q \in net, Lose(q) PROVE Idle(u)' /\ Stamped(u)'
    BY <1>1, <1>2 DEF Lose, orchVars, recVars, dataVars
  <1>3. ASSUME NEW t \in Txns, PassCreated(t) \/ PassFinalized(t) PROVE Idle(u)' /\ Stamped(u)'
    BY <1>1, <1>3 DEF PassCreated, PassFinalized, orchVars, dataVars
  <1>4. ASSUME NEW s \in Shards, NEW r \in Replicas, ChangeLeader(s, r)
        PROVE  Idle(u)' /\ Stamped(u)'
    BY <1>1, <1>4 DEF ChangeLeader, orchVars, dataVars
  <1> QED
    BY <1>2, <1>3, <1>4, RecoveryStamp DEF Environment

\* Only ResolveIntents changes documents, and only those its transaction has an
\* intent on.
LEMMA DocumentsChange ==
  ASSUME StampInv, Next
  PROVE  \/ val' = val
         \/ \E q \in net : /\ ResolveIntents(q) /\ q.txn \in Txns /\ ts' = ts
                           /\ q.status = Committed => CommitVersion(q.txn, q.cv) /\ ts[q.txn] > 0
  <1>1. ASSUME NEW q \in net, Apply(q), ~ResolveIntents(q) PROVE val' = val
    BY <1>1 DEF Apply, InitTransaction, WriteIntent, CommitTransaction, AbortTransaction, dataVars
  <1>2. CASE Environment
    BY <1>2, RecoveryLeaves DEF Environment, Lose, PassCreated, PassFinalized, ChangeLeader, dataVars
  <1>3. ASSUME NEW q \in net, ResolveIntents(q)
        PROVE  /\ q.txn \in Txns /\ ts' = ts
               /\ q.status = Committed => CommitVersion(q.txn, q.cv) /\ ts[q.txn] > 0
    <2>1. q.txn \in Txns /\ ts' = ts /\ q.op = "resolve"
      BY <1>3, InFlight DEF StampInv, ResolveIntents, orchVars
    <2>2. Idle(q.txn) /\ Stamped(q.txn)
      BY <2>1 DEF StampInv
    <2> QED
      BY <2>1, <2>2 DEF Idle, Stamped
  <1> QED
    BY <1>1, <1>2, <1>3, OrchestratorLeaves, RecoveryLeaves DEF Next

\* What ResolveIntents does to a document.
LEMMA ResolveDocument ==
  ASSUME NEW q \in net, ResolveIntents(q), NEW k \in Keys
  PROVE  IF ShardOf[k] = q.shard /\ <<q.txn, k>> \in intents /\ q.status = Committed
         THEN IF k \in Deletes[q.txn] THEN val'[k] = [ts |-> 0, by |-> None]
              ELSE IF shouldWriteValue(k, q.cv) THEN val'[k] = [ts |-> q.cv, by |-> q.txn]
                                                ELSE val'[k] = val[k]
         ELSE val'[k] = val[k]
  <1> DEFINE mine == {x \in Keys : ShardOf[x] = q.shard /\ <<q.txn, x>> \in intents}
  <1>1. val' = [x \in Keys |->
                  CASE x \notin mine \/ q.status # Committed -> val[x]
                    [] x \in mine /\ q.status = Committed /\ x \in Deletes[q.txn]
                         -> [ts |-> 0, by |-> None]
                    [] OTHER -> IF shouldWriteValue(x, q.cv)
                                THEN [ts |-> q.cv, by |-> q.txn] ELSE val[x]]
    BY DEF ResolveIntents
  <1>2. k \in mine <=> ShardOf[k] = q.shard /\ <<q.txn, k>> \in intents
    OBVIOUS
  <1> HIDE DEF mine
  <1>3. val'[k] = CASE k \notin mine \/ q.status # Committed -> val[k]
                    [] k \in mine /\ q.status = Committed /\ k \in Deletes[q.txn]
                         -> [ts |-> 0, by |-> None]
                    [] OTHER -> IF shouldWriteValue(k, q.cv)
                                THEN [ts |-> q.cv, by |-> q.txn] ELSE val[k]
    BY <1>1
  <1> QED
    BY <1>2, <1>3

\* Every step preserves StampInv.
LEMMA StampInvStep == StampInv /\ [Next]_vars => StampInv'
  <1> SUFFICES ASSUME StampInv, [Next]_vars PROVE StampInv'
    OBVIOUS
  <1>1. TInv /\ TInv'
    BY TInvStep DEF StampInv
  <1>2. ASSUME NEW u \in Txns PROVE Idle(u)' /\ Stamped(u)'
    <2>1. Idle(u) /\ Stamped(u)
      BY DEF StampInv
    <2>2. CASE UNCHANGED vars
      <3>1. StampFrame(u)
        BY <2>2 DEF vars, orchVars, recVars, dataVars, StampFrame
      <3> QED
        BY <2>1, <3>1, StampFrameInv
    <2>3. CASE Next
      BY <1>1, <2>1, <2>3, OrchestratorStamp, ApplyStamp, RecoveryStamp, EnvironmentStamp DEF Next
    <2> QED
      BY <2>2, <2>3
  <1>3. Documents'
    <2>1. ASSUME NEW k \in Keys
          PROVE  /\ val'[k].by = None => val'[k].ts = 0
                 /\ val'[k].ts \in {0, InitTs} \cup {ts'[t] : t \in Txns}
      <3>1. /\ val[k].by = None => val[k].ts = 0
            /\ val[k].ts \in {0, InitTs} \cup {ts[t] : t \in Txns}
        BY DEF StampInv, Documents
      <3>2. ASSUME NEW t \in Txns PROVE ts[t] \in {0, ts'[t]}
        <4>1. CASE UNCHANGED vars
          BY <4>1 DEF vars, orchVars
        <4>2. CASE Next
          <5>1. ASSUME NEW u \in Txns, Orchestrator(u) PROVE ts[t] \in {0, ts'[t]}
            <6>1. ASSUME NEW n \in 1..MaxTs, NEW c \in collectShards(u), Begin(u, n, c)
                  PROVE  ts[t] \in {0, ts'[t]}
              BY <6>1, <1>1 DEF Begin, StampInv, Idle, TInv, TypeOK
            <6> QED
              BY <5>1, <6>1 DEF Orchestrator, writeIntents, initFailed, commitTransaction,
                 abortTransaction, abortReturned, commitFailed, notifyParticipantsSync,
                 notifyParticipantsAsync, resolveReturned, resolveFailed, Crash, Proceed
          <5>2. ASSUME NEW q \in net, Apply(q) PROVE ts' = ts
            BY <5>2 DEF Apply, InitTransaction, WriteIntent, CommitTransaction,
               AbortTransaction, ResolveIntents, orchVars
          <5>3. ASSUME NEW u \in Txns, NEW r \in Replicas, Recovery(u, r) \/ recoverStop(u, r)
                PROVE  ts' = ts
            BY <5>3 DEF Recovery, recoverAbort, recoverDelete, recoverNotify, recoverNotified,
               recoverSave, recoverStop, orchVars
          <5>4. CASE Environment
            BY <5>3, <5>4 DEF Environment, Lose, PassCreated, PassFinalized, ChangeLeader, orchVars
          <5> QED
            BY <4>2, <5>1, <5>2, <5>3, <5>4 DEF Next
        <4> QED
          BY <4>1, <4>2
      <3>3. CASE val' = val
        BY <3>1, <3>2, <3>3
      <3>4. CASE val' # val
        <4>1. PICK q \in net :
                 /\ ResolveIntents(q) /\ q.txn \in Txns /\ ts' = ts
                 /\ q.status = Committed => CommitVersion(q.txn, q.cv) /\ ts[q.txn] > 0
          BY <3>4, DocumentsChange DEF vars, dataVars
        <4>2. \/ val'[k] = val[k] \/ val'[k] = [ts |-> 0, by |-> None]
              \/ q.status = Committed /\ val'[k] = [ts |-> q.cv, by |-> q.txn]
          BY <4>1, ResolveDocument
        <4>3. CASE q.status = Committed /\ val'[k] = [ts |-> q.cv, by |-> q.txn]
          BY <4>1, <4>3, TxnAssumption DEF CommitVersion
        <4> QED
          BY <3>1, <4>1, <4>2, <4>3
      <3> QED
        BY <3>3, <3>4
    <2> QED
      BY <2>1 DEF Documents
  <1> QED
    BY <1>1, <1>2, <1>3 DEF StampInv

\* Initially no transaction has started, and documents are from InitTs.
LEMMA StampInvInit == Init => StampInv
  <1> SUFFICES ASSUME Init PROVE StampInv
    OBVIOUS
  <1>1. Documents
    BY TxnAssumption DEF Init, Documents
  <1>2. \A t \in Txns : Idle(t) /\ Stamped(t)
    BY DEF Init, Idle, Stamped
  <1> QED
    BY <1>1, <1>2, TInvInit DEF StampInv

\* A document is replaced by a newer one only.
LEMMA NewerOnly ==
  ASSUME NoDeletes, StampInv, Next, NEW k \in Keys, val'[k] # val[k]
  PROVE  \E t \in Txns : <<t, k>> \in intents \ intents' /\ ts[t] > val[k].ts
  <1>1. PICK q \in net :
           /\ ResolveIntents(q) /\ q.txn \in Txns /\ ts' = ts
           /\ q.status = Committed => CommitVersion(q.txn, q.cv) /\ ts[q.txn] > 0
    BY DocumentsChange
  <1> DEFINE t == q.txn
  <1>2. /\ ShardOf[k] = q.shard /\ <<t, k>> \in intents /\ q.status = Committed
        /\ shouldWriteValue(k, q.cv)
    BY <1>1, ResolveDocument DEF NoDeletes
  <1>3. <<t, k>> \notin intents'
    BY <1>1, <1>2 DEF ResolveIntents
  <1>4. val[k].ts \in Nat /\ ts[t] \in Nat /\ (val[k].by = None => val[k].ts = 0)
    BY <1>1 DEF StampInv, Documents, TInv, TypeOK
  <1>5. ts[t] > val[k].ts
    <2>1. CASE val[k].by = None
      BY <1>1, <1>2, <1>4, <2>1
    <2>2. CASE val[k].by # None
      BY <1>1, <1>2, <1>4, <2>2 DEF shouldWriteValue, CommitVersion
    <2> QED
      BY <2>1, <2>2
  <1> QED
    BY <1>1, <1>2, <1>3, <1>5

\* Without deletes the higher timestamp always wins (shouldWriteValue), whatever
\* the order in which ResolveIntents reaches a shard, however late requests are,
\* and also when the commit version could not be read back.
THEOREM LastWriterWins == ASSUME NoDeletes PROVE Spec => HigherTimestampWins
  <1>1. StampInv /\ [Next]_vars =>
           [\A k \in Keys : val'[k] # val[k] =>
               \E t \in Txns : <<t, k>> \in intents \ intents' /\ ts[t] > val[k].ts]_vars
    BY NewerOnly
  <1> QED
    BY <1>1, StampInvInit, StampInvStep, PTL DEF Spec, HigherTimestampWins
-----------------------------------------------------------------------------
(***************************************************************************)
(* What was applied stays visible.                                         *)
(***************************************************************************)

\* On every shard that has applied t its writes, or later ones, are visible.
Visible(t) == \A k \in Owned(t) : <<t, ShardOf[k], "applied">> \in effect => val[k].ts >= ts[t]

\* The steps that concern documents, intents or the start of a transaction.
LEMMA StoreSteps ==
  ASSUME Next
  PROVE  \/ \E t \in Txns : \E n \in 1..MaxTs, c \in collectShards(t) : Begin(t, n, c)
         \/ \E q \in net : WriteIntent(q) \/ ResolveIntents(q)
         \/ UNCHANGED <<ts, expect, intents, val, effect>>
  <1>1. ASSUME NEW t \in Txns, Orchestrator(t)
        PROVE  \/ \E n \in 1..MaxTs, c \in collectShards(t) : Begin(t, n, c)
               \/ UNCHANGED <<ts, expect, intents, val, effect>>
    <2>1. ASSUME NEW p, NEW Q, Proceed(t, p, Q) PROVE UNCHANGED <<ts, expect, intents, val, effect>>
      BY <2>1 DEF Proceed, dataVars
    <2> QED
      BY <1>1, <2>1 DEF Orchestrator, writeIntents, initFailed, commitTransaction,
         abortTransaction, abortReturned, commitFailed, notifyParticipantsSync,
         notifyParticipantsAsync, resolveReturned, resolveFailed, Crash
  <1>2. ASSUME NEW q \in net, Apply(q)
        PROVE  \/ WriteIntent(q) \/ ResolveIntents(q)
               \/ UNCHANGED <<ts, expect, intents, val, effect>>
    BY <1>2 DEF Apply, InitTransaction, CommitTransaction, AbortTransaction, orchVars, dataVars
  <1>3. ASSUME NEW t \in Txns, NEW r \in Replicas, Recovery(t, r) \/ recoverStop(t, r)
        PROVE  UNCHANGED <<ts, expect, intents, val, effect>>
    BY <1>3 DEF Recovery, recoverAbort, recoverDelete, recoverNotify, recoverNotified,
       recoverSave, recoverStop, orchVars, dataVars
  <1>4. CASE Environment
    BY <1>3, <1>4 DEF Environment, Lose, PassCreated, PassFinalized, ChangeLeader, orchVars, dataVars
  <1> QED
    BY <1>1, <1>2, <1>3, <1>4 DEF Next

\* A transaction that has not started has nothing applied.
LEMMA IdleUnapplied ==
  ASSUME DInv, NEW t \in Txns, pc[t] = "idle" PROVE ~Has(t, "applied")
  BY DEF DInv, IInv, TxnInv, Fresh, Clean, CommitSide, CommitDecided

\* What a resolution that applies t's intents finds: all it has not applied yet.
LEMMA AppliedWasHeld ==
  ASSUME DInv, NEW q \in net, ResolveIntents(q), NEW t \in Txns, NEW k \in Owned(t),
         <<t, ShardOf[k], "applied">> \in effect', <<t, ShardOf[k], "applied">> \notin effect
  PROVE  q.txn = t /\ q.shard = ShardOf[k] /\ q.status = Committed /\ <<t, k>> \in intents
  <1>1. q.txn = t /\ q.shard = ShardOf[k] /\ q.status = Committed /\ q.op = "resolve"
    BY DEF ResolveIntents
  <1>2. CommitSide(t)
    BY <1>1 DEF CommitSide, CommitDecided, SentCommitted
  <1> QED
    BY <1>1, <1>2 DEF DInv, DataInv, Complete, Held

\* Resolving intents leaves no document with a version below the one it had or,
\* where an intent was committed, below the transaction's.
LEMMA ResolveRaises ==
  ASSUME NoDeletes, ~ReadBackFails, StampInv, NEW q \in net, ResolveIntents(q), NEW k \in Keys
  PROVE  /\ val'[k].ts >= val[k].ts
         /\ ShardOf[k] = q.shard /\ <<q.txn, k>> \in intents /\ q.status = Committed =>
               val'[k].ts >= ts[q.txn]
  <1>1. q.txn \in Txns /\ q.op = "resolve" /\ TypeOK
    BY InFlight DEF StampInv, ResolveIntents, TInv
  <1>2. q.status = Committed => q.cv = ts[q.txn]
    BY <1>1 DEF StampInv, Stamped, CommitVersion
  <1>3. val[k].ts \in Nat /\ ts[q.txn] \in Nat /\ (val[k].by = None => val[k].ts = 0)
    BY <1>1 DEF TypeOK, StampInv, Documents
  <1>4. k \notin Deletes[q.txn]
    BY <1>1 DEF NoDeletes
  <1>5. CASE ShardOf[k] = q.shard /\ <<q.txn, k>> \in intents /\ q.status = Committed
    <2>1. CASE shouldWriteValue(k, q.cv)
      <3>1. val'[k] = [ts |-> q.cv, by |-> q.txn]
        BY <1>4, <1>5, <2>1, ResolveDocument
      <3>2. val'[k].ts = ts[q.txn]
        BY <1>2, <1>5, <3>1
      <3> QED
        BY <1>2, <1>3, <1>5, <2>1, <3>2 DEF shouldWriteValue
    <2>2. CASE ~shouldWriteValue(k, q.cv)
      <3>1. val'[k] = val[k]
        BY <1>4, <1>5, <2>2, ResolveDocument
      <3> QED
        BY <1>2, <1>3, <1>5, <2>2, <3>1 DEF shouldWriteValue
    <2> QED
      BY <2>1, <2>2
  <1>6. CASE ~(ShardOf[k] = q.shard /\ <<q.txn, k>> \in intents /\ q.status = Committed)
    <2>1. val'[k] = val[k]
      BY <1>6, ResolveDocument
    <2> QED
      BY <1>3, <1>6, <2>1
  <1> QED
    BY <1>5, <1>6

\* Every step keeps applied writes visible.
LEMMA VisibleStep ==
  ASSUME NoDeletes, ~ReadBackFails, DInv, StampInv, [Next]_vars, NEW u \in Txns, Visible(u)
  PROVE  Visible(u)'
  <1>1. TypeOK /\ Owned(u) \subseteq Keys
    BY TxnAssumption DEF StampInv, TInv, Owned
  <1>2. CASE UNCHANGED vars
    BY <1>2 DEF Visible, Owned, vars, orchVars, dataVars
  <1>3. ASSUME NEW t \in Txns, NEW n, NEW c, Begin(t, n, c) PROVE Visible(u)'
    <2>1. pc[t] = "idle" /\ ts' = [ts EXCEPT ![t] = n] /\ UNCHANGED <<val, effect>>
      BY <1>3 DEF Begin, dataVars
    <2>2. CASE u = t
      <3>1. ~Has(t, "applied")
        BY <2>1, IdleUnapplied
      <3> QED
        BY <1>1, <2>1, <2>2, <3>1, TxnAssumption DEF Visible, Owned, Has
    <2>3. CASE u # t
      BY <1>1, <2>1, <2>3 DEF Visible, Owned, TypeOK
    <2> QED
      BY <2>2, <2>3
  <1>4. ASSUME NEW q \in net, WriteIntent(q) PROVE Visible(u)'
    BY <1>4 DEF Visible, Owned, WriteIntent, orchVars
  <1>5. ASSUME NEW q \in net, ResolveIntents(q) PROVE Visible(u)'
    <2>1. ts' = ts
      BY <1>5 DEF ResolveIntents, orchVars
    <2>2. TypeOK'
      BY TInvStep DEF StampInv, TInv
    <2>3. ASSUME NEW k \in Owned(u), <<u, ShardOf[k], "applied">> \in effect'
          PROVE  val'[k].ts >= ts[u]
      <3>1. k \in Keys /\ val[k].ts \in Nat /\ val'[k].ts \in Nat /\ ts[u] \in Nat
        BY <1>1, <2>2 DEF TypeOK
      <3>2. val'[k].ts >= val[k].ts
        BY <1>5, <3>1, ResolveRaises
      <3>3. CASE <<u, ShardOf[k], "applied">> \in effect
        <4>1. val[k].ts >= ts[u]
          BY <2>3, <3>3 DEF Visible
        <4> QED
          BY <3>1, <3>2, <4>1
      <3>4. CASE <<u, ShardOf[k], "applied">> \notin effect
        <4>1. q.txn = u /\ q.shard = ShardOf[k] /\ q.status = Committed /\ <<u, k>> \in intents
          BY <1>5, <2>3, <3>4, AppliedWasHeld
        <4> QED
          BY <1>5, <3>1, <4>1, ResolveRaises
      <3> QED
        BY <3>3, <3>4
    <2> QED
      BY <2>1, <2>3 DEF Visible, Owned
  <1>6. CASE UNCHANGED <<ts, expect, intents, val, effect>>
    BY <1>6 DEF Visible, Owned
  <1> QED
    BY <1>2, <1>3, <1>4, <1>5, <1>6, StoreSteps

VInv == DInv /\ StampInv /\ \A t \in Txns : Visible(t)

\* Initially nothing is applied.
LEMMA VInvInit == Init => VInv
  <1>1. Init => \A t \in Txns : Visible(t)
    BY DEF Init, Visible
  <1> QED
    BY <1>1, DInvInit, StampInvInit DEF VInv

\* Every step preserves VInv.
LEMMA VInvStep ==
  ASSUME Prompt, ~ReadBackFails, NoDeletes PROVE VInv /\ [Next]_vars => VInv'
  BY DInvStep, StampInvStep, VisibleStep DEF VInv

\* If requests are prompt, the commit version is read back and nothing is
\* deleted, an applied write is visible, or a later one is, from the moment it
\* is applied: neither a resolution that comes late nor one that is repeated
\* hides it (ResolveIntents).
THEOREM AppliedStaysVisible ==
  ASSUME Prompt, ~ReadBackFails, NoDeletes PROVE Spec => []AppliedVisible
  <1>1. VInv => AppliedVisible
    BY DEF VInv, Visible, AppliedVisible, Owned
  <1> QED
    BY <1>1, VInvInit, VInvStep, PTL DEF Spec
-----------------------------------------------------------------------------
(***************************************************************************)
(* One update per version.                                                 *)
(***************************************************************************)

\* The write of t replaces the version it expects of k.
Newer(t, k) == expect[t][k] < ts[t]

\* t has, or had until it was applied, the intent on k.
HasKey(t, k) == <<t, k>> \in intents \/ <<t, ShardOf[k], "applied">> \in effect

\* The keys that t and u both read and write.
Contested(t, u) == (Reads[t] \cap Owned(t)) \cap (Reads[u] \cap Owned(u))

\* No two transactions that expect the same version of k, and would replace it,
\* get it.
OneWriter ==
    \A t, u \in Txns : t # u => \A k \in Contested(t, u) :
        expect[t][k] = expect[u][k] /\ Newer(t, k) /\ Newer(u, k) =>
            ~(HasKey(t, k) /\ HasKey(u, k))

UInv == VInv /\ OneWriter

\* The check of WriteIntent gives a key to nobody who expects a version that
\* another has or had.
LEMMA WriteIntentExcludes ==
  ASSUME UInv, NEW q \in net, WriteIntent(q), NEW t \in Txns, NEW u \in Txns, t # u,
         NEW k \in Contested(t, u), expect[t][k] = expect[u][k],
         Newer(t, k), Newer(u, k), q.txn = t
  PROVE  ~(HasKey(t, k)' /\ HasKey(u, k)')
  <1> SUFFICES ASSUME HasKey(t, k)', HasKey(u, k)' PROVE FALSE
    OBVIOUS
  <1>0. /\ k \in Keys /\ k \in Reads[t] /\ effect' = effect /\ TypeOK
        /\ k \in Owned(u)
    BY TxnAssumption DEF UInv, VInv, StampInv, TInv, Contested, WriteIntent
  <1>1. HasKey(u, k)
    BY <1>0, WriteIntentAdds DEF HasKey
  <1>2. ~HasKey(t, k)
    BY <1>1 DEF UInv, OneWriter
  <1>3. <<t, k>> \in intents' /\ <<t, k>> \notin intents
    BY <1>0, <1>2 DEF HasKey
  <1>4. checkVersionPredicates(t, q.shard) /\ k \in IntentKeys(t, q.shard)
    BY <1>3, WriteIntentAdds DEF WriteIntent
  <1>5. val[k].ts = expect[t][k] /\ <<u, k>> \notin intents
    BY <1>0, <1>4 DEF checkVersionPredicates, IntentKeys
  <1>6. <<u, ShardOf[k], "applied">> \in effect
    BY <1>1, <1>5 DEF HasKey
  <1>7. val[k].ts >= ts[u]
    BY <1>0, <1>6 DEF UInv, VInv, Visible
  <1>8. expect[u][k] < ts[u]
    BY DEF Newer
  <1>9. expect[u][k] \in Nat /\ ts[u] \in Nat /\ val[k].ts \in Nat
    BY <1>0 DEF TypeOK
  <1> QED
    BY <1>5, <1>7, <1>8, <1>9

\* Every step keeps contested keys apart.
LEMMA OneWriterStep ==
  ASSUME UInv, [Next]_vars PROVE OneWriter'
  <1> SUFFICES ASSUME NEW t \in Txns, NEW u \in Txns, t # u, NEW k \in Contested(t, u),
                      expect'[t][k] = expect'[u][k], Newer(t, k)', Newer(u, k)'
               PROVE  ~(HasKey(t, k)' /\ HasKey(u, k)')
    BY DEF OneWriter, Contested, Owned
  <1>0. TypeOK /\ DInv /\ StampInv /\ k \in Keys /\ k \in Owned(t) /\ k \in Owned(u)
    BY TxnAssumption DEF UInv, VInv, StampInv, TInv, Contested
  <1>1. ASSUME HasKey(t, k)' => HasKey(t, k), HasKey(u, k)' => HasKey(u, k),
               expect'[t][k] = expect[t][k], expect'[u][k] = expect[u][k],
               ts'[t] = ts[t], ts'[u] = ts[u]
        PROVE  ~(HasKey(t, k)' /\ HasKey(u, k)')
    BY <1>1 DEF UInv, OneWriter, Newer
  <1>2. CASE UNCHANGED <<expect, ts, intents, effect>>
    BY <1>1, <1>2 DEF HasKey
  <1>3. ASSUME NEW w \in Txns, NEW n, NEW c, Begin(w, n, c)
        PROVE  ~(HasKey(t, k)' /\ HasKey(u, k)')
    <2>1. /\ pc[w] = "idle" /\ UNCHANGED <<intents, effect>>
          /\ expect' = [expect EXCEPT ![w] = [x \in Keys |-> val[x].ts]]
          /\ ts' = [ts EXCEPT ![w] = n]
      BY <1>3 DEF Begin, dataVars
    <2>2. ~HasKey(w, k)
      <3>1. ~Has(w, "applied") /\ <<w, k>> \notin intents
        BY <1>0, <2>1, IdleUnapplied DEF StampInv, Idle
      <3> QED
        BY <1>0, <3>1, TxnAssumption DEF HasKey, Has
    <2>3. CASE w \in {t, u}
      BY <2>1, <2>2, <2>3 DEF HasKey
    <2>4. CASE w \notin {t, u}
      BY <1>0, <1>1, <2>1, <2>4 DEF HasKey, TypeOK
    <2> QED
      BY <2>3, <2>4
  <1>4. ASSUME NEW q \in net, WriteIntent(q)
        PROVE  ~(HasKey(t, k)' /\ HasKey(u, k)')
    <2>1. UNCHANGED <<expect, ts, effect>> /\ Newer(t, k) /\ Newer(u, k)
      BY <1>4 DEF WriteIntent, orchVars, Newer
    <2>2. CASE q.txn = t
      BY <1>4, <2>1, <2>2, WriteIntentExcludes
    <2>3. CASE q.txn = u
      <3>1. k \in Contested(u, t)
        BY DEF Contested
      <3> QED
        BY <1>4, <2>1, <2>3, <3>1, WriteIntentExcludes
    <2>4. CASE q.txn \notin {t, u}
      BY <1>1, <1>4, <2>1, <2>4, WriteIntentAdds DEF HasKey
    <2> QED
      BY <2>2, <2>3, <2>4
  <1>5. ASSUME NEW q \in net, ResolveIntents(q)
        PROVE  ~(HasKey(t, k)' /\ HasKey(u, k)')
    <2>1. UNCHANGED <<expect, ts>> /\ intents' \subseteq intents
      BY <1>5 DEF ResolveIntents, orchVars
    <2>2. (HasKey(t, k)' => HasKey(t, k)) /\ (HasKey(u, k)' => HasKey(u, k))
      BY <1>0, <1>5, <2>1, AppliedWasHeld DEF HasKey
    <2> QED
      BY <1>1, <2>1, <2>2
  <1> QED
    BY <1>2, <1>3, <1>4, <1>5, StoreSteps DEF vars, orchVars, dataVars

\* Initially nobody has a key.
LEMMA UInvInit == Init => UInv
  <1>1. Init => OneWriter
    BY DEF Init, OneWriter, HasKey
  <1> QED
    BY <1>1, VInvInit DEF UInv

\* Every step preserves UInv.
LEMMA UInvStep ==
  ASSUME Prompt, ~ReadBackFails, NoDeletes PROVE UInv /\ [Next]_vars => UInv'
  BY VInvStep, OneWriterStep DEF UInv

\* If requests are prompt, commit versions are read back and nothing is deleted,
\* at most one transaction replaces a version of a key that others have read too
\* (the predicate check of WriteIntent), whatever the servers' clocks show.
THEOREM VersionsAreReplacedOnce ==
  ASSUME Prompt, ~ReadBackFails, NoDeletes PROVE Spec => []OneUpdatePerVersion
  <1>1. UInv => OneUpdatePerVersion
    <2> SUFFICES ASSUME UInv, NEW t \in Txns, NEW u \in Txns, t # u,
                        NEW k \in Reads[t] \cap Writes[t] \cap Reads[u] \cap Writes[u],
                        <<t, ShardOf[k], "applied">> \in effect,
                        <<u, ShardOf[k], "applied">> \in effect,
                        expect[t][k] = expect[u][k]
                 PROVE  ts[t] <= expect[t][k] \/ ts[u] <= expect[u][k]
      BY DEF OneUpdatePerVersion
    <2>1. ~(Newer(t, k) /\ Newer(u, k))
      BY DEF UInv, OneWriter, HasKey, Contested, Owned
    <2>2. /\ expect[t][k] \in 0..MaxTs /\ expect[u][k] \in 0..MaxTs
          /\ ts[t] \in 0..MaxTs /\ ts[u] \in 0..MaxTs
      BY TxnAssumption DEF UInv, VInv, StampInv, TInv, TypeOK
    <2> QED
      BY <2>1, <2>2, TxnAssumption DEF Newer
  <1> QED
    BY <1>1, UInvInit, UInvStep, PTL DEF Spec
-----------------------------------------------------------------------------
(***************************************************************************)
(* What was read is still there at the commit.                             *)
(***************************************************************************)

\* A key with version predicates on it has at most one intent, and while it has
\* it the version is the one expected.
Reserved ==
    \A t \in Txns : \A k \in Reads[t] :
        /\ \A u, w \in Txns : <<u, k>> \in intents /\ <<w, k>> \in intents => u = w
        /\ <<t, k>> \in intents => val[k].ts = expect[t][k]

\* The commit is asked for once, and nobody acts on it before it is recorded.
CommitOnce(t) ==
    /\ \A q \in net : q.txn = t /\ q.op = "commit" => q = Req("commit", t, coord[t], "orch")
    /\ Sent("commit", t) => ~CommitDecided(t)

\* A pass that acts on a commit has it in its record.
PassHasRecord(t) ==
    \A r \in Replicas : scan[t][r] # NoScan /\ scan[t][r].status = Committed =>
        rec[t][r].status = Committed

RInv ==
    /\ DInv /\ StampInv /\ Reserved
    /\ \A t \in Txns : CommitOnce(t) /\ PassHasRecord(t)

\* Every step keeps read keys reserved for the one that holds them.
LEMMA ReservedStep ==
  ASSUME ReadModifyWrite, DInv, StampInv, Reserved, [Next]_vars PROVE Reserved'
  <1> SUFFICES ASSUME NEW t \in Txns, NEW k \in Reads[t]
               PROVE  /\ \A u, w \in Txns : <<u, k>> \in intents' /\ <<w, k>> \in intents' => u = w
                      /\ <<t, k>> \in intents' => val'[k].ts = expect'[t][k]
    BY DEF Reserved
  <1>0. TypeOK /\ k \in Keys
    BY TxnAssumption DEF StampInv, TInv
  <1>1. /\ \A u, w \in Txns : <<u, k>> \in intents /\ <<w, k>> \in intents => u = w
        /\ <<t, k>> \in intents => val[k].ts = expect[t][k]
    BY DEF Reserved
  <1>2. CASE UNCHANGED <<expect, intents, val>>
    BY <1>1, <1>2
  <1>3. ASSUME NEW w \in Txns, NEW n, NEW c, Begin(w, n, c)
        PROVE  UNCHANGED <<intents, val>> /\ (<<t, k>> \in intents => expect'[t][k] = expect[t][k])
    <2>1. /\ pc[w] = "idle" /\ UNCHANGED <<intents, val>>
          /\ expect' = [expect EXCEPT ![w] = [x \in Keys |-> val[x].ts]]
      BY <1>3 DEF Begin, dataVars
    <2>2. <<w, k>> \notin intents
      BY <1>0, <2>1 DEF StampInv, Idle
    <2> QED
      BY <1>0, <2>1, <2>2 DEF TypeOK
  <1>4. ASSUME NEW q \in net, WriteIntent(q)
        PROVE  /\ \A u, w \in Txns : <<u, k>> \in intents' /\ <<w, k>> \in intents' => u = w
               /\ <<t, k>> \in intents' => val'[k].ts = expect'[t][k]
    <2>1. UNCHANGED <<expect, val>> /\ q.txn \in Txns
      BY <1>4, InFlight DEF WriteIntent, orchVars, StampInv
    <2>2. CASE \A u \in Txns : <<u, k>> \in intents' <=> <<u, k>> \in intents
      BY <1>1, <2>1, <2>2
    <2>3. CASE ~\A u \in Txns : <<u, k>> \in intents' <=> <<u, k>> \in intents
      <3>1. /\ checkVersionPredicates(q.txn, q.shard) /\ k \in IntentKeys(q.txn, q.shard)
            /\ \A u \in Txns : <<u, k>> \in intents' => <<u, k>> \in intents \/ u = q.txn
        BY <1>4, <2>3, WriteIntentAdds DEF WriteIntent
      <3>2. k \in Owned(q.txn) /\ ShardOf[k] = q.shard
        BY <3>1 DEF IntentKeys, Owned
      <3>3. k \in Reads[q.txn]
        BY <2>1, <3>2 DEF ReadModifyWrite
      <3>4. val[k].ts = expect[q.txn][k] /\ \A u \in Txns \ {q.txn} : <<u, k>> \notin intents
        BY <3>1, <3>2, <3>3 DEF checkVersionPredicates
      <3> QED
        BY <2>1, <3>1, <3>4
    <2> QED
      BY <2>2, <2>3
  <1>5. ASSUME NEW q \in net, ResolveIntents(q)
        PROVE  /\ \A u, w \in Txns : <<u, k>> \in intents' /\ <<w, k>> \in intents' => u = w
               /\ <<t, k>> \in intents' => val'[k].ts = expect'[t][k]
    <2>1. expect' = expect /\ intents' \subseteq intents /\ q.txn \in Txns
      BY <1>5, InFlight DEF ResolveIntents, orchVars, StampInv
    <2>2. CASE val'[k] = val[k]
      BY <1>1, <2>1, <2>2
    <2>3. CASE val'[k] # val[k]
      <3>1. ShardOf[k] = q.shard /\ <<q.txn, k>> \in intents
        BY <1>0, <1>5, <2>3, ResolveDocument
      <3>2. <<q.txn, k>> \notin intents'
        BY <1>0, <1>5, <3>1 DEF ResolveIntents
      <3> QED
        BY <1>1, <2>1, <3>1, <3>2
    <2> QED
      BY <2>2, <2>3
  <1> QED
    BY <1>1, <1>2, <1>3, <1>4, <1>5, StoreSteps DEF vars, orchVars, dataVars

\* Where the decision to commit t can come from in a step.
LEMMA DecidedFrom ==
  ASSUME NEW t \in Txns,
         result'[t] \in {"synced", "committed"} \/ pc'[t] = "resolve" => CommitDecided(t),
         \A q \in net' : q.txn = t /\ q.op = "resolve" /\ q.status = Committed =>
                         q \in net \/ CommitDecided(t),
         \A p \in replies' : p.req.txn = t /\ p.req.op = "commit" => p \in replies,
         \A s \in Shards : <<t, s, "applied">> \in effect' =>
                           <<t, s, "applied">> \in effect \/ CommitDecided(t),
         \A r \in Replicas : rec'[t][r].status = Committed => CommitDecided(t),
         \A r \in Replicas : scan'[t][r] # NoScan /\ scan'[t][r].status = Committed =>
                             CommitDecided(t)
  PROVE  CommitDecided(t)' => CommitDecided(t)
  <1> SUFFICES ASSUME ~CommitDecided(t) PROVE ~CommitDecided(t)'
    OBVIOUS
  <1>1. ~SentCommitted(t)'
    BY DEF CommitDecided, SentCommitted
  <1>2. ~Acked("commit", t)' /\ ~Has(t, "applied")'
    BY DEF CommitDecided, Acked, Has
  <1> QED
    BY <1>1, <1>2 DEF CommitDecided

\* What says that t is committed, by itself.
LEMMA DecidedBy ==
  ASSUME NEW t \in Txns
  PROVE  /\ result[t] \in {"synced", "committed"} \/ pc[t] = "resolve" => CommitDecided(t)
         /\ \A q \in net : q.txn = t /\ q.op = "resolve" /\ q.status = Committed => CommitDecided(t)
         /\ \A r \in Replicas : rec[t][r].status = Committed => CommitDecided(t)
         /\ \A r \in Replicas : scan[t][r] # NoScan /\ scan[t][r].status = Committed =>
                                CommitDecided(t)
  BY DEF CommitDecided, SentCommitted

\* The orchestrator passes a commit on only after it was acknowledged.
LEMMA OrchestratorDecides ==
  ASSUME TInv, NEW t \in Txns, Orchestrator(t), NEW u \in Txns
  PROVE  CommitDecided(u)' => CommitDecided(u)
  <1>1. UNCHANGED <<rec, scan, intents, effect>> /\ replies' \subseteq replies
    BY OrchestratorLeaves
  <1>2. CASE u # t
    BY <1>2, OrchestratorOther, FrameKept DEF Kept
  <1>3. CASE u = t
    <2>1. CASE CommitDecided(t)
      BY <1>3, <2>1
    <2>2. CASE ~CommitDecided(t)
      <3>1. ASSUME NEW p \in Phases, p # "resolve", NEW Q, Proceed(t, p, Q),
                   \A q \in Q : q.op # "resolve",
                   result'[t] \in {result[t], "failed", "unknown"}
            PROVE  CommitDecided(t)' => CommitDecided(t)
        <4>1. pc'[t] = p /\ net' = net \cup Q
          BY <3>1 DEF Proceed, TInv, TypeOK
        <4> QED
          BY <1>1, <3>1, <4>1, DecidedBy, DecidedFrom
      <3>2. pc[t] # "resolve" /\ ~\E y \in replies : y \in CommitReplies(t)
        BY <2>2 DEF CommitDecided, CommitReplies, Acked
      <3>3. CASE \E n \in 1..MaxTs, c \in collectShards(t) : Begin(t, n, c)
        <4>1. PICK n \in 1..MaxTs, c \in collectShards(t) : Begin(t, n, c)
          BY <3>3
        <4>2. pc'[t] = "init" /\ result' = result /\ net' = net \cup {Req("init", t, c, "orch")}
          BY <4>1 DEF Begin, TInv, TypeOK
        <4>3. Req("init", t, c, "orch").op = "init"
          BY ReqFields
        <4> QED
          BY <1>1, <1>3, <4>2, <4>3, DecidedBy, DecidedFrom
      <3>4. CASE writeIntents(t) \/ commitTransaction(t) \/ abortTransaction(t)
        <4>1. PICK p \in {"intents", "commit", "abort"},
                   Q \in {{Req("intent", t, s, "orch") : s \in collectShards(t)},
                         {Req("commit", t, coord[t], "orch")},
                         {Req("abort", t, coord[t], "orch")}} :
                 Proceed(t, p, Q) /\ result' = result
          BY <3>4 DEF writeIntents, commitTransaction, abortTransaction
        <4>2. \A q \in Q : q.op # "resolve"
          BY <4>1, ReqFields
        <4> QED
          BY <1>3, <3>1, <4>1, <4>2 DEF Phases
      <3>5. CASE initFailed(t) \/ abortReturned(t) \/ commitFailed(t) \/ Crash(t)
        <4>1. Proceed(t, "done", {}) /\ result'[t] \in {result[t], "failed", "unknown"}
          BY <3>5 DEF initFailed, abortReturned, commitFailed, Crash, Return, TInv, TypeOK
        <4> QED
          BY <1>3, <3>1, <4>1 DEF Phases
      <3> QED
        BY <3>2, <3>3, <3>4, <3>5 DEF Orchestrator, notifyParticipantsSync,
           notifyParticipantsAsync, resolveReturned, resolveFailed, CommitReplies
    <2> QED
      BY <2>1, <2>2
  <1> QED
    BY <1>2, <1>3

\* Of the requests only the commit decides.
LEMMA ApplyDecides ==
  ASSUME TInv, NEW q \in net, Apply(q), ~CommitTransaction(q), NEW u \in Txns
  PROVE  CommitDecided(u)' => CommitDecided(u)
  <1>1. CASE u # q.txn
    BY <1>1, ApplyOther, FrameKept DEF Kept
  <1>2. CASE u = q.txn
    <2>1. UNCHANGED <<pc, result, scan>>
      BY DEF Apply, InitTransaction, WriteIntent, CommitTransaction, AbortTransaction,
         ResolveIntents, orchVars, recVars
    <2>2. \A p \in replies' : p \in replies \/ p.req.op # "commit"
      BY ReplySelf DEF Apply, InitTransaction, WriteIntent, AbortTransaction, ResolveIntents
    <2>3. \A x \in net' : x \in net \/ (x.op = "resolve" /\ x.status = Aborted)
      <3>1. CASE AbortTransaction(q)
        BY <3>1, ReqFields DEF AbortTransaction, asyncResolveIntents
      <3>2. CASE ~AbortTransaction(q)
        <4>1. net' \subseteq net
          BY <3>2 DEF Apply, InitTransaction, WriteIntent, ResolveIntents
        <4> QED
          BY <4>1
      <3> QED
        BY <3>1, <3>2
    <2>4. \A r \in Replicas : rec'[u][r].status = Committed => rec[u][r].status = Committed
      <3>1. CASE InitTransaction(q)
        BY <1>2, <3>1 DEF InitTransaction, Pending, Committed, TInv, TypeOK
      <3>2. CASE AbortTransaction(q)
        BY <1>2, <3>2, FinalizeRec DEF AbortTransaction, NoRec, Committed, Aborted
      <3>3. CASE WriteIntent(q) \/ ResolveIntents(q)
        BY <3>3 DEF WriteIntent, ResolveIntents, recVars
      <3> QED
        BY <3>1, <3>2, <3>3 DEF Apply
    <2>5. \A s \in Shards : <<u, s, "applied">> \in effect' =>
             <<u, s, "applied">> \in effect \/ CommitDecided(u)
      <3>1. CASE ResolveIntents(q)
        <4>1. q.status # Committed \/ CommitDecided(u)
          BY <1>2, <3>1, DecidedBy DEF ResolveIntents
        <4> QED
          BY <3>1, <4>1 DEF ResolveIntents
      <3>2. CASE ~ResolveIntents(q)
        BY <3>2 DEF Apply, InitTransaction, WriteIntent, AbortTransaction, dataVars
      <3> QED
        BY <3>1, <3>2
    <2> QED
      BY <2>1, <2>2, <2>3, <2>4, <2>5, DecidedBy, DecidedFrom DEF Committed, Aborted
  <1> QED
    BY <1>1, <1>2

\* The recovery loop passes on what a record says.
LEMMA RecoveryDecides ==
  ASSUME TInv, NEW t \in Txns, NEW r \in Replicas, Recovery(t, r) \/ recoverStop(t, r),
         NEW u \in Txns
  PROVE  CommitDecided(u)' => CommitDecided(u)
  <1>1. CASE u # t
    BY <1>1, RecoveryOther, FrameKept DEF Kept
  <1>2. CASE u = t
    <2>1. UNCHANGED <<pc, result, effect>> /\ replies' \subseteq replies
      BY RecoveryLeaves
    <2>2. \A x \in net' : x \in net \/ x.op = "abort" \/ x.status # Committed \/ CommitDecided(t)
      <3>1. CASE recoverNotify(t, r)
        BY <3>1, DecidedBy, ReqFields DEF recoverNotify
      <3>2. CASE recoverSave(t, r)
        BY <3>2, DecidedBy, ReqFields DEF recoverSave
      <3>3. CASE recoverAbort(t, r)
        BY <3>3, ReqFields DEF recoverAbort
      <3>4. CASE ~recoverNotify(t, r) /\ ~recoverSave(t, r) /\ ~recoverAbort(t, r)
        BY <3>4 DEF Recovery, recoverDelete, recoverNotified, recoverStop
      <3> QED
        BY <3>1, <3>2, <3>3, <3>4
    <2>3. \A x \in Replicas : rec'[t][x].status = Committed => CommitDecided(t)
      <3>1. CASE recoverSave(t, r)
        <4>1. \A x \in Replicas : rec'[t][x] = rec[t][x] \/ rec'[t][x].status = scan[t][r].status
          BY <3>1 DEF recoverSave, TInv, TypeOK
        <4> QED
          BY <3>1, <4>1, DecidedBy DEF recoverSave
      <3>2. CASE recoverDelete(t, r)
        <4>1. \A x \in Replicas : rec'[t][x] = rec[t][x] \/ rec'[t][x] = NoRec
          BY <3>2 DEF recoverDelete, TInv, TypeOK
        <4> QED
          BY <4>1, DecidedBy DEF NoRec, Committed
      <3>3. CASE ~recoverSave(t, r) /\ ~recoverDelete(t, r)
        BY <3>3, DecidedBy DEF Recovery, recoverAbort, recoverNotify, recoverNotified, recoverStop,
           recVars
      <3> QED
        BY <3>1, <3>2, <3>3
    <2>4. \A x \in Replicas : scan'[t][x] # NoScan /\ scan'[t][x].status = Committed =>
             CommitDecided(t)
      <3>1. CASE recoverNotify(t, r)
        <4>1. \A x \in Replicas : scan'[t][x] = scan[t][x] \/ scan'[t][x].status = rec[t][r].status
          BY <3>1 DEF recoverNotify, TInv, TypeOK
        <4> QED
          BY <4>1, DecidedBy
      <3>2. CASE recoverSave(t, r) \/ recoverStop(t, r)
        <4>1. \A x \in Replicas : scan'[t][x] = scan[t][x] \/ scan'[t][x] = NoScan
          BY <3>2 DEF recoverSave, recoverStop, TInv, TypeOK
        <4> QED
          BY <4>1, DecidedBy
      <3>3. ASSUME NEW s \in Shards, recoverNotified(t, r, s)
            PROVE  \A x \in Replicas : scan'[t][x] # NoScan /\ scan'[t][x].status = Committed =>
                      CommitDecided(t)
        <4>1. PICK ok \in BOOLEAN : scan' = [scan EXCEPT ![t][r] = Answered(@, s, ok)]
          BY <3>3 DEF recoverNotified
        <4>2. \A x \in Replicas : scan'[t][x].status = scan[t][x].status
          BY <4>1 DEF Answered, TInv, TypeOK, Scans
        <4>3. \A x \in Replicas : scan'[t][x] # scan[t][x] => scan[t][x].todo # {}
          BY <3>3, <4>1 DEF recoverNotified, TInv, TypeOK
        <4> QED
          BY <4>2, <4>3, DecidedBy DEF NoScan
      <3>4. CASE recoverAbort(t, r) \/ recoverDelete(t, r)
        BY <3>4, DecidedBy DEF recoverAbort, recoverDelete, recVars
      <3> QED
        BY <3>1, <3>2, <3>3, <3>4 DEF Recovery
    <2> QED
      BY <1>2, <2>1, <2>2, <2>3, <2>4, DecidedBy, DecidedFrom
  <1> QED
    BY <1>1, <1>2
\* Only the application of the commit request decides.
LEMMA OnlyCommitDecides ==
  ASSUME TInv, [Next]_vars, NEW u \in Txns,
         ~\E q \in net : CommitTransaction(q) /\ q.txn = u
  PROVE  CommitDecided(u)' => CommitDecided(u)
  <1>1. ASSUME Frame(u) PROVE CommitDecided(u)' => CommitDecided(u)
    BY <1>1, FrameKept DEF Kept
  <1>2. CASE UNCHANGED vars
    BY <1>1, <1>2 DEF vars, orchVars, recVars, dataVars, Frame
  <1>3. ASSUME NEW q \in net, Apply(q) PROVE CommitDecided(u)' => CommitDecided(u)
    <2>1. CASE CommitTransaction(q)
      <3>1. u # q.txn
        BY <2>1
      <3> QED
        BY <1>1, <1>3, <3>1, ApplyOther
    <2>2. CASE ~CommitTransaction(q)
      BY <1>3, <2>2, ApplyDecides
    <2> QED
      BY <2>1, <2>2
  <1>4. ASSUME NEW q \in net, Lose(q) PROVE Frame(u)
    BY <1>4 DEF Lose, Frame, orchVars, recVars, dataVars
  <1>5. ASSUME NEW t \in Txns, PassCreated(t) \/ PassFinalized(t)
        PROVE  CommitDecided(u)' => CommitDecided(u)
    <2>1. UNCHANGED <<pc, result, net, replies, rec, scan, effect>>
      BY <1>5 DEF PassCreated, PassFinalized, orchVars, dataVars
    <2> QED
      BY <2>1, DecidedBy, DecidedFrom
  <1>6. ASSUME NEW s \in Shards, NEW r \in Replicas, ChangeLeader(s, r) PROVE Frame(u)
    BY <1>6 DEF ChangeLeader, Frame, orchVars, dataVars
  <1> QED
    BY <1>1, <1>2, <1>3, <1>4, <1>5, <1>6, OrchestratorDecides, RecoveryDecides
       DEF Next, Environment

\* commitTransaction is where the request comes from.
LEMMA CommitSentBy ==
  ASSUME TInv, [Next]_vars, NEW u \in Txns, NEW q \in net', q \notin net, q.txn = u, q.op = "commit"
  PROVE  commitTransaction(u) /\ q = Req("commit", u, coord[u], "orch")
  <1>1. Next
    BY DEF vars
  <1>2. ASSUME NEW t \in Txns, Orchestrator(t)
        PROVE  commitTransaction(u) /\ q = Req("commit", u, coord[u], "orch")
    <2>1. u = t
      BY <1>2, OrchestratorOther DEF Frame
    <2>2. ASSUME NEW p, NEW Q, Proceed(t, p, Q), \A x \in Q : x.op # "commit" PROVE FALSE
      BY <2>2 DEF Proceed
    <2>3. CASE \E n \in 1..MaxTs, c \in collectShards(t) : Begin(t, n, c)
      BY <2>3, ReqFields DEF Begin
    <2>4. CASE writeIntents(t) \/ abortTransaction(t)
      <3>1. PICK p \in {"intents", "abort"},
                 Q \in {{Req("intent", t, s, "orch") : s \in collectShards(t)},
                        {Req("abort", t, coord[t], "orch")}} : Proceed(t, p, Q)
        BY <2>4 DEF writeIntents, abortTransaction
      <3>2. \A x \in Q : x.op # "commit"
        BY <3>1, ReqFields
      <3> QED
        BY <2>2, <3>1, <3>2
    <2>5. CASE notifyParticipantsSync(t) \/ notifyParticipantsAsync(t)
      <3>1. PICK p \in {"resolve", "done"}, S \in {collectShards(t), participants(t)},
                 y \in CommitReplies(t) :
               Proceed(t, p, {ResolveReq(t, s, "orch", Committed, y.cv) : s \in S})
        BY <2>5 DEF notifyParticipantsSync, notifyParticipantsAsync
      <3>2. \A x \in {ResolveReq(t, s, "orch", Committed, y.cv) : s \in S} : x.op # "commit"
        BY ReqFields
      <3> QED
        BY <2>2, <3>1, <3>2
    <2>6. CASE \/ initFailed(t) \/ abortReturned(t) \/ commitFailed(t)
               \/ resolveReturned(t) \/ resolveFailed(t) \/ Crash(t)
      <3>1. Proceed(t, "done", {})
        BY <2>6 DEF initFailed, abortReturned, commitFailed, resolveReturned, resolveFailed, Crash
      <3> QED
        BY <2>2, <3>1
    <2>7. CASE commitTransaction(t)
      BY <2>1, <2>7 DEF commitTransaction, Proceed
    <2> QED
      BY <1>2, <2>3, <2>4, <2>5, <2>6, <2>7 DEF Orchestrator
  <1>3. ASSUME NEW x \in net, Apply(x) PROVE FALSE
    <2>1. CASE CommitTransaction(x) \/ AbortTransaction(x)
      BY <2>1, ReqFields DEF CommitTransaction, AbortTransaction, asyncResolveIntents
    <2>2. CASE InitTransaction(x) \/ WriteIntent(x) \/ ResolveIntents(x)
      BY <2>2 DEF InitTransaction, WriteIntent, ResolveIntents
    <2> QED
      BY <1>3, <2>1, <2>2 DEF Apply
  <1>4. ASSUME NEW t \in Txns, NEW r \in Replicas, Recovery(t, r) \/ recoverStop(t, r) PROVE FALSE
    BY <1>4, ReqFields DEF Recovery, recoverAbort, recoverDelete, recoverNotify, recoverNotified,
       recoverSave, recoverStop
  <1>5. CASE Environment
    BY <1>4, <1>5 DEF Environment, Lose, PassCreated, PassFinalized, ChangeLeader
  <1> QED
    BY <1>1, <1>2, <1>3, <1>4, <1>5 DEF Next

\* A transaction keeps the coordinator it began with.
LEMMA CoordKept ==
  ASSUME TInv, [Next]_vars, NEW u \in Txns, pc[u] # "idle" PROVE coord'[u] = coord[u]
  <1>1. ASSUME NEW t \in Txns, NEW n, NEW c, Begin(t, n, c) PROVE coord'[u] = coord[u]
    BY <1>1 DEF Begin, TInv, TypeOK
  <1>2. ASSUME NEW t \in Txns, Orchestrator(t) PROVE coord'[u] = coord[u]
    <2>1. ASSUME NEW p, NEW Q, Proceed(t, p, Q) PROVE coord'[u] = coord[u]
      BY <2>1 DEF Proceed
    <2> QED
      BY <1>1, <1>2, <2>1 DEF Orchestrator, writeIntents, initFailed, commitTransaction,
         abortTransaction, abortReturned, commitFailed, notifyParticipantsSync,
         notifyParticipantsAsync, resolveReturned, resolveFailed, Crash
  <1>3. ASSUME NEW q \in net, Apply(q) PROVE coord'[u] = coord[u]
    BY <1>3 DEF Apply, InitTransaction, WriteIntent, CommitTransaction, AbortTransaction,
       ResolveIntents, orchVars
  <1>4. ASSUME NEW t \in Txns, NEW r \in Replicas, Recovery(t, r) \/ recoverStop(t, r)
        PROVE  coord'[u] = coord[u]
    BY <1>4 DEF Recovery, recoverAbort, recoverDelete, recoverNotify, recoverNotified,
       recoverSave, recoverStop, orchVars
  <1>5. CASE Environment
    BY <1>4, <1>5 DEF Environment, Lose, PassCreated, PassFinalized, ChangeLeader, orchVars
  <1> QED
    BY <1>2, <1>3, <1>4, <1>5 DEF Next, vars, orchVars

\* Every step keeps the commit request unique and the decision behind it.
LEMMA CommitOnceStep ==
  ASSUME DInv, StampInv, [Next]_vars, NEW u \in Txns, CommitOnce(u) PROVE CommitOnce(u)'
  <1>0. TInv /\ TxnInv(u) /\ Idle(u)
    BY DEF DInv, IInv, StampInv
  <1>1. ASSUME NEW q \in net', q.txn = u, q.op = "commit"
        PROVE  q = Req("commit", u, coord'[u], "orch")
    <2>1. CASE q \in net
      <3>1. pc[u] # "idle" /\ q = Req("commit", u, coord[u], "orch")
        BY <1>0, <1>1, <2>1 DEF Idle, CommitOnce
      <3> QED
        BY <1>0, <3>1, CoordKept
    <2>2. CASE q \notin net
      <3>1. commitTransaction(u) /\ q = Req("commit", u, coord[u], "orch")
        BY <1>0, <1>1, <2>2, CommitSentBy
      <3> QED
        BY <1>0, <3>1, CoordKept DEF commitTransaction
    <2> QED
      BY <2>1, <2>2
  <1>2. ASSUME Sent("commit", u)' PROVE ~CommitDecided(u)'
    <2>1. PICK q \in net' : q.txn = u /\ q.op = "commit"
      BY <1>2 DEF Sent
    <2>2. CASE \E x \in net : CommitTransaction(x) /\ x.txn = u
      <3>1. PICK x \in net : CommitTransaction(x) /\ x.txn = u
        BY <2>2
      <3>2. x = Req("commit", u, coord[u], "orch") /\ coord' = coord
        BY <3>1 DEF CommitOnce, CommitTransaction, orchVars
      <3>3. q = x
        BY <1>1, <2>1, <3>2
      <3>4. \A y \in net' : y # x \/ y.op = "resolve"
        BY <3>1, ReqFields DEF CommitTransaction, asyncResolveIntents
      <3> QED
        BY <2>1, <3>3, <3>4
    <2>3. CASE ~\E x \in net : CommitTransaction(x) /\ x.txn = u
      <3>1. CommitDecided(u)' => CommitDecided(u)
        BY <1>0, <2>3, OnlyCommitDecides
      <3>2. CASE q \in net
        BY <2>1, <3>1, <3>2 DEF CommitOnce, Sent
      <3>3. CASE q \notin net
        <4>1. commitTransaction(u)
          BY <1>0, <2>1, <3>3, CommitSentBy
        <4> QED
          BY <1>0, <3>1, <4>1 DEF commitTransaction, TxnInv, Undecided, CommitSide
      <3> QED
        BY <3>2, <3>3
    <2> QED
      BY <2>2, <2>3
  <1> QED
    BY <1>1, <1>2 DEF CommitOnce

\* Every step leaves the record a pass over a commit goes by.
LEMMA PassHasRecordStep ==
  ASSUME DInv, [Next]_vars, NEW u \in Txns, PassHasRecord(u) PROVE PassHasRecord(u)'
  <1> SUFFICES ASSUME NEW r \in Replicas, scan'[u][r] # NoScan, scan'[u][r].status = Committed
               PROVE  rec'[u][r].status = Committed
    BY DEF PassHasRecord
  <1>0. TInv /\ TxnInv(u)
    BY DEF DInv, IInv, TInv
  <1>1. ASSUME rec'[u][r] = rec[u][r], scan'[u][r] = scan[u][r] PROVE rec'[u][r].status = Committed
    BY <1>1 DEF PassHasRecord
  <1>2. CASE UNCHANGED <<rec, scan>>
    BY <1>1, <1>2
  <1>3. ASSUME NEW q \in net, Apply(q) PROVE rec'[u][r].status = Committed
    <2>1. scan' = scan
      BY <1>3 DEF Apply, InitTransaction, WriteIntent, CommitTransaction, AbortTransaction,
         ResolveIntents, recVars
    <2>2. rec[u][r].status = Committed /\ CommitDecided(u)
      BY <2>1, DecidedBy DEF PassHasRecord
    <2>3. CASE q.txn # u
      <3>1. rec'[u] = rec[u]
        BY <1>0, <1>3, <2>3 DEF Apply, InitTransaction, WriteIntent, CommitTransaction,
           AbortTransaction, ResolveIntents, finalizeTransaction, recVars, TInv, TypeOK
      <3> QED
        BY <1>1, <2>1, <3>1
    <2>4. CASE q.txn = u
      <3>1. ~InitTransaction(q)
        BY <1>0, <2>2, <2>4 DEF TxnInv, Fresh, Clean, CommitSide, InitTransaction, Sent
      <3>2. ~AbortTransaction(q)
        BY <1>0, <2>2, <2>4 DEF TxnInv, Exclusive, CommitSide, AbortSide, AbortTransaction, Sent
      <3>3. CASE CommitTransaction(q)
        <4>1. rec[u][r] # NoRec
          BY <2>2 DEF NoRec, Committed
        <4> QED
          BY <1>0, <2>4, <3>3, <4>1 DEF CommitTransaction, finalizeTransaction, TInv, TypeOK, Records
      <3>4. CASE WriteIntent(q) \/ ResolveIntents(q)
        BY <1>2, <3>4 DEF WriteIntent, ResolveIntents, recVars
      <3> QED
        BY <1>3, <3>1, <3>2, <3>3, <3>4 DEF Apply
    <2> QED
      BY <2>3, <2>4
  <1>4. ASSUME NEW t \in Txns, NEW x \in Replicas, Recovery(t, x) \/ recoverStop(t, x)
        PROVE  rec'[u][r].status = Committed
    <2>1. CASE t # u \/ x # r
      <3>1. rec'[u][r] = rec[u][r] /\ scan'[u][r] = scan[u][r]
        BY <1>0, <1>4, <2>1 DEF Recovery, recoverAbort, recoverDelete, recoverNotify,
           recoverNotified, recoverSave, recoverStop, recVars, TInv, TypeOK
      <3> QED
        BY <1>1, <3>1
    <2>2. CASE t = u /\ x = r
      <3>1. CASE recoverSave(t, x) \/ recoverStop(t, x)
        <4>1. scan'[u][r] = NoScan
          BY <1>0, <2>2, <3>1 DEF recoverSave, recoverStop, TInv, TypeOK
        <4> QED
          BY <4>1
      <3>2. CASE recoverDelete(t, x)
        BY <2>2, <3>2 DEF recoverDelete, CanScan
      <3>3. CASE recoverNotify(t, x)
        <4>1. scan'[u][r].status = rec[u][r].status /\ rec' = rec
          BY <1>0, <2>2, <3>3 DEF recoverNotify, TInv, TypeOK
        <4> QED
          BY <4>1
      <3>4. ASSUME NEW s \in Shards, recoverNotified(t, x, s) PROVE rec'[u][r].status = Committed
        <4>1. PICK ok \in BOOLEAN : scan' = [scan EXCEPT ![t][x] = Answered(@, s, ok)]
          BY <3>4 DEF recoverNotified
        <4>2. scan'[u][r].status = scan[u][r].status
          BY <1>0, <4>1 DEF Answered, TInv, TypeOK, Scans
        <4>3. scan[u][r] # NoScan
          BY <2>2, <3>4 DEF recoverNotified, NoScan
        <4> QED
          BY <3>4, <4>2, <4>3 DEF PassHasRecord, recoverNotified
      <3>5. CASE recoverAbort(t, x)
        BY <1>2, <3>5 DEF recoverAbort, recVars
      <3> QED
        BY <1>4, <3>1, <3>2, <3>3, <3>4, <3>5 DEF Recovery
    <2> QED
      BY <2>1, <2>2
  <1>5. CASE Environment
    BY <1>2, <1>4, <1>5 DEF Environment, Lose, PassCreated, PassFinalized, ChangeLeader, recVars
  <1> QED
    BY <1>2, <1>3, <1>4, <1>5, OrchestratorLeaves DEF Next, vars, recVars

\* Initially nothing is reserved, sent or scanned.
LEMMA RInvInit == Init => RInv
  <1>1. Init => Reserved
    BY DEF Init, Reserved
  <1>2. Init => \A t \in Txns : CommitOnce(t) /\ PassHasRecord(t)
    BY DEF Init, CommitOnce, PassHasRecord, Sent
  <1> QED
    BY <1>1, <1>2, DInvInit, StampInvInit DEF RInv

\* Every step preserves RInv.
LEMMA RInvStep ==
  ASSUME Prompt, ReadModifyWrite PROVE RInv /\ [Next]_vars => RInv'
  <1> SUFFICES ASSUME RInv, [Next]_vars PROVE RInv'
    OBVIOUS
  <1>1. DInv' /\ StampInv'
    BY DInvStep, StampInvStep DEF RInv
  <1>2. Reserved'
    BY ReservedStep DEF RInv
  <1>3. \A t \in Txns : CommitOnce(t)' /\ PassHasRecord(t)'
    BY CommitOnceStep, PassHasRecordStep DEF RInv
  <1> QED
    BY <1>1, <1>2, <1>3 DEF RInv

\* A record becomes Committed only by CommitTransaction.
LEMMA CommittedBy ==
  ASSUME RInv, Next, NEW t \in Txns, NEW r \in Replicas,
         rec[t][r].status # Committed, rec'[t][r].status = Committed
  PROVE  \E q \in net : CommitTransaction(q) /\ q.txn = t
  <1> SUFFICES ASSUME ~\E q \in net : CommitTransaction(q) /\ q.txn = t PROVE FALSE
    OBVIOUS
  <1>0. TInv /\ PassHasRecord(t)
    BY DEF RInv, StampInv
  <1>1. ASSUME NEW q \in net, Apply(q) PROVE rec'[t][r].status # Committed
    <2>1. CASE q.txn # t
      BY <1>0, <1>1, <2>1, ApplyOther DEF Frame, NoRec, Committed
    <2>2. CASE q.txn = t
      <3>1. CASE InitTransaction(q)
        BY <1>0, <2>2, <3>1 DEF InitTransaction, TInv, TypeOK, Pending, Committed
      <3>2. CASE AbortTransaction(q)
        BY <1>0, <2>2, <3>2, FinalizeRec DEF AbortTransaction, NoRec, Committed, Aborted
      <3>3. CASE WriteIntent(q) \/ ResolveIntents(q)
        BY <3>3 DEF WriteIntent, ResolveIntents, recVars
      <3> QED
        BY <1>1, <2>2, <3>1, <3>2, <3>3 DEF Apply
    <2> QED
      BY <2>1, <2>2
  <1>2. ASSUME NEW u \in Txns, NEW x \in Replicas, Recovery(u, x) \/ recoverStop(u, x)
        PROVE  rec'[t][r].status # Committed
    <2>1. CASE u # t
      BY <1>0, <1>2, <2>1, RecoveryOther DEF Frame, NoRec, Committed
    <2>2. CASE u = t
      <3>1. CASE recoverSave(t, x)
        <4>1. rec'[t][r] = rec[t][r] \/ (x = r /\ rec'[t][r].status = scan[t][r].status)
          BY <1>0, <3>1 DEF recoverSave, TInv, TypeOK
        <4> QED
          BY <1>0, <3>1, <4>1 DEF recoverSave, PassHasRecord
      <3>2. CASE recoverDelete(t, x)
        <4>1. rec'[t][r] \in {rec[t][r], NoRec}
          BY <1>0, <3>2 DEF recoverDelete, TInv, TypeOK
        <4> QED
          BY <4>1 DEF NoRec, Committed
      <3>3. CASE ~recoverSave(t, x) /\ ~recoverDelete(t, x)
        BY <1>2, <2>2, <3>3 DEF Recovery, recoverAbort, recoverNotify, recoverNotified, recoverStop,
           recVars
      <3> QED
        BY <3>1, <3>2, <3>3
    <2> QED
      BY <2>1, <2>2
  <1>3. CASE Environment
    BY <1>2, <1>3 DEF Environment, Lose, PassCreated, PassFinalized, ChangeLeader, recVars
  <1> QED
    BY <1>1, <1>2, <1>3, OrchestratorLeaves DEF Next

\* If requests are prompt, and the keys with version predicates are only written
\* by transactions that have one on them, every version a transaction has read
\* is still the current one when its record becomes Committed (api.yaml): no
\* write slips in between the check of WriteIntent and the commit point.
THEOREM ReadsHoldAtCommit ==
  ASSUME Prompt, ReadModifyWrite PROVE Spec => ReadsMatchAtCommit
  <1>1. ASSUME RInv, Next, NEW t \in Txns, NEW r \in Replicas,
               rec[t][r].status # Committed, rec'[t][r].status = Committed, NEW k \in Reads[t]
        PROVE  val[k].ts = expect[t][k]
    <2>1. PICK q \in net : CommitTransaction(q) /\ q.txn = t
      BY <1>1, CommittedBy
    <2>2. Sent("commit", t)
      BY <2>1 DEF CommitTransaction, Sent
    <2>3. Held(t) /\ ~CommitDecided(t)
      BY <1>1, <2>2 DEF RInv, DInv, DataInv, Complete, CommitSide, CommitOnce
    <2>4. k \in Owned(t) /\ k \in Keys
      BY <1>1, TxnAssumption DEF ReadModifyWrite
    <2>5. <<t, k>> \in intents
      BY <2>3, <2>4, TxnAssumption DEF Held, CommitDecided, Has
    <2> QED
      BY <1>1, <2>5 DEF RInv, Reserved
  <1>2. RInv /\ [Next]_vars =>
           [\A t \in Txns, r \in Replicas :
               rec[t][r].status # Committed /\ rec'[t][r].status = Committed =>
                  \A k \in Reads[t] : val[k].ts = expect[t][k]]_vars
    BY <1>1
  <1> QED
    BY <1>2, RInvInit, RInvStep, PTL DEF Spec, ReadsMatchAtCommit
=============================================================================
