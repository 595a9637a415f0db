-------------------------------- MODULE Txn --------------------------------
(***************************************************************************)
(* Distributed transactions: the orchestrator on a metadata server         *)
(* (src/metadata/transaction.go), the transaction record and its recovery  *)
(* loop on the coordinator shard, and the intents and documents of every   *)
(* shard (src/store/db).                                                   *)
(*                                                                         *)
(* A shard is a Raft group.  A request to it is a message that is in       *)
(* flight (an HTTP request, or a proposal not yet in the log) until it is  *)
(* applied, in one step on all replicas, or lost.  The caller may give up  *)
(* at any time, and a request whose caller gave up may still be applied.   *)
(* What a leader writes to its own Pebble without Raft (the bookkeeping of *)
(* the recovery loop) is kept per replica.                                 *)
(***************************************************************************)
EXTENDS Integers, FiniteSets

CONSTANTS
    Shards, Keys,
    ShardOf,        \* ShardOf[k]: the shard that owns key k
    Txns,
    Writes,         \* Writes[t], Deletes[t], Transforms[t]: the keys of the batch
    Deletes,
    Transforms,
    Reads,          \* Reads[t]: keys with a version predicate (OCC)
    Replicas,       \* replicas of each shard
    MaxTs,          \* bound: largest timestamp
    InitTs,         \* version of the documents that exist at the start; 0: there are none
    None,
    Earlier,        \* the writer of those documents
    Skew,           \* timestamps need not follow real time (several metadata servers)
    Prompt,         \* a transaction's requests arrive, or are lost, within the
                    \* 5 minutes after which the recovery loop aborts it
    ReadBackFails   \* the commit handler may fail to read the commit version back

ASSUME TxnAssumption ==
    /\ ShardOf \in [Keys -> Shards]
    /\ Writes \in [Txns -> SUBSET Keys]
    /\ Deletes \in [Txns -> SUBSET Keys]
    /\ Transforms \in [Txns -> SUBSET Keys]
    /\ Reads \in [Txns -> SUBSET Keys]
    /\ \A t \in Txns : Writes[t] \cup Deletes[t] \cup Transforms[t] # {}
    /\ Replicas # {} /\ {"orch", "self"} \cap Replicas = {}
    /\ MaxTs \in Nat /\ InitTs \in 0..MaxTs
    /\ None \notin Txns \cup Shards /\ Earlier # None
    /\ Skew \in BOOLEAN /\ Prompt \in BOOLEAN /\ ReadBackFails \in BOOLEAN

VARIABLES
    \* the orchestrator, per transaction
    pc,         \* the phase of ExecuteTransaction
    ts,         \* its timestamp; 0 before it starts
    coord,      \* its coordinator shard
    expect,     \* expect[t][k]: the version of k in t's predicate
    result,     \* what ExecuteTransaction returned
    \* communication
    net,        \* requests in flight
    replies,    \* replies on their way to a caller that still waits
    \* the coordinator shard
    rec,        \* rec[t][r]: TxnRecord of t in the Pebble of replica r
    old,        \* transactions whose CreatedAt is past the 5-minute cutoff
    finOld,     \* transactions whose FinalizedAt is past it
    scan,       \* scan[t][r]: the recovery loop's pass over t's record on r
    leader,     \* leader[s]: the replica that leads shard s
    \* every shard
    intents,    \* <<t, k>>: the intent of t on k is in the store
    val,        \* val[k]: version (key:t) and writer of k's document
    effect      \* history: <<t, s, e>>, how t's intents on s were resolved

orchVars == <<pc, ts, coord, expect, result>>
recVars  == <<rec, old, finOld, scan, leader>>
dataVars == <<intents, val, effect>>
vars == <<orchVars, net, replies, recVars, dataVars>>

-----------------------------------------------------------------------------
\* TxnRecord.Status
Pending   == "Pending"
Committed == "Committed"
Aborted   == "Aborted"

NoRec  == [status |-> "none", resolved |-> {}]
NoScan == [status |-> "none", resolved |-> {}, todo |-> {}, done |-> {}]

Records == [status : {"none", Pending, Committed, Aborted}, resolved : SUBSET Shards]
Scans   == [status : {"none", Committed, Aborted}, resolved : SUBSET Shards,
            todo : SUBSET Shards, done : SUBSET Shards]

Phases  == {"idle", "init", "intents", "commit", "abort", "resolve", "done"}
Results == {"none", "synced", "committed", "failed", "unknown"}
Sources == {"orch", "self"} \cup Replicas

\* A request: an operation for shard s on behalf of t.  src is the caller:
\* the orchestrator, the recovery pass of a replica, or "self" for a proposal
\* nobody waits for.  status and cv are the arguments of ResolveIntents.
Requests ==
    [op : {"init", "intent", "commit", "abort", "resolve"}, txn : Txns, shard : Shards,
     src : Sources, status : {"none", Committed, Aborted}, cv : 0..MaxTs]

Req(op, t, s, src) ==
    [op |-> op, txn |-> t, shard |-> s, src |-> src, status |-> "none", cv |-> 0]

ResolveReq(t, s, src, status, cv) ==
    [op |-> "resolve", txn |-> t, shard |-> s, src |-> src, status |-> status, cv |-> cv]

Replies == [req : Requests, ok : BOOLEAN, cv : 0..MaxTs]

\* collectShards: predicates do not contribute.
collectShards(t) == {ShardOf[k] : k \in Writes[t] \cup Deletes[t] \cup Transforms[t]}

\* The participants of the record: all shards but the coordinator.
participants(t) == collectShards(t) \ {coord[t]}

\* Mutant of Version: the commit version is bumped past the timestamp.
VersionBumped(t) == ts[t] + 1

\* TxnRecord.Version: finalizeTransaction runs without a timestamp in its
\* context, so the commit version is the begin timestamp.
Version(t) == ts[t]

\* The caller of q is still waiting for its reply.
Waiting(q) ==
    \/ q.src = "orch" /\
          pc[q.txn] = CASE q.op = "init"    -> "init"
                        [] q.op = "intent"  -> "intents"
                        [] q.op = "commit"  -> "commit"
                        [] q.op = "abort"   -> "abort"
                        [] q.op = "resolve" -> "resolve"
    \/ q.src \in Replicas /\ q.shard \in scan[q.txn][q.src].todo

Reply(q, ok, cv) ==
    replies' = IF Waiting(q)
               THEN replies \cup {[req |-> q, ok |-> ok, cv |-> cv]}
               ELSE replies

\* The replies without those to the orchestrator of t.
OtherReplies(t) == {p \in replies : p.req.txn # t \/ p.req.src # "orch"}

\* An orchestrator reply to t's request op for shard s.
Replied(op, t, s, ok) ==
    \E p \in replies : /\ p.req.op = op /\ p.req.txn = t /\ p.req.shard = s
                       /\ p.req.src = "orch" /\ p.ok = ok

Init ==
    /\ pc = [t \in Txns |-> "idle"]
    /\ ts = [t \in Txns |-> 0]
    /\ coord = [t \in Txns |-> None]
    /\ expect = [t \in Txns |-> [k \in Keys |-> 0]]
    /\ result = [t \in Txns |-> "none"]
    /\ net = {}
    /\ replies = {}
    /\ rec = [t \in Txns |-> [r \in Replicas |-> NoRec]]
    /\ old = {}
    /\ finOld = {}
    /\ scan = [t \in Txns |-> [r \in Replicas |-> NoScan]]
    /\ leader \in [Shards -> Replicas]
    /\ intents = {}
    /\ val = [k \in Keys |-> [ts |-> InitTs, by |-> IF InitTs = 0 THEN None ELSE Earlier]]
    /\ effect = {}

-----------------------------------------------------------------------------
(***************************************************************************)
(* The orchestrator: MetadataStore.ExecuteTransaction.  retryTxnOp repeats *)
(* a request only after errors that say it was not accepted, which leaves  *)
(* the request in flight; every other error, an exhausted retry budget and *)
(* a cancelled context make the caller give up.                            *)
(***************************************************************************)

\* ms.hlc.Now(): unique; later than all others if clocks are not skewed.
Timestamp(n) ==
    \A m \in {InitTs} \cup {ts[u] : u \in Txns} : m # n /\ (Skew \/ m < n)

\* The versions the predicates of t ask for are those its client has read.
Begin(t, n, c) ==
    /\ pc[t] = "idle"
    /\ Timestamp(n)
    /\ pc' = [pc EXCEPT ![t] = "init"]
    /\ ts' = [ts EXCEPT ![t] = n]
    /\ coord' = [coord EXCEPT ![t] = c]
    /\ expect' = [expect EXCEPT ![t] = [k \in Keys |-> val[k].ts]]
    /\ net' = net \cup {Req("init", t, c, "orch")}
    /\ UNCHANGED <<result, replies, recVars, dataVars>>

\* Go to phase p, send the requests Q, forget the replies of the last phase.
Proceed(t, p, Q) ==
    /\ pc' = [pc EXCEPT ![t] = p]
    /\ net' = net \cup Q
    /\ replies' = OtherReplies(t)
    /\ UNCHANGED <<ts, coord, expect, recVars, dataVars>>

Return(t, r) == result' = [result EXCEPT ![t] = r]

writeIntents(t) ==
    /\ pc[t] = "init"
    /\ Replied("init", t, coord[t], TRUE)
    /\ Proceed(t, "intents", {Req("intent", t, s, "orch") : s \in collectShards(t)})
    /\ UNCHANGED result

\* initTransaction failed: the error is returned and nothing is aborted.
initFailed(t) ==
    /\ pc[t] = "init"
    /\ Proceed(t, "done", {})
    /\ Return(t, "failed")

\* Mutant of commitTransaction: commits as soon as one shard has its intents.
commitTransactionEarly(t) ==
    /\ pc[t] = "intents"
    /\ \E s \in collectShards(t) : Replied("intent", t, s, TRUE)
    /\ Proceed(t, "commit", {Req("commit", t, coord[t], "orch")})
    /\ UNCHANGED result

commitTransaction(t) ==
    /\ pc[t] = "intents"
    /\ \A s \in collectShards(t) : Replied("intent", t, s, TRUE)
    /\ Proceed(t, "commit", {Req("commit", t, coord[t], "orch")})
    /\ UNCHANGED result

\* Some shard refused its intents, or the caller gave up: the group cancels
\* the others and the coordinator is asked to abort.
abortTransaction(t) ==
    /\ pc[t] = "intents"
    /\ Proceed(t, "abort", {Req("abort", t, coord[t], "orch")})
    /\ UNCHANGED result

\* An error of the abort is only logged.
abortReturned(t) ==
    /\ pc[t] = "abort"
    /\ Proceed(t, "done", {})
    /\ Return(t, "failed")

\* Mutant of commitFailed: the failed commit is taken for an abort.
commitFailedIsAbort(t) ==
    /\ pc[t] = "commit"
    /\ Proceed(t, "done", {})
    /\ Return(t, "failed")

\* The commit call failed: its outcome is unknown and nothing is undone.
commitFailed(t) ==
    /\ pc[t] = "commit"
    /\ Proceed(t, "done", {})
    /\ Return(t, "unknown")

CommitReplies(t) ==
    {p \in replies : p.req.txn = t /\ p.req.src = "orch" /\ p.req.op = "commit" /\ p.ok}

notifyParticipantsSync(t) ==
    /\ pc[t] = "commit"
    /\ \E p \in CommitReplies(t) :
          Proceed(t, "resolve",
                  {ResolveReq(t, s, "orch", Committed, p.cv) : s \in collectShards(t)})
    /\ UNCHANGED result

\* Sync level below Write: participants are told without waiting.
notifyParticipantsAsync(t) ==
    /\ pc[t] = "commit"
    /\ \E p \in CommitReplies(t) :
          Proceed(t, "done",
                  {ResolveReq(t, s, "orch", Committed, p.cv) : s \in participants(t)})
    /\ Return(t, "committed")

\* Mutant of resolveReturned: the coordinator's own intents are not waited for.
resolveReturnedEarly(t) ==
    /\ pc[t] = "resolve"
    /\ \A s \in participants(t) : Replied("resolve", t, s, TRUE)
    /\ Proceed(t, "done", {})
    /\ Return(t, "synced")

resolveReturned(t) ==
    /\ pc[t] = "resolve"
    /\ \A s \in collectShards(t) : Replied("resolve", t, s, TRUE)
    /\ Proceed(t, "done", {})
    /\ Return(t, "synced")

\* Failures to resolve are only logged.
resolveFailed(t) ==
    /\ pc[t] = "resolve"
    /\ Proceed(t, "done", {})
    /\ Return(t, "committed")

\* The metadata server dies in the middle of the transaction.
Crash(t) ==
    /\ pc[t] \notin {"idle", "done"}
    /\ Proceed(t, "done", {})
    /\ UNCHANGED result

Orchestrator(t) ==
    \/ \E n \in 1..MaxTs, c \in collectShards(t) : Begin(t, n, c)
    \/ writeIntents(t) \/ initFailed(t)
    \/ commitTransaction(t) \/ abortTransaction(t) \/ abortReturned(t)
    \/ commitFailed(t) \/ notifyParticipantsSync(t) \/ notifyParticipantsAsync(t)
    \/ resolveReturned(t) \/ resolveFailed(t)
    \/ Crash(t)

-----------------------------------------------------------------------------
(***************************************************************************)
(* The shards: readCommits applies one committed entry.                    *)
(***************************************************************************)
Take(q) == q \in net

\* DBImpl.InitTransaction: the record is written whatever was there.
InitTransaction(q) ==
    /\ q.op = "init" /\ Take(q)
    /\ rec' = [rec EXCEPT ![q.txn] = [r \in Replicas |->
                                        [status |-> Pending, resolved |-> {}]]]
    /\ old' = old \ {q.txn}
    /\ net' = net \ {q}
    /\ Reply(q, TRUE, 0)
    /\ UNCHANGED <<orchVars, finOld, scan, leader, dataVars>>

\* The keys of t on shard s that get an intent; transforms get none.
IntentKeys(t, s) == {k \in Writes[t] \cup Deletes[t] : ShardOf[k] = s}

\* Mutant of checkVersionPredicates: intents of others are not looked at.
checkVersionPredicatesNoIntents(t, s) ==
    \A k \in Reads[t] : ShardOf[k] = s => val[k].ts = expect[t][k]

\* Mutant of checkVersionPredicates: the version may be newer than expected.
checkVersionPredicatesNewer(t, s) ==
    \A k \in Reads[t] : ShardOf[k] = s =>
        /\ val[k].ts >= expect[t][k]
        /\ \A u \in Txns \ {t} : <<u, k>> \notin intents

\* checkVersionPredicates: every key read has the version expected and no
\* intent of another transaction.
checkVersionPredicates(t, s) ==
    \A k \in Reads[t] : ShardOf[k] = s =>
        /\ val[k].ts = expect[t][k]
        /\ \A u \in Txns \ {t} : <<u, k>> \notin intents

\* DBImpl.WriteIntent
WriteIntent(q) ==
    /\ q.op = "intent" /\ Take(q)
    /\ net' = net \ {q}
    /\ \/ /\ checkVersionPredicates(q.txn, q.shard)
          /\ intents' = intents \cup ({q.txn} \X IntentKeys(q.txn, q.shard))
          /\ Reply(q, TRUE, 0)
       \/ /\ ~checkVersionPredicates(q.txn, q.shard)
          /\ UNCHANGED intents
          /\ Reply(q, FALSE, 0)
    /\ UNCHANGED <<orchVars, recVars, val, effect>>

\* DBImpl.finalizeTransaction: a replica that has the record sets its status,
\* whatever it was; a replica that has deleted it fails.
finalizeTransaction(t, status) ==
    /\ rec' = [rec EXCEPT ![t] = [r \in Replicas |->
                 IF @[r] = NoRec THEN NoRec ELSE [@[r] EXCEPT !.status = status]]]
    /\ finOld' = finOld \ {t}

\* asyncResolveIntents: every replica that has the record proposes to resolve
\* the coordinator's own intents once it has applied the decision; Raft takes
\* the proposal of the one that leads by then.
asyncResolveIntents(q, status, cv) ==
    IF \A r \in Replicas : rec[q.txn][r] = NoRec THEN {}
    ELSE {ResolveReq(q.txn, q.shard, "self", status, cv)}

\* applyOpCommitTransaction, and the handler's read-back of the version.
CommitTransaction(q) ==
    /\ q.op = "commit" /\ Take(q)
    /\ finalizeTransaction(q.txn, Committed)
    /\ net' = (net \ {q}) \cup asyncResolveIntents(q, Committed, Version(q.txn))
    /\ \E cv \in {Version(q.txn)} \cup (IF ReadBackFails THEN {0} ELSE {}) :
          Reply(q, rec[q.txn][leader[q.shard]] # NoRec, cv)
    /\ UNCHANGED <<orchVars, old, scan, leader, dataVars>>

\* applyOpAbortTransaction
AbortTransaction(q) ==
    /\ q.op = "abort" /\ Take(q)
    /\ finalizeTransaction(q.txn, Aborted)
    /\ net' = (net \ {q}) \cup asyncResolveIntents(q, Aborted, 0)
    /\ Reply(q, rec[q.txn][leader[q.shard]] # NoRec, 0)
    /\ UNCHANGED <<orchVars, old, scan, leader, dataVars>>

\* Mutant of shouldWriteValue: the comparison is dropped.
shouldWriteValueAlways(k, cv) == TRUE

\* Mutant of shouldWriteValue: any existing document wins.
shouldWriteValueNew(k, cv) == val[k].by = None

\* shouldWriteValue: last writer wins; a document without a version loses.
shouldWriteValue(k, cv) == val[k].by = None \/ cv > val[k].ts

\* Mutant of ResolveIntents: the status of the decision is ignored.
ResolveIntentsAnyStatus(q) ==
    LET mine == {k \in Keys : ShardOf[k] = q.shard /\ <<q.txn, k>> \in intents}
    IN
    /\ q.op = "resolve" /\ Take(q)
    /\ net' = net \ {q}
    /\ val' = [k \in Keys |-> IF k \in mine THEN [ts |-> q.cv, by |-> q.txn] ELSE val[k]]
    /\ intents' = intents \ ({q.txn} \X mine)
    /\ effect' = IF mine = {} THEN effect
                 ELSE effect \cup {<<q.txn, q.shard, "applied">>}
    /\ Reply(q, TRUE, 0)
    /\ UNCHANGED <<orchVars, recVars>>

\* DBImpl.ResolveIntents: a committed write is subject to last-writer-wins, a
\* committed delete is not and removes the version with the document.
ResolveIntents(q) ==
    LET mine == {k \in Keys : ShardOf[k] = q.shard /\ <<q.txn, k>> \in intents}
    IN
    /\ q.op = "resolve" /\ Take(q)
    /\ net' = net \ {q}
    /\ val' = [k \in Keys |->
                 CASE k \notin mine \/ q.status # Committed -> val[k]
                   [] k \in mine /\ q.status = Committed /\ k \in Deletes[q.txn]
                        -> [ts |-> 0, by |-> None]
                   [] OTHER -> IF shouldWriteValue(k, q.cv)
                               THEN [ts |-> q.cv, by |-> q.txn] ELSE val[k]]
    /\ intents' = intents \ ({q.txn} \X mine)
    /\ effect' = IF mine = {} THEN effect
                 ELSE effect \cup {<<q.txn, q.shard,
                        IF q.status = Committed THEN "applied" ELSE "dropped">>}
    /\ Reply(q, TRUE, 0)
    /\ UNCHANGED <<orchVars, recVars>>

Apply(q) ==
    \/ InitTransaction(q) \/ WriteIntent(q)
    \/ CommitTransaction(q) \/ AbortTransaction(q)
    \/ ResolveIntents(q)

-----------------------------------------------------------------------------
(***************************************************************************)
(* The recovery loop of the coordinator's leader: notifyPendingResolutions *)
(* for one record.  Its updates of the record bypass Raft.                 *)
(***************************************************************************)
Finalized(x) == x.status \in {Committed, Aborted}

AllResolved(t, r) == participants(t) \subseteq rec[t][r].resolved

\* A replica can look at the record of t: it leads the coordinator shard, and
\* its loop is not in the middle of another pass.
CanScan(t, r) ==
    /\ coord[t] # None
    /\ leader[coord[t]] = r
    /\ scan[t][r] = NoScan

\* Mutant of recoverAbort: the age of the record is not checked.
recoverAbortAnyAge(t, r) ==
    /\ CanScan(t, r)
    /\ rec[t][r].status = Pending
    /\ net' = net \cup {Req("abort", t, coord[t], "self")}
    /\ UNCHANGED <<orchVars, replies, recVars, dataVars>>

\* Mutant of recoverAbort: only records whose orchestrator failed are aborted.
recoverAbortFailed(t, r) ==
    /\ CanScan(t, r)
    /\ rec[t][r].status = Pending /\ t \in old /\ result[t] = "failed"
    /\ net' = net \cup {Req("abort", t, coord[t], "self")}
    /\ UNCHANGED <<orchVars, replies, recVars, dataVars>>

\* A stale pending transaction is aborted, through Raft.
recoverAbort(t, r) ==
    /\ CanScan(t, r)
    /\ rec[t][r].status = Pending /\ t \in old
    /\ net' = net \cup {Req("abort", t, coord[t], "self")}
    /\ UNCHANGED <<orchVars, replies, recVars, dataVars>>

\* Mutant of recoverDelete: deletes by age only.
recoverDeleteByAge(t, r) ==
    /\ CanScan(t, r)
    /\ Finalized(rec[t][r]) /\ t \in finOld
    /\ rec' = [rec EXCEPT ![t][r] = NoRec]
    /\ UNCHANGED <<orchVars, net, replies, old, finOld, scan, leader, dataVars>>

\* An old record whose participants have all resolved is deleted.
recoverDelete(t, r) ==
    /\ CanScan(t, r)
    /\ Finalized(rec[t][r]) /\ t \in finOld /\ AllResolved(t, r)
    /\ rec' = [rec EXCEPT ![t][r] = NoRec]
    /\ UNCHANGED <<orchVars, net, replies, old, finOld, scan, leader, dataVars>>

\* Mutant of recoverNotify: only recent decisions are notified.
recoverNotifyRecent(t, r) ==
    LET todo == participants(t) \ rec[t][r].resolved
    IN
    /\ CanScan(t, r)
    /\ Finalized(rec[t][r]) /\ t \notin finOld
    /\ scan' = [scan EXCEPT ![t][r] =
                  [status |-> rec[t][r].status, resolved |-> rec[t][r].resolved,
                   todo |-> todo, done |-> {}]]
    /\ net' = net \cup {ResolveReq(t, s, r, rec[t][r].status, Version(t)) : s \in todo}
    /\ UNCHANGED <<orchVars, replies, rec, old, finOld, leader, dataVars>>

\* Otherwise the participants not yet resolved are notified ...
recoverNotify(t, r) ==
    LET todo == participants(t) \ rec[t][r].resolved
    IN
    /\ CanScan(t, r)
    /\ Finalized(rec[t][r]) /\ ~(t \in finOld /\ AllResolved(t, r))
    /\ scan' = [scan EXCEPT ![t][r] =
                  [status |-> rec[t][r].status, resolved |-> rec[t][r].resolved,
                   todo |-> todo, done |-> {}]]
    /\ net' = net \cup {ResolveReq(t, s, r, rec[t][r].status, Version(t)) : s \in todo}
    /\ UNCHANGED <<orchVars, replies, rec, old, finOld, leader, dataVars>>

ScanReplies(t, r, s) == {p \in replies : p.req.txn = t /\ p.req.src = r /\ p.req.shard = s}

\* Participant s is done with, successfully or not, in the pass x.
Answered(x, s, ok) == [x EXCEPT !.todo = @ \ {s}, !.done = IF ok THEN @ \cup {s} ELSE @]

\* ... one of them answers, or the call times out ...
recoverNotified(t, r, s) ==
    /\ s \in scan[t][r].todo
    /\ \E ok \in BOOLEAN :
          /\ ok => ScanReplies(t, r, s) # {}
          /\ scan' = [scan EXCEPT ![t][r] = Answered(@, s, ok)]
    /\ replies' = replies \ ScanReplies(t, r, s)
    /\ UNCHANGED <<orchVars, net, rec, old, finOld, leader, dataVars>>

\* ... then the record read at the start is written back with the new resolved
\* participants, and the coordinator's own intents are resolved.
recoverSave(t, r) ==
    /\ scan[t][r] # NoScan /\ scan[t][r].todo = {}
    /\ rec' = IF scan[t][r].done = {} THEN rec
              ELSE [rec EXCEPT ![t][r] =
                      [status |-> scan[t][r].status,
                       resolved |-> scan[t][r].resolved \cup scan[t][r].done]]
    /\ scan' = [scan EXCEPT ![t][r] = NoScan]
    /\ net' = net \cup {ResolveReq(t, coord[t], "self", scan[t][r].status, Version(t))}
    /\ UNCHANGED <<orchVars, replies, old, finOld, leader, dataVars>>

\* The leader steps down or its store crashes in the middle of the pass.
recoverStop(t, r) ==
    /\ scan[t][r] # NoScan
    /\ scan' = [scan EXCEPT ![t][r] = NoScan]
    /\ replies' = {p \in replies : p.req.txn # t \/ p.req.src # r}
    /\ UNCHANGED <<orchVars, net, rec, old, finOld, leader, dataVars>>

Recovery(t, r) ==
    \/ recoverAbort(t, r) \/ recoverDelete(t, r) \/ recoverNotify(t, r)
    \/ \E s \in Shards : recoverNotified(t, r, s)
    \/ recoverSave(t, r)

-----------------------------------------------------------------------------
(***************************************************************************)
(* The environment.                                                        *)
(***************************************************************************)

\* A request, or the proposal made for it, is lost.
Lose(q) ==
    /\ net' = net \ {q}
    /\ UNCHANGED <<orchVars, replies, recVars, dataVars>>

\* Nothing of t that could still decide or prepare it is on its way.
Quiet(t) ==
    /\ pc[t] \in {"resolve", "done"}
    /\ \A q \in net : q.txn = t /\ q.src = "orch" => q.op = "resolve"

\* Five minutes have passed since t's record was created ...
PassCreated(t) ==
    /\ t \notin old
    /\ \E r \in Replicas : rec[t][r].status = Pending
    /\ Prompt => Quiet(t)
    /\ old' = old \cup {t}
    /\ UNCHANGED <<orchVars, net, replies, rec, finOld, scan, leader, dataVars>>

\* ... or finalized.
PassFinalized(t) ==
    /\ t \notin finOld
    /\ \E r \in Replicas : Finalized(rec[t][r])
    /\ finOld' = finOld \cup {t}
    /\ UNCHANGED <<orchVars, net, replies, rec, old, scan, leader, dataVars>>

\* Leadership of a shard moves.
ChangeLeader(s, r) ==
    /\ r # leader[s]
    /\ leader' = [leader EXCEPT ![s] = r]
    /\ UNCHANGED <<orchVars, net, replies, rec, old, finOld, scan, dataVars>>

Environment ==
    \/ \E q \in net : Lose(q)
    \/ \E t \in Txns : PassCreated(t) \/ PassFinalized(t)
    \/ \E s \in Shards, r \in Replicas : ChangeLeader(s, r)
    \/ \E t \in Txns, r \in Replicas : recoverStop(t, r)

Next ==
    \/ \E t \in Txns : Orchestrator(t)
    \/ \E q \in net : Apply(q)
    \/ \E t \in Txns, r \in Replicas : Recovery(t, r)
    \/ Environment

Spec == Init /\ [][Next]_vars

-----------------------------------------------------------------------------
(***************************************************************************)
(* Properties.                                                             *)
(***************************************************************************)

\* Type correctness.
TypeOK ==
    /\ pc \in [Txns -> Phases]
    /\ ts \in [Txns -> 0..MaxTs]
    /\ coord \in [Txns -> Shards \cup {None}]
    /\ expect \in [Txns -> [Keys -> 0..MaxTs]]
    /\ result \in [Txns -> Results]
    /\ net \subseteq Requests
    /\ replies \subseteq Replies
    /\ rec \in [Txns -> [Replicas -> Records]]
    /\ old \subseteq Txns /\ finOld \subseteq Txns
    /\ scan \in [Txns -> [Replicas -> Scans]]
    /\ leader \in [Shards -> Replicas]
    /\ intents \subseteq Txns \X Keys
    /\ val \in [Keys -> [ts : 0..MaxTs, by : Txns \cup {None, Earlier}]]
    /\ effect \subseteq Txns \X Shards \X {"applied", "dropped"}

Has(t, e) == \E s \in Shards : <<t, s, e>> \in effect

\* docs/glossary.mdx:162: all participants of a transaction commit or abort
\* together.  No transaction has its intents applied on one shard and dropped on
\* another, whatever crashes, losses and leader changes happened in between.
Atomicity == \A t \in Txns : ~(Has(t, "applied") /\ Has(t, "dropped"))

\* The coordinator's record is the commit point (CommitTransaction): a shard
\* applies intents only if no replica's record says Pending or Aborted, and
\* drops them only if none says Pending or Committed.
CommitPoint ==
    \A t \in Txns, r \in Replicas :
        /\ Has(t, "applied") => rec[t][r].status \in {Committed, "none"}
        /\ Has(t, "dropped") => rec[t][r].status \in {Aborted, "none"}

\* What ExecuteTransaction returned is what happened: success means no shard
\* drops the intents, a failure before the commit point that none applies them.
ClientTruth ==
    \A t \in Txns :
        /\ result[t] \in {"synced", "committed"} => ~Has(t, "dropped")
        /\ result[t] = "failed" => ~Has(t, "applied")

\* Once a record says Committed, each write and delete of the transaction is
\* still an intent or has been applied: no part of the batch was lost before
\* the commit point (writeIntents) or is lost after it.
NoWriteLost ==
    \A t \in Txns : (\E r \in Replicas : rec[t][r].status = Committed) =>
        \A k \in Writes[t] \cup Deletes[t] :
            <<t, k>> \in intents \/ <<t, ShardOf[k], "applied">> \in effect

\* transaction.go:191-196: when notifyParticipantsSync reports no failure, the
\* intents of all shards, the coordinator's included, are resolved, and they
\* never come back.
SyncVisible ==
    \A t \in Txns : result[t] = "synced" =>
        \A k \in Writes[t] \cup Deletes[t] :
            /\ <<t, k>> \notin intents
            /\ <<t, ShardOf[k], "applied">> \in effect

\* A decision is never reversed on any replica (finalizeTransaction), and the
\* write-back of the recovery loop does not restore an older one.
DecisionFinal ==
    [][\A t \in Txns, r \in Replicas :
          Finalized(rec[t][r]) => rec'[t][r].status \in {rec[t][r].status, "none"}]_vars

\* The recovery loop deletes the record of a committed transaction only when
\* the participants hold none of its intents any more.
CleanupSafe ==
    [][\A t \in Txns, r \in Replicas :
          rec[t][r].status = Committed /\ rec'[t][r] = NoRec =>
             \A k \in Keys : <<t, k>> \in intents => ShardOf[k] = coord[t]]_vars

\* Higher timestamp always wins (shouldWriteValue): a document is replaced or
\* removed only by a transaction with a higher timestamp.
HigherTimestampWins ==
    [][\A k \in Keys : val'[k] # val[k] =>
          \E t \in Txns : <<t, k>> \in intents \ intents' /\ ts[t] > val[k].ts]_vars

\* A write that was applied is visible, or a later transaction's is: the
\* document's version is never below that of an applied write.
AppliedVisible ==
    \A t \in Txns : \A k \in Writes[t] \ Deletes[t] :
        <<t, ShardOf[k], "applied">> \in effect => val[k].ts >= ts[t]

\* Of the transactions that read one version of a key and write the key with a
\* timestamp above that version, at most one is applied, however their intents,
\* decisions and resolutions interleave (the predicate check of WriteIntent).
\* api_transaction.go:83-84 promises this of all transactions, "is what prevents
\* lost updates".  It does not hold of one whose timestamp, from the clock of
\* another server, is below the version it read: shouldWriteValue skips its write,
\* the version stays, and the next transaction that has read it passes the check.
OneUpdatePerVersion ==
    \A t, u \in Txns : t # u =>
        \A k \in Reads[t] \cap Writes[t] \cap Reads[u] \cap Writes[u] :
            /\ <<t, ShardOf[k], "applied">> \in effect
            /\ <<u, ShardOf[k], "applied">> \in effect
            /\ expect[t][k] = expect[u][k]
            => ts[t] <= expect[t][k] \/ ts[u] <= expect[u][k]

\* api.yaml:2355-2356: all read versions still match when the writes are
\* executed.  At the commit point every key read has the version expected.
ReadsMatchAtCommit ==
    [][\A t \in Txns, r \in Replicas :
          rec[t][r].status # Committed /\ rec'[t][r].status = Committed =>
             \A k \in Reads[t] : val[k].ts = expect[t][k]]_vars

-----------------------------------------------------------------------------
(***************************************************************************)
(* Liveness.  The fairness is what the code's loops give: an orchestrator's *)
(* calls end (context, retry budget), the recovery ticker keeps firing on  *)
(* whoever leads, time passes, and a shard that is asked again and again   *)
(* applies some such request (Raft keeps a quorum now and then).           *)
(***************************************************************************)
ApplyFor(op, t, s) == \E q \in net : q.op = op /\ q.txn = t /\ q.shard = s /\ Apply(q)

Fairness ==
    /\ \A t \in Txns : WF_vars(pc[t] # "idle" /\ Orchestrator(t))
    /\ \A t \in Txns : WF_vars(PassCreated(t))
    /\ \A t \in Txns : WF_vars(\E r \in Replicas : Recovery(t, r))
    /\ \A op \in {"init", "intent", "commit", "abort", "resolve"}, t \in Txns, s \in Shards :
          SF_vars(ApplyFor(op, t, s))

FairSpec == Spec /\ Fairness

\* A transaction that is committed is eventually resolved on all participants
\* (the recovery loop retries until they are), even if the orchestrator died.
CommittedResolves ==
    \A t \in Txns :
        (\E r \in Replicas : rec[t][r].status = Committed)
           ~> (\A k \in Keys : <<t, k>> \in intents => ShardOf[k] = coord[t])

\* db.go:1282-1285: no transaction stays Pending for ever, so its intents do
\* not block others for ever.
PendingDecided ==
    \A t \in Txns, r \in Replicas :
        (rec[t][r].status = Pending) ~> (rec[t][r].status # Pending)

-----------------------------------------------------------------------------
(* The protocol implements AtomicCommit. *)

\* The shards on which WriteIntent leaves something of t.
Parts == [t \in Txns |-> {ShardOf[k] : k \in Writes[t] \cup Deletes[t]}]

\* A shard's part is prepared while its intents are in the store; once they
\* are resolved, how they were resolved is what counts.
PartState(t, s) ==
    IF <<t, s, "applied">> \in effect THEN "committed"
    ELSE IF <<t, s, "dropped">> \in effect THEN "aborted"
    ELSE IF {t} \X IntentKeys(t, s) \subseteq intents THEN "prepared" ELSE "working"

\* "unknown" tells the caller nothing.
Told(t) ==
    IF result[t] \in {"synced", "committed"} THEN "success"
    ELSE IF result[t] = "failed" THEN "failed" ELSE "nothing"

AC == INSTANCE AtomicCommit WITH
        state <- [t \in Txns |-> [s \in Parts[t] |-> PartState(t, s)]],
        told <- [t \in Txns |-> Told(t)]

\* docs/glossary.mdx:162, "all participants in a transaction either commit or
\* abort together", as a specification the whole protocol implements: a shard
\* applies its part only when every part of the batch is held or applied and
\* the caller was not told of a failure, drops it only when none is applied and
\* the caller was not told of a success; nothing is undone or done twice.
ImplementsAtomicCommit == AC!Spec
=============================================================================
