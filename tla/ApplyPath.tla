----------------------------- MODULE ApplyPath -----------------------------
(***************************************************************************)
(* From the committed Raft log to the documents of a shard, on every       *)
(* replica: the Ready loop of raft.go (save, publish, advance, snapshot),  *)
(* the unbuffered channel commitC, readCommits of storedb.go, which        *)
(* coalesces the batches of one commit, and what a crash leaves.           *)
(*                                                                         *)
(* Raft's agreement is external: log is the sequence of committed entries, *)
(* and each replica learns of a prefix of it.  A document is the sequence  *)
(* of the writes and transforms it is made of, each named by the index of  *)
(* its entry and by the timestamp it was stored with; <<>> is no document. *)
(***************************************************************************)
EXTENDS Integers, Sequences, FiniteSets, Functions, SequencesExt

CONSTANTS Replicas,   \* the replicas of the shard
          Keys,       \* document keys
          Batches,    \* the batches that callers propose
          Together,   \* sequences of batches that wait in proposalQueue at once
          SnapCount,  \* raftNode.snapCount
          CatchUp,    \* SnapshotCatchUpEntriesN
          MaxLog,     \* bound on the entries of the log
          MaxCrashes  \* bound on the crashes

\* A batch; its transforms are given per key, with whether they upsert.
BatchOps == [kind : {"batch"}, ts : Nat, writes : SUBSET Keys, deletes : SUBSET Keys,
             transforms : UNION {[K -> BOOLEAN] : K \in SUBSET Keys}]
IsEmpty(b) == b.writes = {} /\ b.deletes = {} /\ DOMAIN b.transforms = {}

\* The API refuses empty batches; only merged ones, which have no timestamp, may
\* be left with nothing.
ASSUME ApplyAssumption ==
    /\ Batches \subseteq BatchOps /\ \A b \in Batches : b.ts # 0 => ~IsEmpty(b)
    /\ Together \subseteq Seq(BatchOps)
    /\ SnapCount \in Nat /\ CatchUp \in Nat /\ MaxLog \in Nat /\ MaxCrashes \in Nat

VARIABLES log,      \* committed entries
          disk,     \* [Replicas -> commit of the HardState, snapshot, compacted index, documents]
          node,     \* [Replicas -> fields of raftNode and the state of the Ready loop]
          reader,   \* [Replicas -> the commit that readCommits works on]
          history,  \* [Replicas -> what the documents stand for; see Blank]
          crashes   \* how often a replica has crashed

vars == <<log, disk, node, reader, history, crashes>>

-----------------------------------------------------------------------------
(* Entries *)

\* An entry without data (a new leader's, or a configuration change) and the
\* operations that readCommits applies one by one (indexes, schema, intents).
Empty == [kind |-> "empty"]
OtherOp == [kind |-> "op"]
HasData(i) == log[i].kind # "empty"
DataUpTo(n) == {i \in 1 .. n : HasData(i)}

NoKeys == [k \in {} |-> FALSE]
BatchOp(ts, writes, deletes, transforms) ==
    [kind |-> "batch", ts |-> ts, writes |-> writes, deletes |-> deletes, transforms |-> transforms]

\* proposalDequeuer: the batches of callers that wait at the same time become
\* one, which has no timestamp; of the transforms of a key the first says
\* whether they upsert.
MergeProposals(ops) ==
    LET changing(k) == {i \in DOMAIN ops : k \in DOMAIN ops[i].transforms}
    IN BatchOp(0, UNION {ops[i].writes : i \in DOMAIN ops},
               UNION {ops[i].deletes : i \in DOMAIN ops},
               [k \in UNION {DOMAIN ops[i].transforms : i \in DOMAIN ops} |->
                   ops[Min(changing(k))].transforms[k]])

\* What may be in the log.
Entries == Batches \cup {Empty, OtherOp} \cup {MergeProposals(ops) : ops \in Together}

-----------------------------------------------------------------------------
(* readCommits: what is pending between two flushes *)

Nothing == [writes |-> <<>>, deletes |-> {}, transforms |-> <<>>, ts |-> 0, of |-> {}]
HasPending(p) == DOMAIN p.writes # {} \/ p.deletes # {} \/ DOMAIN p.transforms # {}

\* Mutant of Coalesce: a write does not drop the pending delete of its key.
CoalesceKeepsDeletes(p, b, i) ==
    LET writes == Restrict(p.writes, DOMAIN p.writes \ (b.deletes \cup DOMAIN b.transforms))
        transforms == Restrict(p.transforms, DOMAIN p.transforms \ (b.deletes \cup b.writes))
    IN [writes |-> [k \in DOMAIN writes \cup b.writes |-> IF k \in b.writes THEN i ELSE writes[k]],
        deletes |-> (p.deletes \ DOMAIN b.transforms) \cup b.deletes,
        transforms |-> [k \in DOMAIN transforms \cup DOMAIN b.transforms |->
            IF k \notin DOMAIN transforms THEN [upsert |-> b.transforms[k], ops |-> <<i>>]
            ELSE IF k \in DOMAIN b.transforms THEN [transforms[k] EXCEPT !.ops = Append(@, i)]
            ELSE transforms[k]],
        ts |-> IF p.ts = 0 THEN b.ts ELSE p.ts,
        of |-> p.of \cup {i}]

\* The case Op_OpBatch after its flush: deletes drop pending writes and
\* transforms of their keys, writes drop deletes and transforms, transforms
\* drop writes and deletes and join a pending transform.
Coalesce(p, b, i) ==
    LET writes == Restrict(p.writes, DOMAIN p.writes \ (b.deletes \cup DOMAIN b.transforms))
        transforms == Restrict(p.transforms, DOMAIN p.transforms \ (b.deletes \cup b.writes))
    IN [writes |-> [k \in DOMAIN writes \cup b.writes |-> IF k \in b.writes THEN i ELSE writes[k]],
        deletes |-> (p.deletes \ (b.writes \cup DOMAIN b.transforms)) \cup b.deletes,
        transforms |-> [k \in DOMAIN transforms \cup DOMAIN b.transforms |->
            IF k \notin DOMAIN transforms THEN [upsert |-> b.transforms[k], ops |-> <<i>>]
            ELSE IF k \in DOMAIN b.transforms THEN [transforms[k] EXCEPT !.ops = Append(@, i)]
            ELSE transforms[k]],
        ts |-> IF p.ts = 0 THEN b.ts ELSE p.ts,
        of |-> p.of \cup {i}]

Stored(i, ts) == [of |-> i, ts |-> ts]

\* resolveTransforms: what transforms make of the stored documents; one of a
\* missing document is skipped unless it is an upsert.
ResolveTransforms(docs, p) ==
    [k \in {k \in DOMAIN p.transforms : docs[k] # <<>> \/ p.transforms[k].upsert} |->
        docs[k] \o [j \in DOMAIN p.transforms[k].ops |-> Stored(p.transforms[k].ops[j], p.ts)]]

\* flushBatch: resolved transforms go behind the writes, and Batch stores the
\* writes, then deletes, in one durable Pebble batch.
FlushBatch(docs, p) ==
    LET resolved == ResolveTransforms(docs, p)
    IN [k \in Keys |->
           IF k \in p.deletes THEN <<>>
           ELSE IF k \in DOMAIN resolved THEN resolved[k]
           ELSE IF k \in DOMAIN p.writes THEN <<Stored(p.writes[k], p.ts)>>
           ELSE docs[k]]

\* Keys for which coalescing is not what the entries say one by one: a
\* transform that drops a write or a delete of its key, or that joins one with
\* another upsert.
MixedUp(p, b) ==
    {k \in DOMAIN b.transforms :
        \/ k \in DOMAIN p.writes \cup p.deletes \cup b.writes
        \/ k \in DOMAIN p.transforms /\ p.transforms[k].upsert # b.transforms[k]}

-----------------------------------------------------------------------------
NoDocs == [k \in Keys |-> <<>>]

\* History variables: the entries that the documents contain, the keys that
\* were mixed up, and whether no entry was skipped.
Blank == [done |-> {}, mixed |-> {}, whole |-> TRUE]

Idle == [pc |-> "ready", upto |-> 0, wait |-> FALSE]
\* The indexes of a commit are taken in the order of the log.
NoCommit == [kind |-> "none", ents |-> {}, pending |-> Nothing]

Init ==
    /\ log = <<>>
    /\ disk = [r \in Replicas |-> [commit |-> 0, compacted |-> 0, docs |-> NoDocs,
                  snap |-> [index |-> 0, docs |-> NoDocs, history |-> Blank]]]
    /\ node = [r \in Replicas |-> [appliedIndex |-> 0, snapshotIndex |-> 0, next |-> 1, loop |-> Idle]]
    /\ reader = [r \in Replicas |-> NoCommit]
    /\ history = [r \in Replicas |-> Blank]
    /\ crashes = 0

\* syncWriteOp proposes one batch; proposalDequeuer the batches of several
\* callers; the others are not batches.
Propose ==
    /\ Len(log) < MaxLog
    /\ \E e \in Entries : log' = Append(log, e)
    /\ UNCHANGED <<disk, node, reader, history, crashes>>

Loop(r, pc) == node[r].loop.pc = pc

\* A Ready: HardState and entries are saved, and the committed entries are the
\* ones after those that the library has handed out since the start.
Ready(r) ==
    /\ Loop(r, "ready")
    /\ \E n \in node[r].next .. Len(log) :
          /\ n >= disk[r].commit
          /\ disk' = [disk EXCEPT ![r].commit = n]
          /\ node' = [node EXCEPT ![r].loop = [pc |-> "publish", upto |-> n, wait |-> FALSE]]
    /\ UNCHANGED <<log, reader, history, crashes>>

\* A Ready with a snapshot, of a replica that has compacted what r needs next:
\* the metadata is saved before publishSnapshot.
ReadySnapshot(r, s) ==
    /\ Loop(r, "ready") /\ disk[s].compacted > disk[r].commit
    /\ disk' = [disk EXCEPT ![r] = [commit |-> disk[s].snap.index, compacted |-> disk[s].snap.index,
                                    docs |-> @.docs, snap |-> disk[s].snap]]
    /\ node' = [node EXCEPT ![r].loop = [pc |-> "snapshot", upto |-> disk[s].snap.index, wait |-> FALSE]]
    /\ UNCHANGED <<log, reader, history, crashes>>

\* publishSnapshot hands a nil over to readCommits, then moves the indexes;
\* Advance follows, and no snapshot is due.
PublishSnapshot(r) ==
    LET n == node[r].loop.upto
    IN /\ Loop(r, "snapshot") /\ reader[r].kind = "none"
       /\ reader' = [reader EXCEPT ![r] = [kind |-> "snapshot", ents |-> {}, pending |-> Nothing]]
       /\ node' = [node EXCEPT ![r] = [appliedIndex |-> n, snapshotIndex |-> n, next |-> n + 1,
                                       loop |-> Idle]]
       /\ UNCHANGED <<log, disk, history, crashes>>

\* entriesToApply
EntriesToApply(r) == node[r].appliedIndex + 1 .. node[r].loop.upto

\* The first test of maybeTriggerSnapshot.
SnapshotDue(applied, snapshot) == applied - snapshot > SnapCount

\* publishEntries: entries with data go through commitC, which blocks until
\* readCommits is done with the commit before; appliedIndex moves at once.
\* Advance follows, and maybeTriggerSnapshot when a snapshot is due.
PublishEntries(r) ==
    LET ents == EntriesToApply(r)
        data == {i \in ents : HasData(i)}
        applied == IF ents = {} THEN node[r].appliedIndex ELSE node[r].loop.upto
    IN /\ Loop(r, "publish")
       /\ data # {} => reader[r].kind = "none"
       /\ reader' = IF data = {} THEN reader
                    ELSE [reader EXCEPT ![r] = [kind |-> "entries", ents |-> data, pending |-> Nothing]]
       /\ node' = [node EXCEPT ![r] =
                     [appliedIndex |-> applied, snapshotIndex |-> @.snapshotIndex,
                      next |-> node[r].loop.upto + 1,
                      loop |-> IF SnapshotDue(applied, node[r].snapshotIndex)
                               THEN [pc |-> "trigger", upto |-> 0, wait |-> data # {}] ELSE Idle]]
       /\ UNCHANGED <<log, disk, history, crashes>>

\* Mutant of MaybeTriggerSnapshot: applyDoneC is not waited for.
MaybeTriggerSnapshotAtOnce(r) ==
    LET n == node[r].appliedIndex
    IN /\ Loop(r, "trigger")
       /\ disk' = [disk EXCEPT ![r].snap = [index |-> n, docs |-> disk[r].docs, history |-> history[r]]]
       /\ node' = [node EXCEPT ![r].snapshotIndex = n, ![r].loop = Idle]
       /\ UNCHANGED <<log, reader, history, crashes>>

\* The rest of it: waits only for the entries of this Ready. The storage
\* snapshot holds the documents of now and is labelled with appliedIndex; it
\* may fail, and then there is no Raft snapshot either.
MaybeTriggerSnapshot(r) ==
    LET n == node[r].appliedIndex
    IN /\ Loop(r, "trigger")
       /\ node[r].loop.wait => reader[r].kind = "none"
       /\ \/ /\ disk' = [disk EXCEPT
                   ![r].snap = [index |-> n, docs |-> disk[r].docs,
                                history |-> [history[r] EXCEPT !.whole =
                                               @ /\ (node[r].loop.wait \/ reader[r].kind = "none")]],
                   ![r].compacted = IF n - CatchUp > 1 /\ n - CatchUp > @ THEN n - CatchUp ELSE @]
             /\ node' = [node EXCEPT ![r].snapshotIndex = n, ![r].loop = Idle]
          \/ node' = [node EXCEPT ![r].loop = Idle] /\ UNCHANGED disk
       /\ UNCHANGED <<log, reader, history, crashes>>

\* What a flush makes of replica r's documents.
Flushed(r, p) ==
    /\ disk' = [disk EXCEPT ![r].docs = FlushBatch(@, p)]
    /\ history' = [history EXCEPT ![r].done = @ \cup p.of]

\* One entry of a commit. A batch joins what is pending, which is flushed first
\* if its timestamp differs; any other operation flushes and is applied.
ApplyEntry(r) ==
    LET c == reader[r]
        i == Min(c.ents)
        b == log[i]
        flush == b.kind # "batch" \/ (HasPending(c.pending) /\ b.ts # c.pending.ts)
        rest == IF flush THEN Nothing ELSE c.pending
    IN /\ c.kind = "entries" /\ c.ents # {}
       /\ disk' = [disk EXCEPT ![r].docs = IF flush THEN FlushBatch(@, c.pending) ELSE @]
       /\ history' = [history EXCEPT ![r] =
             [done |-> (IF flush THEN @.done \cup c.pending.of ELSE @.done)
                           \cup (IF b.kind = "op" THEN {i} ELSE {}),
              mixed |-> IF b.kind = "batch" THEN @.mixed \cup MixedUp(rest, b) ELSE @.mixed,
              whole |-> @.whole]]
       /\ reader' = [reader EXCEPT ![r] =
             [kind |-> "entries", ents |-> @.ents \ {i},
              pending |-> IF b.kind = "batch" THEN Coalesce(rest, b, i) ELSE rest]]
       /\ UNCHANGED <<log, node, crashes>>

\* Mutant of FinishCommit: ApplyDoneC is only closed when something was flushed.
FinishCommitFlushed(r) ==
    /\ reader[r].kind = "entries" /\ reader[r].ents = {} /\ HasPending(reader[r].pending)
    /\ Flushed(r, reader[r].pending)
    /\ reader' = [reader EXCEPT ![r] = NoCommit]
    /\ UNCHANGED <<log, node, crashes>>

\* The end of a commit: what is pending is flushed and ApplyDoneC closed.
FinishCommit(r) ==
    /\ reader[r].kind = "entries" /\ reader[r].ents = {}
    /\ Flushed(r, reader[r].pending)
    /\ reader' = [reader EXCEPT ![r] = NoCommit]
    /\ UNCHANGED <<log, node, crashes>>

\* A nil commit: the documents are replaced by those of the snapshot that the
\* log storage names now.
LoadPersistentSnapshot(r) ==
    /\ reader[r].kind = "snapshot"
    /\ disk' = [disk EXCEPT ![r].docs = disk[r].snap.docs]
    /\ history' = [history EXCEPT ![r] = disk[r].snap.history]
    /\ reader' = [reader EXCEPT ![r] = NoCommit]
    /\ UNCHANGED <<log, node, crashes>>

\* A crash and the restart: NewStoreDB opens the documents as they are,
\* serveChannels starts appliedIndex at the saved commit, and the library hands
\* out the committed entries of the log once more.
Restart(r) ==
    LET d == disk[r]
        n == IF d.snap.index > d.commit THEN d.snap.index ELSE d.commit
    IN /\ crashes < MaxCrashes /\ crashes' = crashes + 1
       /\ node' = [node EXCEPT ![r] = [appliedIndex |-> n, snapshotIndex |-> d.snap.index,
                                       next |-> d.compacted + 1, loop |-> Idle]]
       /\ reader' = [reader EXCEPT ![r] = NoCommit]
       /\ history' = [history EXCEPT ![r].whole = @ /\ DataUpTo(n) \subseteq history[r].done]
       /\ UNCHANGED <<log, disk>>

Step(r) ==
    \/ Ready(r) \/ PublishSnapshot(r) \/ PublishEntries(r) \/ MaybeTriggerSnapshot(r)
    \/ ApplyEntry(r) \/ FinishCommit(r) \/ LoadPersistentSnapshot(r)

Next ==
    \/ Propose
    \/ \E r \in Replicas : Step(r) \/ Restart(r) \/ \E s \in Replicas \ {r} : ReadySnapshot(r, s)

Spec == Init /\ [][Next]_vars

-----------------------------------------------------------------------------
(* Properties *)

\* Types of the indexes, of the loop and of the documents.
TypeOK ==
    /\ Len(log) <= MaxLog /\ crashes <= MaxCrashes
    /\ \A r \in Replicas :
          /\ disk[r].snap.index <= node[r].appliedIndex \/ node[r].loop.pc = "snapshot"
          /\ node[r].appliedIndex <= disk[r].commit /\ disk[r].commit <= Len(log)
          /\ node[r].snapshotIndex <= node[r].appliedIndex
          /\ disk[r].compacted <= disk[r].snap.index
          /\ history[r].done \subseteq DataUpTo(Len(log))
          /\ \A k \in Keys : \A j \in DOMAIN disk[r].docs[k] : disk[r].docs[k][j].of \in DOMAIN log

\* What entry b with index i makes of the document of a key when it is applied
\* alone: its write, then its transform, then its delete.
OneKey(doc, b, i, k) ==
    LET written == IF k \in b.writes THEN <<Stored(i, b.ts)>> ELSE doc
        changes == k \in DOMAIN b.transforms /\ (written # <<>> \/ b.transforms[k])
    IN IF k \in b.deletes THEN <<>>
       ELSE IF changes THEN Append(written, Stored(i, b.ts)) ELSE written

\* The document of a key after the entries of a set, one at a time in the order
\* of the log.
ReplayOf(entries, indexes, k) ==
    LET upTo[n \in 0 .. Len(entries)] ==
            IF n = 0 THEN <<>>
            ELSE IF n \in indexes /\ entries[n].kind = "batch"
                 THEN OneKey(upTo[n - 1], entries[n], n, k)
            ELSE upTo[n - 1]
    IN upTo[Len(entries)]
Replay(indexes, k) == ReplayOf(log, indexes, k)

AgreesWith(docs, h) == \A k \in Keys \ h.mixed : docs[k] = Replay(h.done, k)

InFlight(r) == reader[r].ents \cup reader[r].pending.of

\* The documents of a replica are the log's, applied one entry at a time and
\* each with its own timestamp, however the entries were split into commits:
\* two replicas agree on every key that no transform mixed up. Nothing up to
\* appliedIndex is skipped, unless a restart skipped it.
AppliedInOrder ==
    \A r \in Replicas :
        /\ AgreesWith(disk[r].docs, history[r])
        /\ history[r].whole /\ reader[r].kind # "snapshot" /\ ~Loop(r, "snapshot") =>
              history[r].done \cup InFlight(r) = DataUpTo(node[r].appliedIndex)

\* The apply path is sound: types and order.
ApplySound == TypeOK /\ AppliedInOrder

\* A snapshot contains what its index says, so that a replica that installs it
\* misses nothing: unless an entry was skipped before it, or the Ready that
\* triggered it had nothing to wait for while an older commit was applied.
SnapshotTrue ==
    \A r \in Replicas :
        LET snap == disk[r].snap
        IN /\ AgreesWith(snap.docs, snap.history)
           /\ snap.history.whole => snap.history.done = DataUpTo(snap.index)

\* Neither the channel nor the wait for a snapshot blocks a replica for ever: one
\* that has not applied the whole log can go on, unless it has skipped an entry.
NeverStuck ==
    \A r \in Replicas :
        history[r].whole /\ history[r].done # DataUpTo(Len(log)) => ENABLED Step(r)

\* "If the system crashes, the WAL enables recovery by replaying logged
\* operations": an entry that the replica has saved as committed is applied, is
\* being applied or is still to be published.
RecoveredByReplay ==
    \A r \in Replicas :
        DataUpTo(disk[r].commit) \subseteq
            history[r].done \cup InFlight(r) \cup (node[r].appliedIndex + 1 .. MaxLog)

=============================================================================
