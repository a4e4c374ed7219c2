--------------------------- MODULE StorageEngine ---------------------------
(***************************************************************************)
(* The local write path of one node: StorageEngine (engine.rs), its        *)
(* memtables (memtable/mod.rs) and its commit log (commitlog/).  Threads   *)
(* apply mutations, flush a column family (inline, after a write that      *)
(* fills the memtables, or on an administrator's request), truncate it,    *)
(* compact its SSTables (compaction/mod.rs) and reload them from disk.  A  *)
(* crash loses what is in memory and what the log has not synced.          *)
(*                                                                         *)
(* A mutation is an identity: a memtable, an SSTable or a segment is the   *)
(* set of the mutations whose data it holds, and two SSTables that hold    *)
(* the same are one.  Left out: the truncation points (recorded, never     *)
(* read), the row cache (never configured), the generations of SSTables,   *)
(* CDC, indexes and views.                                                 *)
(***************************************************************************)
EXTENDS Naturals, SequencesExt

CONSTANTS
    Cf,             \* column families
    Mutation,
    CfOf,           \* [Mutation -> Cf]
    Rowless,        \* mutations of static cells, partition or range tombstones only
    Erases,         \* [Mutation -> mutations of the same cell with an older timestamp]
    Expired,        \* tombstones whose gc_grace_seconds are over
    Thread,
    None,
    MaxMemtable,    \* bound: memtables of one run of the process
    Scenarios       \* what may happen together, a set of records

OpNames == {"flush", "truncate", "rotate", "sync", "reload", "io_error", "crash"}

\* The threads, those of them that compact and the mutations, the SyncPolicy (Batch
\* or Periodic), what else may happen, and how many segments and crashes there are.
Scenario ==
    [threads : SUBSET Thread, compactors : SUBSET Thread, mutations : SUBSET Mutation, batch : BOOLEAN,
     ops : SUBSET OpNames, segments : Nat, crashes : Nat]

ASSUME CfAssumption == CfOf \in [Mutation -> Cf] /\ Rowless \subseteq Mutation
ASSUME ErasesAssumption ==
    /\ Erases \in [Mutation -> SUBSET Mutation] /\ Expired \subseteq Mutation
    /\ \A m \in Mutation : \A n \in Erases[m] : CfOf[n] = CfOf[m] /\ n # m
ASSUME ScenarioAssumption == Scenarios \subseteq Scenario /\ MaxMemtable \in Nat

VARIABLES
    segs,       \* the segment files: [id |-> entries and how many of them are synced]
    cur,        \* the current segment
    memtables,  \* every memtable of this run: [id |-> lower bound and mutations]
    active,     \* [Cf -> memtable id, 0 for none]
    flushing,   \* ids of the memtables being flushed
    live, disk, \* the SSTables that are loaded, and those on disk
    pc, at,     \* the threads: where they are, and their local variables
    used,       \* mutations handed to apply_mutation
    acked,      \* mutations that apply_mutation returned Ok for, minus the truncated ones
    truncated,  \* mutations acknowledged before a truncation that has returned
    crashes, scenario

vars == <<segs, cur, memtables, active, flushing, live, disk, pc, at, used, acked, truncated, crashes, scenario>>

Local == [m |-> None, cf |-> None, seg |-> 0, mt |-> 0, rows |-> {}, files |-> {}]

EmptySegment == [entries |-> <<>>, synced |-> 0]

Init ==
    /\ scenario \in Scenarios
    /\ segs = 1 :> EmptySegment /\ cur = 1
    /\ memtables = <<>> /\ active = [c \in Cf |-> 0] /\ flushing = {}
    /\ live = {} /\ disk = {}
    /\ pc = [t \in Thread |-> "idle"] /\ at = [t \in Thread |-> Local]
    /\ used = {} /\ acked = {} /\ truncated = {} /\ crashes = 0

Goto(t, label) == pc' = [pc EXCEPT ![t] = label]

Synced(seg) == [seg EXCEPT !.synced = Len(seg.entries)]

\* The log with a synced current segment and a fresh one, and the one as it is.
Rotated == (cur + 1) :> EmptySegment @@ [segs EXCEPT ![cur] = Synced(@)]

-----------------------------------------------------------------------------
\* apply_mutation

\* CommitLog::append, which holds the segment's lock throughout.
LogMutation(t, m, rotate) ==
    /\ pc[t] = "idle" /\ m \notin used
    /\ rotate => "rotate" \in scenario.ops /\ cur < scenario.segments
    /\ LET log == IF rotate THEN Rotated ELSE segs
           id == IF rotate THEN cur + 1 ELSE cur
           seg == [log[id] EXCEPT !.entries = Append(@, m)]
       IN /\ segs' = [log EXCEPT ![id] = IF scenario.batch THEN Synced(seg) ELSE seg]
          /\ cur' = id
          /\ at' = [at EXCEPT ![t] = [Local EXCEPT !.m = m, !.cf = CfOf[m], !.seg = id]]
    /\ used' = used \cup {m}
    /\ Goto(t, "logged")
    /\ UNCHANGED <<memtables, active, flushing, live, disk, acked, truncated, crashes, scenario>>

NewMemtable(lower, rows) == [lower |-> lower, rows |-> rows]

\* MemtableManager::get_or_create
GetOrCreate(t) ==
    /\ pc[t] = "logged"
    /\ LET c == at[t].cf
           fresh == active[c] = 0
           id == IF fresh THEN Len(memtables) + 1 ELSE active[c]
       IN /\ memtables' = IF fresh THEN Append(memtables, NewMemtable(at[t].seg, {})) ELSE memtables
          /\ active' = [active EXCEPT ![c] = id]
          /\ at' = [at EXCEPT ![t].mt = id]
    /\ Goto(t, "got")
    /\ UNCHANGED <<segs, cur, flushing, live, disk, used, acked, truncated, crashes, scenario>>

Apply(t) ==
    /\ pc[t] = "got"
    /\ memtables' = [memtables EXCEPT ![at[t].mt].rows = @ \cup {at[t].m}]
    /\ Goto(t, "applied")
    /\ UNCHANGED <<segs, cur, active, flushing, live, disk, at, used, acked, truncated, crashes, scenario>>

\* The operation returns Ok.
Done(t) ==
    /\ pc' = [pc EXCEPT ![t] = "idle"] /\ at' = [at EXCEPT ![t] = Local]
    /\ acked' = IF at[t].m = None THEN acked ELSE acked \cup {at[t].m}

Return(t) ==
    /\ pc[t] = "applied" /\ Done(t)
    /\ UNCHANGED <<segs, cur, memtables, active, flushing, live, disk, used, truncated, crashes, scenario>>

-----------------------------------------------------------------------------
\* flush_cf

\* switch_memtable's argument, current_segment_id, is read first.
BeginFlush(t, c) ==
    /\ "flush" \in scenario.ops /\ (pc[t] = "idle" \/ (pc[t] = "applied" /\ c = at[t].cf))
    /\ at' = [at EXCEPT ![t].cf = c, ![t].seg = cur]
    /\ Goto(t, "switching")
    /\ UNCHANGED <<segs, cur, memtables, active, flushing, live, disk, used, acked, truncated, crashes, scenario>>

\* A fresh active memtable for the column family.
Fresh(t) ==
    /\ Len(memtables) < MaxMemtable
    /\ memtables' = Append(memtables, NewMemtable(at[t].seg, {}))
    /\ active' = [active EXCEPT ![at[t].cf] = Len(memtables) + 1]

\* MemtableManager::switch_memtable; there may be nothing to flush.
SwitchMemtable(t) ==
    /\ pc[t] = "switching" /\ Fresh(t)
    /\ LET old == active[at[t].cf] IN
         IF old = 0
           THEN Done(t) /\ UNCHANGED flushing
           ELSE /\ flushing' = flushing \cup {old}
                /\ at' = [at EXCEPT ![t].mt = old]
                /\ Goto(t, "switched") /\ UNCHANGED acked
    /\ UNCHANGED <<segs, cur, live, disk, used, truncated, crashes, scenario>>

\* iter_partitions, and the writer of the SSTable.
WriteSSTable(t) ==
    /\ pc[t] = "switched"
    /\ LET rows == memtables[at[t].mt].rows IN
         IF rows = {}
           THEN flushing' = flushing \ {at[t].mt} /\ Done(t) /\ UNCHANGED disk
           ELSE /\ disk' = disk \cup {rows}
                /\ at' = [at EXCEPT ![t].rows = rows]
                /\ Goto(t, "written") /\ UNCHANGED <<flushing, acked>>
    /\ UNCHANGED <<segs, cur, memtables, active, live, used, truncated, crashes, scenario>>

\* The writer fails: flush_cf, and the apply_mutation it is part of, return Err.
WriteSSTableFails(t) ==
    /\ "io_error" \in scenario.ops /\ pc[t] = "switched" /\ memtables[at[t].mt].rows # {}
    /\ pc' = [pc EXCEPT ![t] = "idle"] /\ at' = [at EXCEPT ![t] = Local]
    /\ UNCHANGED <<segs, cur, memtables, active, flushing, live, disk, used, acked, truncated, crashes, scenario>>

\* Mutant: the new SSTable is not loaded.
PushSSTableUnloaded(t) ==
    /\ pc[t] = "written" /\ Goto(t, "pushed")
    /\ UNCHANGED <<segs, cur, memtables, active, flushing, live, disk, at, used, acked, truncated, crashes, scenario>>

PushSSTable(t) ==
    /\ pc[t] = "written"
    /\ live' = live \cup {at[t].rows}
    /\ Goto(t, "pushed")
    /\ UNCHANGED <<segs, cur, memtables, active, flushing, disk, at, used, acked, truncated, crashes, scenario>>

FlushComplete(t) ==
    /\ pc[t] = "pushed"
    /\ flushing' = flushing \ {at[t].mt}
    /\ Goto(t, "completed")
    /\ UNCHANGED <<segs, cur, memtables, active, live, disk, at, used, acked, truncated, crashes, scenario>>

\* Mutant: only this column family counts.
BoundedByOwn(t) == {active[at[t].cf]}

\* The memtables that keep segments.
BoundedBy(t) == ({active[c] : c \in Cf} \ {0}) \cup flushing

\* MemtableManager::lowest_commitlog_bound
LowestBound(t) ==
    /\ pc[t] = "completed"
    /\ at' = [at EXCEPT ![t].seg = Min({memtables[i].lower : i \in BoundedBy(t)})]
    /\ Goto(t, "bounded")
    /\ UNCHANGED <<segs, cur, memtables, active, flushing, live, disk, used, acked, truncated, crashes, scenario>>

Kept(t) == {i \in DOMAIN segs : i >= at[t].seg \/ i = cur}

\* CommitLog::discard_completed_segments; the recycle pool is empty by default.
DiscardSegments(t) ==
    /\ pc[t] = "bounded"
    /\ segs' = [i \in Kept(t) |-> segs[i]]
    /\ Done(t)
    /\ UNCHANGED <<cur, memtables, active, flushing, live, disk, used, truncated, crashes, scenario>>

-----------------------------------------------------------------------------
\* truncate_table

InCf(c) == {m \in Mutation : CfOf[m] = c}

BeginTruncate(t, c) ==
    /\ "truncate" \in scenario.ops /\ pc[t] = "idle"
    /\ at' = [at EXCEPT ![t] = [Local EXCEPT !.cf = c, !.seg = cur, !.rows = acked \cap InCf(c)]]
    /\ acked' = acked \ InCf(c)
    /\ Goto(t, "truncating")
    /\ UNCHANGED <<segs, cur, memtables, active, flushing, live, disk, used, truncated, crashes, scenario>>

\* Mutant: the memtable stays.
TruncateMemtableNot(t) ==
    /\ pc[t] = "truncating" /\ Goto(t, "unloading")
    /\ UNCHANGED <<segs, cur, memtables, active, flushing, live, disk, at, used, acked, truncated, crashes, scenario>>

\* The old memtable is dropped at once.
TruncateMemtable(t) ==
    /\ pc[t] = "truncating" /\ Fresh(t)
    /\ Goto(t, "unloading")
    /\ UNCHANGED <<segs, cur, flushing, live, disk, at, used, acked, truncated, crashes, scenario>>

TruncateSSTables(t) ==
    /\ pc[t] = "unloading"
    /\ LET files == {s \in live : s \subseteq InCf(at[t].cf)} IN
         /\ live' = live \ files
         /\ at' = [at EXCEPT ![t].files = files]
    /\ Goto(t, "removing")
    /\ UNCHANGED <<segs, cur, memtables, active, flushing, disk, used, acked, truncated, crashes, scenario>>

TruncateFiles(t) ==
    /\ pc[t] = "removing"
    /\ disk' = disk \ at[t].files
    /\ truncated' = truncated \cup at[t].rows
    /\ pc' = [pc EXCEPT ![t] = "idle"] /\ at' = [at EXCEPT ![t] = Local]
    /\ UNCHANGED <<segs, cur, memtables, active, flushing, live, used, acked, crashes, scenario>>

-----------------------------------------------------------------------------
\* maybe_compact and compact_group

\* Cell::merge_with, of all the cells of some mutations: what is not overwritten.
Reconciled(rows) == {m \in rows : \A n \in rows : m \notin Erases[n]}

\* merge_partitions; an empty partition is not written.
MergePartitions(rows) == Reconciled(rows) \ Expired

\* pick_compaction of some strategy chooses among the SSTables of one table.
PickCompaction(t, c, group) ==
    /\ t \in scenario.compactors /\ pc[t] = "idle"
    /\ group # {} /\ group \subseteq {s \in live : s \subseteq InCf(c)}
    /\ at' = [at EXCEPT ![t] = [Local EXCEPT !.cf = c, !.files = group]]
    /\ Goto(t, "picked")
    /\ UNCHANGED <<segs, cur, memtables, active, flushing, live, disk, used, acked, truncated, crashes, scenario>>

\* Those of the group that are still there are read and merged.
MergeGroup(t) ==
    /\ pc[t] = "picked"
    /\ LET sources == at[t].files \cap live IN
         IF sources = {}
           THEN Done(t)
           ELSE /\ at' = [at EXCEPT ![t].rows = MergePartitions(UNION sources)]
                /\ Goto(t, "merged") /\ UNCHANGED acked
    /\ UNCHANGED <<segs, cur, memtables, active, flushing, live, disk, used, truncated, crashes, scenario>>

\* The SSTables of the output: none, or one when its size has no limit.
Output(t) == {at[t].rows} \ {{}}

WriteOutput(t) ==
    /\ pc[t] = "merged"
    /\ disk' = disk \cup Output(t)
    /\ Goto(t, "compacted")
    /\ UNCHANGED <<segs, cur, memtables, active, flushing, live, at, used, acked, truncated, crashes, scenario>>

WriteOutputFails(t) ==
    /\ "io_error" \in scenario.ops /\ pc[t] = "merged" /\ Output(t) # {}
    /\ pc' = [pc EXCEPT ![t] = "idle"] /\ at' = [at EXCEPT ![t] = Local]
    /\ UNCHANGED <<segs, cur, memtables, active, flushing, live, disk, used, acked, truncated, crashes, scenario>>

\* Mutant: every SSTable of the table makes room for the output.
RetainedOfOthers(t) == {s \in live : ~(s \subseteq InCf(at[t].cf))}

Retained(t) == live \ at[t].files

\* The inputs are unloaded and the output is loaded; the files of the inputs stay.
SwapSSTables(t) ==
    /\ pc[t] = "compacted"
    /\ live' = Retained(t) \cup Output(t)
    /\ Done(t)
    /\ UNCHANGED <<segs, cur, memtables, active, flushing, disk, used, truncated, crashes, scenario>>

-----------------------------------------------------------------------------
\* reload_sstables_from_disk, behind upgradesstables and refresh

LoadSSTables(t) ==
    /\ "reload" \in scenario.ops /\ t \in scenario.compactors /\ pc[t] = "idle"
    /\ at' = [at EXCEPT ![t] = [Local EXCEPT !.files = disk]]
    /\ Goto(t, "loaded")
    /\ UNCHANGED <<segs, cur, memtables, active, flushing, live, disk, used, acked, truncated, crashes, scenario>>

ReloadSSTables(t) ==
    /\ pc[t] = "loaded"
    /\ live' = at[t].files
    /\ Done(t)
    /\ UNCHANGED <<segs, cur, memtables, active, flushing, disk, used, truncated, crashes, scenario>>

-----------------------------------------------------------------------------
\* read_partition of a column family without a memtable makes one, with bound 0.
ReadPartition(c) ==
    /\ active[c] = 0 /\ Len(memtables) < MaxMemtable
    /\ memtables' = Append(memtables, NewMemtable(0, {}))
    /\ active' = [active EXCEPT ![c] = Len(memtables) + 1]
    /\ UNCHANGED <<segs, cur, flushing, live, disk, pc, at, used, acked, truncated, crashes, scenario>>

\* sync_commitlog, called when a node is drained.
SyncCommitlog ==
    /\ "sync" \in scenario.ops
    /\ segs' = [segs EXCEPT ![cur] = Synced(@)]
    /\ UNCHANGED <<cur, memtables, active, flushing, live, disk, pc, at, used, acked, truncated, crashes, scenario>>

\* The mutations that replay_commitlog applies.
Logged(log) == UNION {Range(log[i].entries) : i \in DOMAIN log}

\* The process stops and starts again: of the unsynced entries, a prefix is in
\* the file.  CommitLog::open, load_existing_sstables, replay_commitlog.
CrashAndReplay(n) ==
    /\ "crash" \in scenario.ops /\ crashes < scenario.crashes
    /\ n \in segs[cur].synced .. Len(segs[cur].entries)
    /\ LET log == [segs EXCEPT ![cur] = Synced([@ EXCEPT !.entries = SubSeq(@, 1, n)])]
           replayed == {c \in Cf : Logged(log) \cap InCf(c) # {}}
       IN /\ segs' = (cur + 1) :> EmptySegment @@ log
          /\ cur' = cur + 1
          /\ memtables' = [i \in 1 .. Cardinality(replayed) |->
                             NewMemtable(0, (Logged(log) \ Rowless) \cap InCf(SetToSeq(replayed)[i]))]
          /\ active' = [c \in Cf |-> SelectInSeq(SetToSeq(replayed), LAMBDA d : d = c)]
    /\ flushing' = {} /\ live' = disk
    /\ pc' = [t \in Thread |-> "idle"] /\ at' = [t \in Thread |-> Local]
    /\ crashes' = crashes + 1
    /\ UNCHANGED <<disk, used, acked, truncated, scenario>>

ApplyMutation(t) ==
    \/ \E m \in scenario.mutations, rotate \in BOOLEAN : LogMutation(t, m, rotate)
    \/ GetOrCreate(t) \/ Apply(t) \/ Return(t)

FlushCf(t) ==
    \/ \E c \in Cf : BeginFlush(t, c)
    \/ SwitchMemtable(t) \/ WriteSSTable(t) \/ WriteSSTableFails(t) \/ PushSSTable(t)
    \/ FlushComplete(t) \/ LowestBound(t) \/ DiscardSegments(t)

TruncateTable(t) ==
    \/ \E c \in Cf : BeginTruncate(t, c)
    \/ TruncateMemtable(t) \/ TruncateSSTables(t) \/ TruncateFiles(t)

MaybeCompact(t) ==
    \/ \E c \in Cf, group \in SUBSET live : PickCompaction(t, c, group)
    \/ MergeGroup(t) \/ WriteOutput(t) \/ WriteOutputFails(t) \/ SwapSSTables(t)

Next ==
    \/ \E t \in scenario.threads : ApplyMutation(t) \/ FlushCf(t) \/ TruncateTable(t)
    \/ \E t \in scenario.compactors : MaybeCompact(t) \/ LoadSSTables(t) \/ ReloadSSTables(t)
    \/ \E c \in Cf : ReadPartition(c)
    \/ SyncCommitlog
    \/ \E n \in 0 .. Cardinality(Mutation) : CrashAndReplay(n)

Spec == Init /\ [][Next]_vars

\* Every thread runs.
FairSpec == Spec /\ \A t \in Thread : WF_vars(ApplyMutation(t))

-----------------------------------------------------------------------------
\* The log, the memtables and the SSTables keep their types; there is always a
\* current segment.
TypeOK ==
    /\ cur \in DOMAIN segs
    /\ \A i \in DOMAIN segs : /\ segs[i].entries \in Seq(Mutation)
                              /\ segs[i].synced \in 0 .. Len(segs[i].entries)
    /\ \A i \in DOMAIN memtables : memtables[i].rows \subseteq Mutation
    /\ active \in [Cf -> 0 .. Len(memtables)]
    /\ flushing \subseteq DOMAIN memtables
    /\ live \subseteq SUBSET Mutation /\ disk \subseteq SUBSET Mutation
    /\ used \subseteq Mutation /\ acked \subseteq used /\ truncated \subseteq used

\* What a crash now would leave: the SSTables, and what the replay brings back.
Recoverable ==
    UNION disk \cup (UNION {Range(SubSeq(segs[i].entries, 1, segs[i].synced)) : i \in DOMAIN segs} \ Rowless)

\* What a read now would merge: the active memtables and the loaded SSTables.
Visible == UNION live \cup UNION {memtables[active[c]].rows : c \in {d \in Cf : active[d] # 0}}

\* Under SyncPolicy::Batch a write that apply_mutation has acknowledged survives a
\* crash, at whatever step of whatever operation: no segment is discarded before an
\* SSTable file holds all that it holds.
AckedIsDurable == scenario.batch => acked \subseteq Recoverable

\* What the node holds in memory and in loaded SSTables, a memtable whose flush is
\* under way or has failed included.
Held == Visible \cup UNION {memtables[i].rows : i \in flushing}

\* A write that apply_mutation has acknowledged is read, or it is in a memtable
\* whose flush is under way or has failed, or a newer write of its cell is: no step
\* of a flush, a compaction or a reload loses sight of it.
AckedIsReadable == \A m \in acked : m \in Held \/ \E n \in Held : m \in Erases[n]

\* A compaction (compact_group) or a reload changes nothing that read_partition
\* returns, whatever was written and flushed while it ran.
CompactionIsInvisible ==
    [][\A t \in Thread : (pc[t] \in {"compacted", "loaded"} /\ pc'[t] = "idle" /\ crashes' = crashes)
                            => Reconciled(Visible') = Reconciled(Visible)]_vars

\* What an acknowledged delete has erased is not read again, compaction or not
\* (merge_partitions drops a tombstone gc_grace_seconds after the delete).
DeletedStaysDeleted == \A m \in acked : Erases[m] \cap Reconciled(Held) = {}

\* A write that apply_mutation has acknowledged is read at all times, during a
\* flush of its table too (read_partition merges the active memtable and the
\* loaded SSTables).
AckedIsAlwaysReadable == acked \subseteq Visible

\* What truncate_table has removed does not come back while the process lives.
TruncatedStaysGone == crashes = 0 => truncated \cap Visible = {}

\* Nor does the replay after a restart bring it back.
TruncatedStaysGoneForGood == truncated \cap Visible = {}

\* An acknowledged write is synced in the end.
EventuallyDurable == \A m \in Mutation : (m \in acked) ~> (m \in Recoverable)
=============================================================================
