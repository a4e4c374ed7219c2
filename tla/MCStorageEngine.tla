--------------------------- MODULE MCStorageEngine ---------------------------
(***************************************************************************)
(* Scenarios of the local write path: two column families share the commit *)
(* log.                                                                    *)
(***************************************************************************)
EXTENDS StorageEngine

CONSTANTS c1, c2, m1, m2, m3, t1, t2

\* m2 deletes what m1 wrote.
Delete == m1 :> {} @@ m2 :> {m1} @@ m3 :> {}

TwoAndOne == m1 :> c1 @@ m2 :> c1 @@ m3 :> c2

\* Writes, flushes and rotations, and a crash at any step.
Writes ==
    [threads |-> {t1}, compactors |-> {}, mutations |-> {m1, m2, m3}, batch |-> TRUE,
     ops |-> {"flush", "rotate", "crash"}, segments |-> 3, crashes |-> 1]

\* Failing flushes, truncations and two crashes.
Errors ==
    [threads |-> {t1}, compactors |-> {}, mutations |-> {m1, m3}, batch |-> TRUE,
     ops |-> {"flush", "rotate", "crash", "truncate", "io_error"}, segments |-> 2, crashes |-> 2]

\* Truncations, with the log synced only when a segment is full or the node drained.
Periodic ==
    [threads |-> {t1}, compactors |-> {}, mutations |-> {m1, m3}, batch |-> FALSE,
     ops |-> {"flush", "rotate", "truncate", "sync"}, segments |-> 2, crashes |-> 0]

\* Two threads that write, and a crash.
Writers ==
    [threads |-> {t1, t2}, compactors |-> {}, mutations |-> {m1, m2, m3}, batch |-> TRUE,
     ops |-> {"rotate", "crash"}, segments |-> 2, crashes |-> 1]

\* A compaction at work while another thread writes and flushes, and a crash.
Compaction ==
    [threads |-> {t1}, compactors |-> {t2}, mutations |-> {m1, m2}, batch |-> TRUE,
     ops |-> {"flush", "io_error", "crash"}, segments |-> 1, crashes |-> 1]

\* Compactions, truncations, crashes and reloads, one after the other.
Housekeeping ==
    [threads |-> {t1}, compactors |-> {t1}, mutations |-> {m1, m2}, batch |-> TRUE,
     ops |-> {"flush", "truncate"}, segments |-> 1, crashes |-> 0]

Reloading == [Housekeeping EXCEPT !.ops = {"flush", "reload", "crash"}, !.crashes = 1]

\* A flush, a truncation or a reload has the engine for itself.
Exclusive == {Writes, Errors, Periodic, Writers, Compaction, Housekeeping, Reloading}

\* Two threads, of which one flushes, or truncates, between two steps of the other.
TwoThreads ==
    [threads |-> {t1, t2}, compactors |-> {}, mutations |-> {m1, m3}, batch |-> TRUE,
     ops |-> {"flush", "rotate"}, segments |-> 2, crashes |-> 0]

Concurrent == {TwoThreads}

LateWriter == {[TwoThreads EXCEPT !.mutations = {m1, m2}, !.ops = {"flush"}]}

TruncateInFlush == {[TwoThreads EXCEPT !.mutations = {m1, m2}, !.ops = {"flush", "truncate"}]}

\* A compaction or a reload next to what it is not ordered with.
TruncateInCompaction == {[Housekeeping EXCEPT !.compactors = {t2}]}

ReloadInFlush == {[Reloading EXCEPT !.compactors = {t2}, !.ops = {"flush", "reload"}]}

ReloadAfterTruncate == {[Housekeeping EXCEPT !.ops = {"flush", "truncate", "reload"}]}

\* A restart after a truncation, or with a mutation that has no rows.
Replayed ==
    {[threads |-> {t1}, compactors |-> {}, mutations |-> {m1, m2}, batch |-> TRUE, ops |-> {"truncate", "crash"},
      segments |-> 1, crashes |-> 1]}

Unsynced == {[Periodic EXCEPT !.ops = {"rotate"}]}
==============================================================================
