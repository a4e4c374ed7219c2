------------------------------ MODULE Batchlog ------------------------------
(***************************************************************************)
(* Logged batches of one coordinator (batch.rs): execute_batch writes the  *)
(* batch to BatchLogManager, carries out its mutations in order and        *)
(* removes the entry; replay_batchlog, called by any number of background  *)
(* callers, carries out the mutations of entries that have been there too  *)
(* long; a restart loads the entry files.  A write is what                 *)
(* coordinate_write reports of it: done, or an error.                      *)
(***************************************************************************)
EXTENDS Naturals, Sequences, FiniteSets

CONSTANTS
    Batch,        \* the batches, one execute_batch each
    Size,         \* mutations in a batch
    Replayer,     \* threads that call replay_batchlog
    Background,   \* the one of them that calls it again and again
    RateLimit,    \* replay_rate_limit
    MaxCrashes,   \* bound: restarts of the coordinator
    MaxErrors,    \* bound: writes of replays that fail
    PersistFails  \* TRUE: an entry file may fail to be written

VARIABLES
    pc, step,   \* [Batch -> ...]: where execute_batch is, and its next mutation
    done,       \* [Batch -> mutations written]
    entries,    \* batches in memory
    files,      \* batches with an entry file
    lease,      \* replay_in_progress
    replay,     \* [Replayer -> the replay's work]
    crashes, errors

batches == <<pc, step, done, entries, files, lease, replay, crashes, errors>>

Mutations == 1 .. Size

IdleReplay == [pc |-> "idle", todo |-> {}, entry |-> {}, step |-> 1, ok |-> TRUE, count |-> 0]

BatchlogInit ==
    /\ pc = [b \in Batch |-> "new"] /\ step = [b \in Batch |-> 1]
    /\ done = [b \in Batch |-> {}]
    /\ entries = {} /\ files = {} /\ lease = FALSE
    /\ replay = [r \in Replayer |-> IdleReplay]
    /\ crashes = 0 /\ errors = 0

\* persist_entry: written to a temporary file, synced and renamed; an error is
\* logged and ignored.
Persist(b) == files' = files \cup {b} \/ (PersistFails /\ UNCHANGED files)

\* store: first the file, then the map.
StoreFile(b) ==
    /\ pc[b] = "new" /\ pc' = [pc EXCEPT ![b] = "stored"]
    /\ Persist(b)
    /\ UNCHANGED <<step, done, entries, lease, replay, crashes, errors>>

StoreEntry(b) ==
    /\ pc[b] = "stored" /\ pc' = [pc EXCEPT ![b] = "execute"]
    /\ entries' = entries \cup {b}
    /\ UNCHANGED <<step, done, files, lease, replay, crashes, errors>>

\* One mutation; an error ends the batch and leaves the entry for the replay.
Execute(b) ==
    /\ pc[b] = "execute" /\ step[b] \in Mutations
    /\ \/ /\ done' = [done EXCEPT ![b] = @ \cup {step[b]}]
          /\ step' = [step EXCEPT ![b] = @ + 1]
          /\ UNCHANGED pc
       \/ pc' = [pc EXCEPT ![b] = "failed"] /\ UNCHANGED <<done, step>>
    /\ UNCHANGED <<entries, files, lease, replay, crashes, errors>>

\* remove: first the map, then the file if there was an entry.
RemoveEntry(b) ==
    /\ pc[b] = "execute" /\ step[b] \notin Mutations
    /\ pc' = [pc EXCEPT ![b] = IF b \in entries THEN "remove_file" ELSE "ok"]
    /\ entries' = entries \ {b}
    /\ UNCHANGED <<step, done, files, lease, replay, crashes, errors>>

RemoveFile(b) ==
    /\ pc[b] = "remove_file" /\ pc' = [pc EXCEPT ![b] = "ok"]
    /\ files' = files \ {b}
    /\ UNCHANGED <<step, done, entries, lease, replay, crashes, errors>>

-----------------------------------------------------------------------------
\* replay_batchlog

\* Mutant: load and store instead of compare_exchange.
LeaseIsFreeStale == TRUE

LeaseIsFree == ~lease

\* The lease, and the entries that are old enough: any of those in memory.
BeginReplay(r) ==
    /\ replay[r].pc = "idle" /\ LeaseIsFree
    /\ lease' = TRUE
    /\ \E expired \in (SUBSET entries) \ {{}} :
          replay' = [replay EXCEPT ![r] = [IdleReplay EXCEPT !.pc = "pick", !.todo = expired]]
    /\ UNCHANGED <<pc, step, done, entries, files, crashes, errors>>

\* The next entry, unless it is skipped: the rate limit is reached, or it has
\* failed and its back-off is not over.
PickEntry(r) ==
    /\ replay[r].pc = "pick"
    /\ \E b \in replay[r].todo :
         \/ /\ replay[r].count < RateLimit
            /\ replay' = [replay EXCEPT ![r] = [pc |-> "write", todo |-> @.todo \ {b}, entry |-> {b},
                                                step |-> 1, ok |-> TRUE, count |-> @.count]]
         \/ replay' = [replay EXCEPT ![r].todo = @ \ {b}]
    /\ UNCHANGED <<pc, step, done, entries, files, lease, crashes, errors>>

\* Every mutation is tried, whatever became of the one before.
ReplayMutation(r) ==
    /\ replay[r].pc = "write" /\ replay[r].step \in Mutations
    /\ \E b \in replay[r].entry, ok \in BOOLEAN :
          /\ errors' = IF ok THEN errors ELSE errors + 1
          /\ done' = IF ok THEN [done EXCEPT ![b] = @ \cup {replay[r].step}] ELSE done
          /\ replay' = [replay EXCEPT ![r] = [@ EXCEPT !.step = replay[r].step + 1,
                                                        !.ok = replay[r].ok /\ ok]]
    /\ errors' <= MaxErrors
    /\ UNCHANGED <<pc, step, entries, files, lease, crashes>>

\* Mutant: the entry goes when the last mutation was written.
AllReplayedLast(r) == \E b \in replay[r].entry : Size \in done[b]

AllReplayed(r) == replay[r].ok

\* All written: the entry is removed as in execute_batch.  Otherwise it stays,
\* and its retry count puts it back.
FinishEntry(r) ==
    /\ replay[r].pc = "write" /\ replay[r].step \notin Mutations
    /\ entries' = IF AllReplayed(r) THEN entries \ replay[r].entry ELSE entries
    /\ replay' = [replay EXCEPT ![r] =
                    [@ EXCEPT !.pc = IF AllReplayed(r) /\ replay[r].entry \subseteq entries
                                       THEN "remove_file" ELSE "pick",
                              !.count = replay[r].count + 1]]
    /\ UNCHANGED <<pc, step, done, files, lease, crashes, errors>>

ReplayRemoveFile(r) ==
    /\ replay[r].pc = "remove_file"
    /\ files' = files \ replay[r].entry
    /\ replay' = [replay EXCEPT ![r].pc = "pick"]
    /\ UNCHANGED <<pc, step, done, entries, lease, crashes, errors>>

\* Mutant: the lease is not released.
EndReplayLeased(r) ==
    /\ replay[r].pc = "pick" /\ replay[r].todo = {}
    /\ replay' = [replay EXCEPT ![r] = IdleReplay]
    /\ UNCHANGED <<pc, step, done, entries, files, lease, crashes, errors>>

EndReplay(r) ==
    /\ replay[r].pc = "pick" /\ replay[r].todo = {}
    /\ lease' = FALSE
    /\ replay' = [replay EXCEPT ![r] = IdleReplay]
    /\ UNCHANGED <<pc, step, done, entries, files, crashes, errors>>

\* The process dies and with_persistence_dir loads the entry files.  A batch
\* that was running is over; its client gets no answer.
Restart ==
    /\ crashes < MaxCrashes /\ crashes' = crashes + 1
    /\ entries' = files /\ lease' = FALSE
    /\ replay' = [r \in Replayer |-> IdleReplay]
    /\ pc' = [b \in Batch |-> IF pc[b] \in {"new", "ok", "failed"} THEN pc[b] ELSE "lost"]
    /\ UNCHANGED <<step, done, files, errors>>

ExecuteBatch(b) ==
    StoreFile(b) \/ StoreEntry(b) \/ Execute(b) \/ RemoveEntry(b) \/ RemoveFile(b)

ReplayBatchlog(r) ==
    \/ BeginReplay(r) \/ PickEntry(r) \/ ReplayMutation(r)
    \/ FinishEntry(r) \/ ReplayRemoveFile(r) \/ EndReplay(r)

BatchlogNext ==
    \/ \E b \in Batch : ExecuteBatch(b)
    \/ \E r \in Replayer : ReplayBatchlog(r)
    \/ Restart

BatchlogSpec == BatchlogInit /\ [][BatchlogNext]_batches

\* Some batch goes on, and the replay that has the lease.  The background task
\* replays again and again, by then all the entries are old enough, a back-off ends,
\* and only so many writes fail.
BatchlogFairness ==
    /\ WF_batches(\E b \in Batch : ExecuteBatch(b))
    /\ WF_batches(\E r \in Replayer : ReplayBatchlog(r))
    /\ LET r == Background IN
         /\ SF_batches(BeginReplay(r) /\ replay'[r].todo = entries)
         /\ SF_batches(PickEntry(r) /\ replay'[r].pc = "write")

-----------------------------------------------------------------------------
\* The log and its replays keep their types; a replay stays within its rate limit,
\* and no two run at once (replay_in_progress).
BatchlogTypeOK ==
    /\ pc \in [Batch -> {"new", "stored", "execute", "remove_file", "ok", "failed", "lost"}]
    /\ step \in [Batch -> 1 .. Size + 1]
    /\ done \in [Batch -> SUBSET Mutations]
    /\ entries \subseteq Batch /\ files \subseteq Batch
    /\ lease \in BOOLEAN /\ crashes \in 0 .. MaxCrashes /\ errors \in 0 .. MaxErrors
    /\ \A r \in Replayer :
         /\ replay[r].pc \in {"idle", "pick", "write", "remove_file"}
         /\ replay[r].todo \subseteq Batch /\ replay[r].entry \subseteq Batch
         /\ replay[r].step \in 1 .. Size + 1 /\ replay[r].ok \in BOOLEAN
         /\ replay[r].count \in 0 .. RateLimit
    /\ Cardinality({r \in Replayer : replay[r].pc # "idle"}) <= 1

\* A logged batch is never left half done: from its first step on its entry is in
\* memory or in the file that a restart loads, or all its mutations are written,
\* whichever of execute_batch and the replays removes it (store, remove,
\* with_persistence_dir).
AllOrLogged ==
    \A b \in Batch : pc[b] # "new" /\ b \notin entries \cup files => done[b] = Mutations

\* A batch that has begun to be written is completed, after an error, a crash and
\* any number of failed replays.
EventuallyComplete == \A b \in Batch : done[b] # {} ~> done[b] = Mutations
=============================================================================
