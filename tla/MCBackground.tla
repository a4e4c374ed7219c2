----------------------------- MODULE MCBackground -----------------------------
(***************************************************************************)
(* What is left undone and background work finishes: logged batches,       *)
(* hints, a consistent repair of three participants and the streams of a   *)
(* repair.  They share nothing; one of them is at work in a behaviour and  *)
(* the others are still.                                                   *)
(***************************************************************************)
EXTENDS ConsistentRepair, Batchlog, Streaming

CONSTANTS
    Writer, Deliverer, MaxHints, MaxPerEndpoint, MaxTotal, Width    \* of Hints

VARIABLES
    queue, total_hints, next, paused, shutdown, owned, expired, writer, deliverer, topology,
    admin, buffer, segments, delivered, dropped, lost, scenario

handoff ==
    <<queue, total_hints, next, paused, shutdown, owned, expired, writer, deliverer, topology,
      admin, buffer, segments, delivered, dropped, lost, scenario>>

\* Hints are stored and delivered while the ring changes, or nobody does anything.
Topology ==
    [writers |-> Writer, deliverers |-> Deliverer, hints |-> MaxHints, persist |-> FALSE,
     ops |-> {"topology"}]

Still == [writers |-> {}, deliverers |-> {}, hints |-> 1, persist |-> FALSE, ops |-> {}]

Handoff == INSTANCE Hints WITH files <- segments, Scenarios <- {Topology, Still}

\* A transfer is sent in one session, and another session is of requests only.
OneSent == [s \in Session |-> IF s = "s1" THEN {"t1"} ELSE {}]

OneRequested == [s \in Session |-> IF s = "s2" THEN {"t2"} ELSE {}]

TwoChunks == [t \in Transfer |-> IF t = "t1" THEN 2 ELSE 1]

-----------------------------------------------------------------------------
\* All batches have been executed.
BatchlogIsStill ==
    /\ pc = [b \in Batch |-> "ok"] /\ step = [b \in Batch |-> Size + 1]
    /\ done = [b \in Batch |-> Mutations]
    /\ entries = {} /\ files = {} /\ lease = FALSE
    /\ replay = [r \in Replayer |-> IdleReplay]
    /\ crashes = MaxCrashes /\ errors = 0

\* One batch is new, and the others have been left in the log by a process that died.
BatchlogBegins ==
    /\ pc = [b \in Batch |-> IF b = "b1" THEN "new" ELSE "lost"] /\ step = [b \in Batch |-> 1]
    /\ done = [b \in Batch |-> {}]
    /\ entries = Batch \ {"b1"} /\ files = Batch \ {"b1"} /\ lease = FALSE
    /\ replay = [r \in Replayer |-> IdleReplay]
    /\ crashes = 0 /\ errors = 0

\* The session was given up before anybody had heard of it.
RepairIsStill ==
    /\ state = "Failed" /\ prepare_responses = {} /\ promise_responses = {} /\ repairing = FALSE
    /\ local = [p \in Participant |-> "None"] /\ msgs = {}

\* No session could be opened.
StreamsAreStill ==
    /\ task = [s \in Session |-> [NoTask EXCEPT !.at = "done"]]
    /\ future = [s \in Session |-> "Failed"] /\ sent = {} /\ chunks = {} /\ completes = {}
    /\ buffers = [t \in Transfer |-> NoBuffer] /\ writing = {}
    /\ written = [t \in Transfer |-> {}] /\ spoiled = {}

MCInit ==
    /\ Handoff!Init
    /\ \/ scenario = Topology /\ BatchlogIsStill /\ RepairIsStill /\ StreamsAreStill
       \/ scenario = Still /\ BatchlogBegins /\ RepairIsStill /\ StreamsAreStill
       \/ scenario = Still /\ BatchlogIsStill /\ Init /\ StreamsAreStill
       \/ scenario = Still /\ BatchlogIsStill /\ RepairIsStill /\ StreamingInit

MCNext ==
    \/ BatchlogNext /\ UNCHANGED <<vars, handoff, streams>>
    \/ Handoff!Next /\ UNCHANGED <<vars, batches, streams>>
    \/ Next /\ UNCHANGED <<batches, handoff, streams>>
    \/ StreamingNext /\ UNCHANGED <<vars, batches, handoff>>

MCSpec ==
    /\ MCInit /\ [][MCNext]_<<vars, batches, handoff, streams>>
    /\ BatchlogFairness /\ Handoff!Fairness /\ StreamingFairness

\* The four keep their types.  Among other things no two replays of the batchlog run
\* at once (replay_in_progress), a replay keeps its rate limit, only participants are
\* written to in a repair, and a transfer keeps its budget of retries.
TypesOK == TypeOK /\ BatchlogTypeOK /\ Handoff!TypeOK /\ StreamingTypeOK

\* A delivery that was paused or that failed is taken up again: every hint is in
\* the end delivered or dropped (spawn_periodic_delivery).
EveryHintIsSettled == Handoff!EveryHintIsSettled
=============================================================================
