-------------------------------- MODULE Hints --------------------------------
(***************************************************************************)
(* Hinted handoff for one target endpoint: HintStore and                   *)
(* HintedHandoffManager (hints.rs), the segment files behind the store     *)
(* (hint_segment.rs) and HintDeliveryService (hint_delivery.rs).           *)
(*                                                                         *)
(* Threads that store hints, deliver them and administer the store run     *)
(* concurrently.  A step is what happens under one lock, or between two    *)
(* awaits.  Hints are numbered in the order in which they enter the queue. *)
(***************************************************************************)
EXTENDS Integers, Sequences, Functions

CONSTANTS
    Writer,          \* threads in store_hint
    Deliverer,       \* subset of {"periodic", "recovered"}
    MaxHints,        \* bound: hints ever stored
    MaxPerEndpoint,  \* max_hints_per_endpoint
    MaxTotal,        \* max_total_hints
    Width,           \* total_hints counts modulo this, 2^64 in the code
    Scenarios        \* what may happen together, a set of records

OpNames == {"topology", "truncate", "remove", "expire", "shutdown", "crash", "io_error"}

\* The threads that take part, how many hints they store, whether a segment
\* manager is configured, and the disturbances.
Scenario ==
    [writers : SUBSET Writer, deliverers : SUBSET Deliverer, hints : 1 .. MaxHints,
     persist : BOOLEAN, ops : SUBSET OpNames]

ASSUME BoundAssumption ==
    /\ {MaxHints, MaxPerEndpoint, MaxTotal, Width} \subseteq Nat \ {0}
    /\ MaxHints < Width /\ Scenarios \subseteq Scenario

VARIABLES
    queue,        \* hints[target]
    total_hints,
    next,         \* the number of the next hint
    paused, shutdown,
    owned,        \* hints whose partition the target owns
    expired,      \* hints older than max_hint_window
    writer,       \* [Writer -> where the thread is, and its hint]
    deliverer,    \* [Deliverer -> where the service is, and its batch]
    topology,     \* where on_topology_change is, and the hints it dropped
    admin,        \* whether a truncate or delete still has files to remove
    buffer,       \* entries appended by the active segment writer
    files,        \* the closed segments, oldest first
    delivered, dropped,
    lost,         \* hints that were in the memory of a process that died
    scenario

memory == <<queue, total_hints>>
disk == <<buffer, files>>
control == <<writer, deliverer, topology, admin>>
status == <<paused, shutdown, owned, expired>>
history == <<delivered, dropped>>
environment == <<lost, scenario>>

vars == <<memory, disk, control, status, history, next, environment>>

IdleWriter == [pc |-> "idle", hint |-> 0]
IdleDeliverer == [pc |-> "idle", batch |-> <<>>, requeue |-> <<>>]

Init ==
    /\ scenario \in Scenarios /\ lost = {}
    /\ queue = <<>> /\ total_hints = 0 /\ next = 1
    /\ paused = FALSE /\ shutdown = FALSE
    /\ owned = 1 .. scenario.hints /\ expired = {}
    /\ writer = [w \in Writer |-> IdleWriter]
    /\ deliverer = [d \in Deliverer |-> IdleDeliverer]
    /\ topology = [pc |-> "idle", dropped |-> 0]
    /\ admin = "idle"
    /\ buffer = <<>> /\ files = <<>>
    /\ delivered = {} /\ dropped = {}

\* The sequences of a sequence, one after the other.
Flatten(seqs) ==
    LET upto[n \in 0 .. Len(seqs)] == IF n = 0 THEN <<>> ELSE upto[n - 1] \o seqs[n]
    IN  upto[Len(seqs)]

Hold(ids, S) == Flatten([i \in DOMAIN ids |-> IF ids[i] \in S THEN <<ids[i]>> ELSE <<>>])

Without(ids, S) == Hold(ids, Range(ids) \ S)

\* fetch_add and fetch_sub wrap around.
Total(change) == total_hints' = (total_hints + change) % Width

-----------------------------------------------------------------------------
\* store_hint: the capacity is read before the lock is taken.
StoreCheck(w) ==
    /\ writer[w].pc = "idle" /\ total_hints < MaxTotal
    /\ writer' = [writer EXCEPT ![w].pc = "insert"]
    /\ UNCHANGED <<memory, disk, deliverer, topology, admin, status, history, next, environment>>

\* Under the lock; a full queue loses its oldest hint.
StoreInsert(w) ==
    /\ writer[w].pc = "insert" /\ next <= scenario.hints
    /\ next' = next + 1
    /\ IF Len(queue) >= MaxPerEndpoint
         THEN /\ queue' = Append(Tail(queue), next)
              /\ dropped' = dropped \cup {Head(queue)}
              /\ UNCHANGED total_hints
         ELSE /\ queue' = Append(queue, next) /\ Total(1)
              /\ UNCHANGED dropped
    /\ writer' = [writer EXCEPT ![w] =
                    IF scenario.persist THEN [pc |-> "persist", hint |-> next] ELSE IdleWriter]
    /\ UNCHANGED <<disk, deliverer, topology, admin, status, delivered, environment>>

\* Append to the active segment, or to a new one when it is full.  An I/O error
\* leaves the hint in memory only.
StorePersist(w) ==
    /\ writer[w].pc = "persist"
    /\ \/ buffer' = Append(buffer, writer[w].hint) /\ UNCHANGED files
       \/ /\ buffer # <<>> /\ buffer' = <<writer[w].hint>>
          /\ files' = Append(files, [hints |-> buffer, torn |-> FALSE])
       \/ "io_error" \in scenario.ops /\ UNCHANGED disk
    /\ writer' = [writer EXCEPT ![w] = IdleWriter]
    /\ UNCHANGED <<memory, deliverer, topology, admin, status, history, next, environment>>

-----------------------------------------------------------------------------
\* deliver_hints and deliver_hints_for_recovered_node

\* The periodic pass only sees targets with hints in memory.
DrainCheck(d) ==
    /\ deliverer[d].pc = "idle" /\ ~paused
    /\ d = "periodic" => queue # <<>> /\ ~shutdown
    /\ d = "recovered" => queue # <<>> \/ buffer # <<>> \/ files # <<>>
    /\ deliverer' = [deliverer EXCEPT ![d].pc = "drain"]
    /\ UNCHANGED <<memory, disk, writer, topology, admin, status, history, next, environment>>

\* read_all fails on a torn segment, and the segment is deleted all the same.
SegmentHints ==
    Flatten([i \in DOMAIN files |-> IF files[i].torn THEN <<>> ELSE files[i].hints]) \o buffer

\* Expired hints are dropped by the drain and by deliver_hint_batch, which follows
\* it at once; on_node_recovered discards what the target does not own any more.
Wanted(d) == (1 .. MaxHints) \ (expired \cup IF d = "recovered" THEN (1 .. MaxHints) \ owned ELSE {})

Start(d, hints) ==
    /\ deliverer' = [deliverer EXCEPT ![d] =
                       IF Hold(hints, Wanted(d)) = <<>> THEN IdleDeliverer
                       ELSE [pc |-> "send", batch |-> Hold(hints, Wanted(d)),
                             requeue |-> <<>>]]
    /\ dropped' = dropped \cup (Range(hints) \ Wanted(d))

\* drain_hints with hints in memory.
DrainQueue(d) ==
    /\ deliverer[d].pc = "drain" /\ queue # <<>>
    /\ queue' = <<>> /\ Total(-Len(queue))
    /\ Start(d, queue)
    /\ UNCHANGED <<disk, writer, topology, admin, status, delivered, next, environment>>

\* drain_from_segments: the files are deleted as they are read.
DrainSegments(d) ==
    /\ deliverer[d].pc = "drain" /\ queue = <<>>
    /\ buffer' = <<>> /\ files' = <<>>
    /\ Start(d, SegmentHints)
    /\ UNCHANGED <<memory, writer, topology, admin, status, delivered, next, environment>>

\* Mutant: the loop ends and only the hint in hand is put back.
StopDeliveryShort(d) ==
    /\ deliverer[d].pc = "send" /\ deliverer[d].batch # <<>> /\ (paused \/ shutdown)
    /\ deliverer' = [deliverer EXCEPT ![d].batch = <<>>,
                       ![d].requeue = Append(@, Head(deliverer[d].batch))]
    /\ UNCHANGED <<memory, disk, writer, topology, admin, status, history, next, environment>>

\* A pause or a shutdown ends the batch; what is left goes back.
StopDelivery(d) ==
    /\ deliverer[d].pc = "send" /\ deliverer[d].batch # <<>> /\ (paused \/ shutdown)
    /\ deliverer' = [deliverer EXCEPT ![d] =
                       [pc |-> "send", batch |-> <<>>, requeue |-> @.requeue \o @.batch]]
    /\ UNCHANGED <<memory, disk, writer, topology, admin, status, history, next, environment>>

\* Mutant: a hint that could not be delivered is counted as failed and no more.
SendHintOnce(d) ==
    /\ deliverer[d].pc = "send" /\ deliverer[d].batch # <<>> /\ ~paused /\ ~shutdown
    /\ \E ok \in BOOLEAN :
          /\ deliverer' = [deliverer EXCEPT ![d].batch = Tail(@)]
          /\ delivered' = IF ok THEN delivered \cup {Head(deliverer[d].batch)} ELSE delivered
    /\ UNCHANGED <<memory, disk, writer, topology, admin, status, dropped, next, environment>>

\* One hint, with its retries: answered, or put back.  The answer may be lost
\* after the target has applied the hint.
SendHint(d) ==
    /\ deliverer[d].pc = "send" /\ deliverer[d].batch # <<>> /\ ~paused /\ ~shutdown
    /\ LET hint == Head(deliverer[d].batch) IN
         \/ /\ deliverer' = [deliverer EXCEPT ![d].batch = Tail(@)]
            /\ delivered' = delivered \cup {hint}
         \/ /\ deliverer' = [deliverer EXCEPT ![d] =
                                [pc |-> "send", batch |-> Tail(@.batch), requeue |-> Append(@.requeue, hint)]]
            /\ delivered' \in {delivered, delivered \cup {hint}}
    /\ UNCHANGED <<memory, disk, writer, topology, admin, status, dropped, next, environment>>

\* Mutant: put back behind the hints that arrived meanwhile.
RequeueBehind(old, new) == new \o old

\* The pushes to the front stop at the limit: the oldest are the ones left out.
RequeueBefore(old, new) == old \o new

\* Mutant: the limit is left to store_hint.
RequeueAll(d) ==
    /\ deliverer[d].pc = "send" /\ deliverer[d].batch = <<>>
    /\ queue' = deliverer[d].requeue \o queue
    /\ Total(Len(deliverer[d].requeue))
    /\ deliverer' = [deliverer EXCEPT ![d] = IdleDeliverer]
    /\ UNCHANGED <<disk, writer, topology, admin, status, history, next, environment>>

\* requeue_hints
Requeue(d) ==
    /\ deliverer[d].pc = "send" /\ deliverer[d].batch = <<>>
    /\ LET old == deliverer[d].requeue
           room == IF Len(queue) >= MaxPerEndpoint THEN 0 ELSE MaxPerEndpoint - Len(queue)
           kept == SubSeq(old, IF Len(old) > room THEN Len(old) - room + 1 ELSE 1, Len(old))
       IN  /\ queue' = RequeueBefore(kept, queue)
           /\ Total(Len(kept))
           /\ dropped' = dropped \cup (Range(old) \ Range(kept))
    /\ deliverer' = [deliverer EXCEPT ![d] = IdleDeliverer]
    /\ UNCHANGED <<disk, writer, topology, admin, status, delivered, next, environment>>

-----------------------------------------------------------------------------
\* on_topology_change: pause, filter the queue, subtract and resume.
TopologyPause ==
    /\ "topology" \in scenario.ops /\ topology.pc = "idle"
    /\ \E h \in owned : owned' = owned \ {h}
    /\ paused' = TRUE
    /\ topology' = [topology EXCEPT !.pc = "filter"]
    /\ UNCHANGED <<memory, disk, writer, deliverer, admin, shutdown, expired, history, next, environment>>

TopologyFilter ==
    /\ topology.pc = "filter"
    /\ queue' = Hold(queue, owned)
    /\ topology' = [pc |-> "subtract", dropped |-> Len(queue) - Len(queue')]
    /\ dropped' = dropped \cup (Range(queue) \ owned)
    /\ UNCHANGED <<total_hints, disk, writer, deliverer, admin, status, delivered, next, environment>>

TopologyResume ==
    /\ topology.pc = "subtract"
    /\ Total(-topology.dropped)
    /\ paused' = FALSE
    /\ topology' = [pc |-> "idle", dropped |-> 0]
    /\ UNCHANGED <<queue, disk, writer, deliverer, admin, shutdown, owned, expired, history, next, environment>>

\* truncate_all_hints and delete_hints_for: the memory first, then the files.
Truncate ==
    /\ "truncate" \in scenario.ops /\ admin = "idle" /\ queue # <<>>
    /\ queue' = <<>> /\ total_hints' = 0
    /\ dropped' = dropped \cup Range(queue)
    /\ admin' = "files"
    /\ UNCHANGED <<disk, writer, deliverer, topology, status, delivered, next, environment>>

DeleteHintsFor ==
    /\ "remove" \in scenario.ops /\ admin = "idle" /\ queue # <<>>
    /\ queue' = <<>> /\ Total(-Len(queue))
    /\ dropped' = dropped \cup Range(queue)
    /\ admin' = "files"
    /\ UNCHANGED <<disk, writer, deliverer, topology, status, delivered, next, environment>>

DeleteFiles ==
    /\ admin = "files" /\ admin' = "idle"
    /\ buffer' = <<>> /\ files' = <<>>
    /\ UNCHANGED <<memory, writer, deliverer, topology, status, history, next, environment>>

\* Time passes: the oldest hint that is still fresh leaves the window.
Expire ==
    /\ "expire" \in scenario.ops
    /\ \E h \in 1 .. next - 1 : expired' = expired \cup 1 .. h /\ expired' # expired
    /\ UNCHANGED <<memory, disk, control, paused, shutdown, owned, history, next, environment>>

\* Mutant: the purge forgets the counter.
PurgeUncounted ==
    /\ Range(queue) \cap expired # {}
    /\ queue' = Without(queue, expired)
    /\ dropped' = dropped \cup (Range(queue) \cap expired)
    /\ UNCHANGED <<total_hints, disk, control, status, delivered, next, environment>>

\* purge_expired
PurgeExpired ==
    /\ Range(queue) \cap expired # {}
    /\ queue' = Without(queue, expired)
    /\ Total(Len(queue') - Len(queue))
    /\ dropped' = dropped \cup (Range(queue) \cap expired)
    /\ UNCHANGED <<disk, control, status, delivered, next, environment>>

Shutdown ==
    /\ "shutdown" \in scenario.ops /\ ~shutdown /\ shutdown' = TRUE
    /\ UNCHANGED <<memory, disk, control, paused, owned, expired, history, next, environment>>

\* The hints in a delivery's hands.
InFlight == UNION {Range(deliverer[d].batch) \cup Range(deliverer[d].requeue) : d \in Deliverer}

\* The process dies: the memory is gone, and of the buffered entries some may
\* have reached the file, the last one perhaps in part.  A hint whose store_hint has
\* not returned was promised to nobody.
Crash ==
    /\ "crash" \in scenario.ops
    /\ queue' = <<>> /\ total_hints' = 0 /\ paused' = FALSE /\ shutdown' = FALSE
    /\ writer' = [w \in Writer |-> IdleWriter]
    /\ deliverer' = [d \in Deliverer |-> IdleDeliverer]
    /\ topology' = [pc |-> "idle", dropped |-> 0] /\ admin' = "idle"
    /\ dropped' = dropped \cup ({writer[w].hint : w \in Writer} \ {0})
    /\ buffer' = <<>>
    /\ \E n \in 0 .. Len(buffer), torn \in BOOLEAN :
          /\ torn => n < Len(buffer)
          /\ files' = IF n = 0 /\ ~torn THEN files
                      ELSE Append(files, [hints |-> SubSeq(buffer, 1, n), torn |-> torn])
    /\ lost' = lost \cup Range(queue) \cup InFlight
    /\ UNCHANGED <<owned, expired, delivered, next, scenario>>

Store(w) == StoreCheck(w) \/ StoreInsert(w) \/ StorePersist(w)

Deliver(d) ==
    \/ DrainCheck(d) \/ DrainQueue(d) \/ DrainSegments(d)
    \/ StopDelivery(d) \/ SendHint(d) \/ Requeue(d)

Next ==
    \/ \E w \in scenario.writers : Store(w)
    \/ \E d \in scenario.deliverers : Deliver(d)
    \/ TopologyPause \/ TopologyFilter \/ TopologyResume
    \/ Truncate \/ DeleteHintsFor \/ DeleteFiles
    \/ Expire \/ PurgeExpired \/ Shutdown \/ Crash

Spec == Init /\ [][Next]_vars

\* The service's timer ticks, a topology change runs to its end, and the target
\* does answer in the end when hints are sent to it again and again.
Fairness ==
    /\ WF_vars(TopologyFilter \/ TopologyResume)
    /\ \A d \in Deliverer :
         /\ WF_vars(DrainCheck(d) \/ DrainQueue(d) \/ DrainSegments(d))
         /\ WF_vars(Deliver(d) /\ deliverer[d].pc = "send")
         /\ SF_vars(SendHint(d) /\ deliverer'[d].requeue = deliverer[d].requeue)

-----------------------------------------------------------------------------
Hint == 1 .. MaxHints

\* The store, its segments and the threads at work keep their types.
TypeOK ==
    /\ queue \in Seq(Hint) /\ total_hints \in 0 .. Width - 1 /\ next \in 1 .. MaxHints + 1
    /\ {paused, shutdown} \subseteq BOOLEAN
    /\ {owned, expired, delivered, dropped, lost} \subseteq SUBSET Hint /\ scenario \in Scenarios
    /\ writer \in [Writer -> [pc : {"idle", "insert", "persist"}, hint : 0 .. MaxHints]]
    /\ \A d \in Deliverer :
          /\ deliverer[d].pc \in {"idle", "drain", "send"}
          /\ {deliverer[d].batch, deliverer[d].requeue} \subseteq Seq(Hint)
    /\ topology \in [pc : {"idle", "filter", "subtract"}, dropped : 0 .. MaxPerEndpoint]
    /\ admin \in {"idle", "files"}
    /\ buffer \in Seq(Hint)
    /\ \A i \in DOMAIN files : files[i].hints \in Seq(Hint) /\ files[i].torn \in BOOLEAN

OnDisk == Range(SegmentHints)

Stored == 1 .. next - 1

\* While the process lives, a hint is in the queue or in a delivery's hands until
\* it is delivered or dropped for one of the reasons the code has: the limit, the
\* window, lost ownership or an operator (deliver_hint_batch, requeue_hints).
NothingLost == Stored \subseteq Range(queue) \cup InFlight \cup delivered \cup dropped \cup lost

\* A hint store that is configured with a directory keeps its hints over a crash.
SurvivesCrash ==
    Stored \subseteq Range(queue) \cup InFlight \cup delivered \cup dropped \cup OnDisk

\* Older writes are ahead of later ones.
InOrder == \A i, j \in DOMAIN queue : i < j => queue[i] < queue[j]

\* With one delivery at a time, older writes do not fall behind later ones, failed
\* deliveries included (requeue_hints).
OldestFirst == scenario.deliverers = {"periodic"} => InOrder

\* total_hints is the number of hints in the queue, except within a topology
\* change that has filtered and not yet subtracted.
TotalIsCount == topology.pc # "subtract" => total_hints = Len(queue)

\* No interleaving of stores and requeues makes the queue longer than
\* max_hints_per_endpoint.
QueueIsBounded == Len(queue) <= MaxPerEndpoint

\* A delivery that was paused or that failed is taken up again: every hint is in
\* the end delivered or dropped (spawn_periodic_delivery).
EveryHintIsSettled == \A h \in Hint : h \in Stored ~> h \in delivered \cup dropped
=============================================================================
