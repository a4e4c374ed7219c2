------------------------------- MODULE ReadPath -------------------------------
(***************************************************************************)
(* Reads of the partition that the write of WritePath goes to: plan_read   *)
(* (read/mod.rs, read/executor.rs), fetch_rows_via_messaging               *)
(* (storage_proxy.rs), the replicas' handlers (read_handler.rs), the       *)
(* resolvers (read/resolver.rs) and the queue of read repairs              *)
(* (read/repair.rs, read_repair_handler.rs).                               *)
(*                                                                         *)
(* The partition is one row with one cell.  A step is a request and its    *)
(* answer; between two requests of a read anything may reach a replica.    *)
(* Reads begin when the write has returned: its other replicas may still   *)
(* be written.                                                             *)
(***************************************************************************)
EXTENDS WritePath, Functions, Sequences

CONSTANTS
    Reader,    \* clients, one read each
    Reads,     \* which reads follow which write, a set of records
    Kinds,     \* what the write may write: "value", "empty", "tombstone"
    Before     \* the cells the replicas may start with, a set of functions

ReadRequest ==
    [request : Requests, level : {"One", "LocalOne", "Quorum", "LocalQuorum", "All"},
     speculation : {"none", "delayed", "always"}]

NoCell == [ts |-> 0, kind |-> "none"]
OldCell == [ts |-> 1, kind |-> "value"]
Cell == {NoCell} \cup [ts : {1, 2}, kind : {"value", "empty", "tombstone"}]

ASSUME ReadAssumption ==
    /\ Reads \subseteq ReadRequest /\ Kinds \subseteq {"value", "empty", "tombstone"}
    /\ Before \subseteq [Replica -> {NoCell, OldCell}]

VARIABLES
    cells,     \* [Replica -> the cell it has]
    kind,      \* what the write writes
    read,      \* [Reader -> the read it coordinates]
    repairs,   \* AsyncReadRepairScheduler.pending
    drain,     \* drain_once under way: the repairs it took and those that failed
    staged, acknowledged   \* repairs ever queued, and those the target confirmed

store == <<cells, kind>>
scheduler == <<repairs, drain, staged, acknowledged>>

allVars == <<vars, store, read, scheduler>>

NewCell == [ts |-> 2, kind |-> kind]

\* Cell::merge_with, by Row::merge_with and apply_row.
MergeCell(mine, other) ==
    IF \/ other.ts > mine.ts
       \/ other.ts = mine.ts /\ other.kind = "tombstone" /\ mine.kind # "tombstone"
      THEN other ELSE mine

-----------------------------------------------------------------------------
\* The write, and its mutation at the replicas

ReadsFollow == \E q \in Reads : q.request = <<path, cl>>

IdleRead == [pc |-> "idle"]
IdleDrain == [pc |-> "idle", batch |-> <<>>, failed |-> <<>>]

ReadInit ==
    /\ Init
    /\ cells \in Before /\ kind \in IF ReadsFollow THEN Kinds ELSE {"value"}
    /\ read = [c \in Reader |-> IdleRead]
    /\ repairs = <<>> /\ drain = IdleDrain
    /\ staged = {} /\ acknowledged = {}

\* A replica that acknowledges has applied the mutation.
WriteStep ==
    /\ Next
    /\ cells' = [r \in Replica |->
                   IF r \in written' \ written THEN MergeCell(cells[r], NewCell) ELSE cells[r]]
    /\ UNCHANGED <<kind, read, scheduler>>

\* The mutation reaches a replica whose answer is lost, or its hint does.
ApplyUnanswered(r) ==
    /\ ReadsFollow /\ pc = "done" /\ result # "Unavailable"
    /\ r \in PlanReplicas /\ cells[r] # MergeCell(cells[r], NewCell)
    /\ cells' = [cells EXCEPT ![r] = MergeCell(@, NewCell)]
    /\ UNCHANGED <<vars, kind, read, scheduler>>

-----------------------------------------------------------------------------
\* plan_read

Scope(level) ==
    IF level \in {"LocalOne", "LocalQuorum"} THEN InDc(LocalDc, Replica) ELSE Replica

RequiredReads(level) == BlockFor(level, Cardinality(Scope(level)))

\* What the level promises depends on what was known when the read began.
Begin(q) ==
    [level |-> q.level, written |-> result = "Ok",
     behind |-> {c \in Reader : read[c].pc = "done"}]

\* compute_execution_plan: the live replicas in the order of their proximity, as far
\* as they are used.  With ALWAYS the speculative one is contacted with the others.
Plan(q, order) ==
    LET required == RequiredReads(q.level)
        spare == Len(order) > required /\ q.speculation # "none"
        always == spare /\ q.speculation = "always"
    IN  [pc |-> "data", required |-> required,
         candidates |-> IF always THEN order ELSE SubSeq(order, 1, required),
         always |-> always,
         speculative |-> IF spare /\ ~always THEN {order[Len(order)]} ELSE {},
         failed |-> {}, contacted |-> <<>>, mismatch |-> FALSE,
         digest |-> NoCell, data |-> NoCell, versions |-> <<>>,
         level |-> q.level, written |-> Begin(q).written, behind |-> Begin(q).behind]

\* What is left of a read that has returned.
Returned(begun, outcome, cell) ==
    [pc |-> "done", level |-> begun.level, written |-> begun.written, behind |-> begun.behind,
     result |-> outcome, data |-> cell]

Finish(c, outcome, cell) == read' = [read EXCEPT ![c] = Returned(@, outcome, cell)]

PlanRead(c) ==
    /\ read[c].pc = "idle" /\ pc = "done"
    /\ \E q \in {x \in Reads : x.request = <<path, cl>>} :
         \/ \E n \in {0, 1} :
            \E order \in [1 .. RequiredReads(q.level) + n -> Scope(q.level)] :
               IsInjective(order) /\ read' = [read EXCEPT ![c] = Plan(q, order)]
         \/ read' = [read EXCEPT ![c] = Returned(Begin(q), "Unavailable", NoCell)]
    /\ UNCHANGED <<vars, store, scheduler>>

-----------------------------------------------------------------------------
\* fetch_rows_via_messaging

\* What a data response holds: from_partition_data leaves the tombstones out.
Live(cell) == IF cell.kind = "tombstone" THEN NoCell ELSE cell

\* The first element of s that is not in done, or else none.
FirstNotIn(done, s) ==
    LET rest == {i \in DOMAIN s : s[i] \notin done}
    IN  {s[i] : i \in {x \in rest : \A y \in rest : x =< y}}

\* The candidate to be asked next: one after the other, in their order.
Untried(c) == FirstNotIn(read[c].failed \cup Range(read[c].contacted), read[c].candidates)

Fails(c, r) == read' = [read EXCEPT ![c].failed = @ \cup {r}]

\* The digest is taken of the partition with its tombstones.
ReadData(c, r) ==
    \/ read' = [read EXCEPT ![c].pc = "digest", ![c].contacted = <<r>>,
                            ![c].digest = cells[r], ![c].data = Live(cells[r])]
    \/ Fails(c, r)

\* The first candidate that answers gives the data; the speculative replica is
\* asked when none does.
DataRequest(c) ==
    /\ read[c].pc = "data"
    /\ \/ \E r \in Untried(c) : ReadData(c, r)
       \/ /\ Untried(c) = {}
          /\ \E r \in read[c].speculative \ read[c].failed : ReadData(c, r)
       \/ /\ Untried(c) = {} /\ read[c].speculative \subseteq read[c].failed
          /\ Finish(c, "ReadFailure", NoCell)
    /\ UNCHANGED <<vars, store, scheduler>>

Enough(c) == Len(read[c].contacted) >= read[c].required

ReadDigest(c, r) ==
    \/ read' = [read EXCEPT ![c].contacted = Append(@, r),
                            ![c].mismatch = @ \/ cells[r] # read[c].digest]
    \/ Fails(c, r)

\* The loop over the other candidates ends with enough answers, unless the
\* speculative replica is one of them; or else that replica is asked.
MoreDigests(c) == Untried(c) # {} /\ (read[c].always \/ ~Enough(c))

Spare(c) ==
    IF MoreDigests(c) \/ Enough(c) THEN {}
    ELSE read[c].speculative \ (read[c].failed \cup Range(read[c].contacted))

DigestRequest(c) ==
    /\ read[c].pc = "digest"
    /\ \/ MoreDigests(c) /\ \E r \in Untried(c) : ReadDigest(c, r)
       \/ \E r \in Spare(c) : ReadDigest(c, r)
    /\ UNCHANGED <<vars, store, scheduler>>

CompareDigests(c) ==
    /\ read[c].pc = "digest" /\ ~MoreDigests(c) /\ Spare(c) = {}
    /\ \/ ~Enough(c) /\ Finish(c, "ReadFailure", NoCell)
       \/ Enough(c) /\ ~read[c].mismatch /\ Finish(c, "Ok", read[c].data)
       \/ /\ Enough(c) /\ read[c].mismatch
          /\ read' = [read EXCEPT ![c].pc = "full",
                                  ![c].versions = [r \in {read[c].contacted[1]} |-> read[c].data]]
    /\ UNCHANGED <<vars, store, scheduler>>

\* After a mismatch the other replicas are read again, the data replica is not;
\* one failure ends the read.
FullRequest(c) ==
    /\ read[c].pc = "full" /\ DOMAIN read[c].versions # Range(read[c].contacted)
    /\ \E r \in FirstNotIn(DOMAIN read[c].versions, read[c].contacted) :
         \/ read' = [read EXCEPT ![c].versions =
                       [s \in DOMAIN @ \cup {r} |-> IF s = r THEN Live(cells[r]) ELSE @[s]]]
         \/ Finish(c, "Internal", NoCell)
    /\ UNCHANGED <<vars, store, scheduler>>

\* Mutant: the data replica's version is kept.
MergedFirst(c) == read[c].data

\* merge_partition_data: one version after the other is merged into what there is, so
\* that the first of those that no other replaces remains.
Merged(c) ==
    LET version == [i \in DOMAIN read[c].contacted |-> read[c].versions[read[c].contacted[i]]]
        newest == {i \in DOMAIN version :
                     \A j \in DOMAIN version : MergeCell(version[i], version[j]) = version[i]}
    IN  version[CHOOSE i \in newest : \A j \in newest : i =< j]

\* The elements of s at the positions in I, in their order.
Chosen(s, I) ==
    [k \in 1..Cardinality(I) |-> s[CHOOSE i \in I : Cardinality({j \in I : j =< i}) = k]]

\* resolve_replica_responses: the digest of the decoded data response is a hash of
\* another kind than the replicas' digests, so DigestResolver always reports the
\* mismatch.  The repairs of stale replicas are queued and the read returns; one
\* with no live rows has no effect and is left out.
ResolveResponses(c) ==
    /\ read[c].pc = "full" /\ DOMAIN read[c].versions = Range(read[c].contacted)
    /\ LET stale == {i \in DOMAIN read[c].contacted :
                        read[c].versions[read[c].contacted[i]] # Merged(c)}
           new == [k \in 1..Cardinality(stale) |->
                     [from |-> c, target |-> Chosen(read[c].contacted, stale)[k], cell |-> Merged(c)]]
       IN  /\ repairs' = repairs \o new
           /\ staged' = staged \cup Range(new)
    /\ Finish(c, "Ok", Merged(c))
    /\ UNCHANGED <<vars, store, drain, acknowledged>>

-----------------------------------------------------------------------------
\* AsyncReadRepairScheduler::drain_once

DrainTake ==
    /\ drain.pc = "idle" /\ repairs # <<>>
    /\ drain' = [IdleDrain EXCEPT !.pc = "send", !.batch = repairs]
    /\ repairs' = <<>>
    /\ UNCHANGED <<vars, store, read, staged, acknowledged>>

\* serialize_repair_payload and decode_staged_repair_payload: an empty value comes
\* out as a tombstone.
OnTheWire(cell) == IF cell.kind = "empty" THEN [cell EXCEPT !.kind = "tombstone"] ELSE cell

Repaired(m) == [cells EXCEPT ![m.target] = MergeCell(@, OnTheWire(m.cell))]

\* Mutant: a failed repair is counted and no more.
SendRepairOnce ==
    /\ drain.pc = "send" /\ drain.batch # <<>>
    /\ LET m == Head(drain.batch) IN
         \/ cells' = Repaired(m) /\ acknowledged' = acknowledged \cup {m}
         \/ UNCHANGED <<cells, acknowledged>>
    /\ drain' = [drain EXCEPT !.batch = Tail(@)]
    /\ UNCHANGED <<vars, kind, read, repairs, staged>>

\* One repair, acknowledged or not; an answer may be lost after it was applied.
SendRepair ==
    /\ drain.pc = "send" /\ drain.batch # <<>>
    /\ LET m == Head(drain.batch) IN
         \/ /\ cells' = Repaired(m) /\ acknowledged' = acknowledged \cup {m}
            /\ drain' = [drain EXCEPT !.batch = Tail(@)]
         \/ /\ cells' \in {cells, Repaired(m)} /\ UNCHANGED acknowledged
            /\ drain' = [drain EXCEPT !.batch = Tail(@), !.failed = Append(@, m)]
    /\ UNCHANGED <<vars, kind, read, repairs, staged>>

DrainEnd ==
    /\ drain.pc = "send" /\ drain.batch = <<>>
    /\ repairs' = repairs \o drain.failed
    /\ drain' = IdleDrain
    /\ UNCHANGED <<vars, store, read, staged, acknowledged>>

Fetch(c) ==
    \/ DataRequest(c) \/ DigestRequest(c) \/ CompareDigests(c)
    \/ FullRequest(c) \/ ResolveResponses(c)

ReadNext ==
    \/ WriteStep
    \/ \E r \in Replica : ApplyUnanswered(r)
    \/ \E c \in Reader : PlanRead(c) \/ Fetch(c)
    \/ DrainTake \/ SendRepair \/ DrainEnd

ReadSpec == ReadInit /\ [][ReadNext]_allVars

ReadFairSpec == ReadSpec /\ Fairness

-----------------------------------------------------------------------------
\* The reads, the replicas' cells and the repair queue keep their types, and a read
\* counts no replica twice.
ReadTypeOK ==
    /\ cells \in [Replica -> Cell] /\ kind \in {"value", "empty", "tombstone"}
    /\ \A c \in Reader :
         /\ read[c].pc \in {"idle", "data", "digest", "full", "done"}
         /\ read[c].pc \in {"data", "digest", "full"} =>
              /\ IsInjective(read[c].contacted) /\ read[c].failed \subseteq Replica
              /\ Range(read[c].contacted) \subseteq Scope(read[c].level) \ read[c].failed
              /\ read[c].data \in Cell /\ DOMAIN read[c].versions \subseteq Replica
    /\ drain.pc \in {"idle", "send"}
    /\ \A m \in staged \cup acknowledged : m.target \in Replica /\ m.cell \in Cell

\* Every set of replicas that satisfies the read's level has one of those that
\* satisfied the write's.
Overlap(level) ==
    Required + RequiredReads(level) > Cardinality(PlanReplicas \cup Scope(level))

\* A read at levels that overlap, begun after the write was acknowledged, returns
\* what was written, whichever replicas it finds stale, failing or late
\* (fetch_rows_via_messaging, DataResolver::resolve).
ReadsTheWrite ==
    \A c \in Reader :
      read[c].pc = "done" /\ read[c].result = "Ok" /\ read[c].written /\ Overlap(read[c].level)
        => read[c].data = Live(NewCell)

\* A staged repair is queued, in a drain's hands, or acknowledged by its target: a
\* failure does not discard it, nor does a drain that runs while reads queue more
\* (enqueue_from_handler, drain_once).
RepairsKept ==
    staged \subseteq Range(repairs) \cup Range(drain.batch) \cup Range(drain.failed) \cup acknowledged

\* Of two reads at QUORUM, one after the other, the second is not older, since the
\* Blocking strategy repairs before it returns to the client (ReadRepairStrategy).
MonotonicReads ==
    \A c, d \in {x \in Reader : read[x].pc = "done" /\ read[x].result = "Ok"} :
      c \in read[d].behind => read[d].data.ts >= read[c].data.ts
=============================================================================
