------------------------------ MODULE WritePath ------------------------------
(***************************************************************************)
(* One write at its coordinator: the plan of WriteCoordinator (write.rs),  *)
(* the two ways StorageProxy carries it out (storage_proxy.rs), mutate     *)
(* and mutate_async, and the WriteResponseHandler that mutate_async's      *)
(* tasks share with the waiting caller (write_response_handler.rs).        *)
(*                                                                         *)
(* A task of mutate_async and the caller run on different threads.  What   *)
(* is one step here is one atomic operation, or one critical section, of   *)
(* the handler and the code up to the next one.                            *)
(***************************************************************************)
EXTENDS Naturals, FiniteSets, FiniteSetsExt

CONSTANTS
    Replica,       \* the natural replicas of the partition
    DcOf,          \* [Replica -> datacenter]
    LocalDc,       \* the coordinator's datacenter
    Local,         \* the coordinator's own endpoint, a replica or not
    Requests,      \* the requests tried: pairs of a path and a consistency level
    HintsAlwaysFit \* FALSE: store_hint may refuse a hint

ASSUME ReplicaAssumption == IsFiniteSet(Replica) /\ Replica # {}
ASSUME RequestAssumption == \A q \in Requests : q[1] \in {"mutate", "mutate_async"}

VARIABLES
    cl, live, path,  \* the request: its level, the live replicas, the path taken
    pc,              \* where the caller is
    result,          \* what the caller returns
    task,            \* [Replica -> state of the replica's send task]
    count,           \* [Replica -> new_count of the replica's on_response]
    acks_received,
    failures,        \* replicas with an entry in the failure map
    hints_stored,    \* the handler's counter
    woken,           \* the caller's Notified has been signalled
    expired,         \* the write timeout has elapsed
    written,         \* replicas that applied the mutation and acknowledged it
    hinted           \* replicas whose hint is in the HintStore

request == <<cl, live, path>>

handler == <<acks_received, failures, hints_stored>>

vars == <<request, pc, result, task, count, handler, woken, expired, written, hinted>>

-----------------------------------------------------------------------------
\* ConsistencyLevel::block_for

BlockFor(level, rf) ==
    CASE level \in {"One", "LocalOne", "Any"} -> 1
      [] level = "Two" -> Min({2, rf})
      [] level = "Three" -> Min({3, rf})
      [] level \in {"Quorum", "LocalQuorum", "EachQuorum"} -> rf \div 2 + 1
      [] level = "All" -> rf

InDc(dc, replicas) == {r \in replicas : DcOf[r] = dc}

DcQuorum(dc) == Cardinality(InDc(dc, Replica)) \div 2 + 1

\* compute_dc_aware_write_plan serves the datacenter levels of mutate_async,
\* compute_write_plan everything else.
DcAware == path = "mutate_async" /\ cl \in {"LocalQuorum", "LocalOne", "EachQuorum"}

LocalOnly == DcAware /\ cl # "EachQuorum"

\* The replicas of the plan, and those of them that are live.
PlanReplicas == IF LocalOnly THEN InDc(LocalDc, Replica) ELSE Replica

PlanLive == PlanReplicas \cap live

Datacenters == {DcOf[r] : r \in Replica}

SumQuorums == MapThenSumSet(DcQuorum, Datacenters)

\* Mutant: integer division without the one.
RequiredHalf ==
    IF DcAware /\ cl = "EachQuorum" THEN SumQuorums
    ELSE Cardinality(PlanReplicas) \div 2

\* plan.block_for
Required ==
    IF DcAware /\ cl = "EachQuorum" THEN SumQuorums
    ELSE BlockFor(cl, Cardinality(PlanReplicas))

Available ==
    IF DcAware /\ cl = "EachQuorum"
      THEN \A dc \in Datacenters : Cardinality(InDc(dc, live)) >= DcQuorum(dc)
      ELSE cl = "Any" \/ Cardinality(PlanLive) >= Required

-----------------------------------------------------------------------------
\* The request: any level, any set of live replicas.
Init ==
    /\ \E q \in Requests : path = q[1] /\ cl = q[2]
    /\ live \in SUBSET Replica
    /\ pc = "plan" /\ result = "none"
    /\ task = [r \in Replica |-> "none"]
    /\ count = [r \in Replica |-> 0]
    /\ acks_received = 0 /\ failures = {} /\ hints_stored = 0
    /\ woken = FALSE /\ expired = FALSE
    /\ written = {} /\ hinted = {}

Return(r) ==
    /\ pc' = "done" /\ result' = r
    /\ UNCHANGED <<request, task, count, handler, woken, expired, written, hinted>>

\* HintStore::store_hint: the set of hints afterwards.
StoreHints(targets) ==
    IF HintsAlwaysFit THEN {hinted \cup targets}
    ELSE {hinted \cup stored : stored \in SUBSET targets}

Unavailable == pc = "plan" /\ ~Available /\ Return("Unavailable")

\* prepare_async_write and prepare_async_write_from_plan: a hint is counted for
\* every dead replica, whatever store_hint answers.
PrepareAsync ==
    /\ pc = "plan" /\ Available /\ path = "mutate_async"
    /\ pc' = "send"
    /\ LET dead == PlanReplicas \ live IN
          /\ hinted' \in StoreHints(dead)
          /\ hints_stored' = Cardinality(dead)
    /\ UNCHANGED <<request, result, task, count, acks_received, failures, woken, expired, written>>

PrepareSync ==
    /\ pc = "plan" /\ Available /\ path = "mutate"
    /\ pc' = "send"
    /\ UNCHANGED <<request, result, task, count, handler, woken, expired, written, hinted>>

-----------------------------------------------------------------------------
\* mutate: one replica after the other, each answer awaited.

Unsent == {r \in PlanLive : task[r] = "none"}

SendSync(r) ==
    /\ pc = "send" /\ path = "mutate" /\ r \in Unsent
    /\ \E ok \in BOOLEAN :
          /\ task' = [task EXCEPT ![r] = IF ok THEN "done" ELSE "failed"]
          /\ written' = IF ok THEN written \cup {r} ELSE written
    /\ UNCHANGED <<request, pc, result, count, handler, woken, expired, hinted>>

\* Hints for the dead and the failed replicas, then complete_write_plan.
CompleteWritePlan ==
    /\ pc = "send" /\ path = "mutate" /\ Unsent = {}
    /\ hinted' \in StoreHints({r \in Replica : r \notin live \/ task[r] = "failed"})
    /\ LET successes == Cardinality({r \in Replica : task[r] = "done"})
           satisfied == IF cl = "Any" THEN successes + Cardinality(hinted') > 0
                        ELSE successes >= Required
       IN  result' = IF satisfied THEN "Ok" ELSE "Timeout"
    /\ pc' = "done"
    /\ UNCHANGED <<request, task, count, handler, woken, expired, written>>

-----------------------------------------------------------------------------
\* WriteResponseHandler

\* is_cl_met
ClMet ==
    IF cl = "Any" THEN acks_received + hints_stored > 0 ELSE acks_received >= Required

Total == Cardinality(PlanLive)

\* Mutant: an answer that is still to come is not counted on.
ImpossibleNow == acks_received < Required

\* is_cl_impossible
ClImpossible ==
    LET answered == acks_received + Cardinality(failures)
        remaining == IF answered >= Total THEN 0 ELSE Total - answered
    IN  acks_received + remaining < Required

\* notify_waiters: only a Notified that exists is signalled.
Notify == woken' = (woken \/ pc = "waiting")

\* The first half of on_response, acks_received.fetch_add.
OnResponse(r) ==
    /\ acks_received' = acks_received + 1
    /\ count' = [count EXCEPT ![r] = acks_received + 1]
    /\ task' = [task EXCEPT ![r] = "counted"]
    /\ written' = written \cup {r}
    /\ UNCHANGED <<failures, hints_stored>>

\* The first half of on_failure, the entry in the failure map.
OnFailure(r) ==
    /\ failures' = failures \cup {r}
    /\ task' = [task EXCEPT ![r] = "failed"]
    /\ UNCHANGED <<count, acks_received, hints_stored, written>>

\* The other half of on_response.
NotifyAck(r) ==
    /\ task[r] = "counted"
    /\ task' = [task EXCEPT ![r] = "done"]
    /\ IF count[r] >= Required THEN Notify ELSE UNCHANGED woken
    /\ UNCHANGED <<request, pc, result, count, handler, expired, written, hinted>>

\* The other half of on_failure; the local replica without a handler stores no
\* hint.
NotifyFailure(r) ==
    /\ task[r] = "failed" /\ path = "mutate_async"
    /\ \/ task' = [task EXCEPT ![r] = "hint"]
       \/ r = Local /\ task' = [task EXCEPT ![r] = "done"]
    /\ IF ClImpossible THEN Notify ELSE UNCHANGED woken
    /\ UNCHANGED <<request, pc, result, count, handler, expired, written, hinted>>

\* Mutant: the failure is recorded and the hint forgotten.
HintFailedNot(r) ==
    /\ task[r] = "hint"
    /\ task' = [task EXCEPT ![r] = "done"]
    /\ UNCHANGED <<request, pc, result, count, handler, woken, expired, written, hinted>>

\* store_hint, and on_hint_stored when it succeeds.
HintFailed(r) ==
    /\ task[r] = "hint"
    /\ task' = [task EXCEPT ![r] = "done"]
    /\ hinted' \in StoreHints({r})
    /\ hints_stored' = IF r \in hinted' THEN hints_stored + 1 ELSE hints_stored
    /\ UNCHANGED <<request, pc, result, count, acks_received, failures, woken, expired, written>>

-----------------------------------------------------------------------------
\* mutate_async

\* The local replica is served inline: the caller goes on when its task is done.
LocalBusy == Local \in Replica /\ task[Local] \notin {"none", "done"}

SendRemote(r) ==
    /\ pc = "send" /\ path = "mutate_async" /\ ~LocalBusy /\ r \in Unsent \ {Local}
    /\ task' = [task EXCEPT ![r] = "sent"]
    /\ UNCHANGED <<request, pc, result, count, handler, woken, expired, written, hinted>>

DispatchLocal(r) ==
    /\ pc = "send" /\ path = "mutate_async" /\ r \in Unsent \cap {Local}
    /\ OnResponse(r) \/ OnFailure(r)
    /\ UNCHANGED <<request, pc, result, woken, expired, hinted>>

\* send_and_wait returned: a good answer, a bad one, or none in time.
Answer(r) ==
    /\ task[r] = "sent"
    /\ OnResponse(r) \/ OnFailure(r)
    /\ UNCHANGED <<request, pc, result, woken, expired, hinted>>

AwaitCompletion ==
    /\ pc = "send" /\ path = "mutate_async" /\ Unsent = {} /\ ~LocalBusy
    /\ \/ expired /\ Return("Timeout")
       \/ ~expired /\ ClMet /\ Return("Ok")
       \/ /\ ~expired /\ ~ClMet /\ pc' = "check"
          /\ UNCHANGED <<request, result, task, count, handler, woken, expired, written, hinted>>

Goto(label) ==
    /\ pc' = label
    /\ UNCHANGED <<request, result, task, count, handler, expired, written, hinted>>

\* One turn of the loop: the test, and then the creation of the Notified.
Check ==
    /\ pc = "check" /\ UNCHANGED woken
    /\ Goto(IF ClMet \/ ClImpossible THEN "conclude" ELSE "register")

Register == pc = "register" /\ woken' = FALSE /\ Goto("waiting")

Wake == pc = "waiting" /\ woken /\ UNCHANGED woken /\ Goto("check")

Conclude == pc = "conclude" /\ Return(IF ClMet THEN "Ok" ELSE "Failure")

\* Mutant: the wait is taken up again when the timer fires.
TimedOutAgain == pc = "waiting" /\ ~woken /\ expired /\ UNCHANGED woken /\ Goto("register")

TimedOut == pc = "waiting" /\ ~woken /\ expired /\ Return("Timeout")

\* The write timeout, counted from the handler's creation.
Expire ==
    /\ ~expired /\ path = "mutate_async" /\ pc \notin {"plan", "done"} /\ expired' = TRUE
    /\ UNCHANGED <<request, pc, result, task, count, handler, woken, written, hinted>>

Caller ==
    \/ Unavailable \/ PrepareAsync \/ PrepareSync
    \/ \E r \in Replica : SendSync(r) \/ SendRemote(r) \/ DispatchLocal(r)
    \/ CompleteWritePlan \/ AwaitCompletion
    \/ Check \/ Register \/ Wake \/ Conclude \/ TimedOut

Task(r) == Answer(r) \/ NotifyAck(r) \/ NotifyFailure(r) \/ HintFailed(r)

Quiet == pc = "done" /\ \A r \in Replica : task[r] \in {"none", "done"} \/ path = "mutate"

Next ==
    \/ Caller
    \/ \E r \in Replica : Task(r)
    \/ Expire
    \/ Quiet /\ UNCHANGED vars

Spec == Init /\ [][Next]_vars

\* The runtime polls the caller and the tasks, and its timer fires.
Fairness ==
    /\ WF_vars(Caller) /\ WF_vars(Expire)
    /\ \A r \in Replica : WF_vars(Task(r))

-----------------------------------------------------------------------------
\* The handler's counters, the caller and the tasks of the replicas keep their types:
\* no answer is counted twice.
TypeOK ==
    /\ <<path, cl>> \in Requests /\ live \subseteq Replica
    /\ pc \in {"plan", "send", "check", "register", "waiting", "conclude", "done"}
    /\ result \in {"none", "Ok", "Timeout", "Failure", "Unavailable"}
    /\ task \in [Replica -> {"none", "sent", "counted", "failed", "hint", "done"}]
    /\ count \in [Replica -> 0 .. Cardinality(Replica)]
    /\ acks_received \in 0 .. Cardinality(Replica)
    /\ hints_stored \in 0 .. Cardinality(Replica)
    /\ {woken, expired} \subseteq BOOLEAN
    /\ {failures, written, hinted} \subseteq SUBSET Replica

AckedIn(dc) == Cardinality(InDc(dc, written))

\* What a client of this consistency level may rely on.
Promised(level) ==
    CASE level = "Any" -> written \cup hinted # {}
      [] level \in {"LocalQuorum", "LocalOne"} ->
           AckedIn(LocalDc) >= BlockFor(level, Cardinality(InDc(LocalDc, Replica)))
      [] level = "EachQuorum" -> \A dc \in Datacenters : AckedIn(dc) >= DcQuorum(dc)
      [] OTHER -> Cardinality(written) >= BlockFor(level, Cardinality(Replica))

\* A write reported as Ok has been acknowledged by the replicas its consistency
\* level names, or for ANY by a hint (consistency.rs, ConsistencyLevel).
OkIsKept == result = "Ok" => Promised(cl)

\* WriteFailure is only returned when the level can no longer be met: no answer
\* that arrives after it makes the write successful (is_cl_impossible).
FailureIsFinal == result = "Failure" => ~ClMet

\* When the caller has returned and every task has ended, each replica of the
\* plan has the mutation or a hint for it.  The local replica is the exception:
\* a node without a mutation handler records the failure only.
NobodyForgotten ==
    Quiet /\ result # "Unavailable" =>
        \A r \in PlanReplicas : r \in written \cup hinted \/ (r = Local /\ r \in failures)

\* A caller that waits although the level is met has been, or will be, woken
\* (the notifier of WriteResponseHandler).
NoLostWakeup ==
    pc = "waiting" /\ ClMet => woken \/ \E r \in Replica : task[r] = "counted"

\* await_completion returns: the timer bounds the wait.
Returns == <>(pc = "done")
=============================================================================
