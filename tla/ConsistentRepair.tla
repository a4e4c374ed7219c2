-------------------------- MODULE ConsistentRepair --------------------------
(***************************************************************************)
(* One consistent (incremental) repair session: CoordinatorSession         *)
(* (consistent_coordinator.rs), a LocalSession at every participant        *)
(* (consistent_local.rs) and their messages (messages.rs), which may be    *)
(* delayed, reordered and lost.  The caller that carries out the           *)
(* CoordinatorAction a handler returns, and runs the repair in between, is *)
(* not part of the crate.  It does at once what the action asks for; it    *)
(* may abort a session before the commit.                                  *)
(***************************************************************************)
EXTENDS Naturals, FiniteSets

CONSTANTS
    Participant,
    LateCompletion  \* TRUE: the repair reports its end to an aborted session too

VARIABLES
    state,              \* the coordinator's ConsistentSessionState
    prepare_responses, promise_responses,
    repairing,          \* the repair itself is running
    local,              \* [Participant -> LocalSession state, "None" before it exists]
    msgs                \* messages on their way

vars == <<state, prepare_responses, promise_responses, repairing, local, msgs>>

Message ==
    [type : {"Prepare", "PrepareResponse", "Propose", "Commit", "Fail"}, endpoint : Participant]
      \cup [type : {"Promise"}, endpoint : Participant, success : BOOLEAN]

ToAll(type) == {[type |-> type, endpoint |-> p] : p \in Participant}

\* A session is created and prepare() is sent.
Init ==
    /\ state = "Preparing"
    /\ prepare_responses = {} /\ promise_responses = {} /\ repairing = FALSE
    /\ local = [p \in Participant |-> "None"]
    /\ msgs = ToAll("Prepare")

Receive(m) == m \in msgs

\* The message is consumed and the answers are sent.
Reply(m, answers) == msgs' = (msgs \ {m}) \cup answers

-----------------------------------------------------------------------------
\* LocalSession

HandlePrepare(m) ==
    /\ Receive(m) /\ m.type = "Prepare"
    /\ local' = [local EXCEPT ![m.endpoint] = "Prepared"]
    /\ Reply(m, {[type |-> "PrepareResponse", endpoint |-> m.endpoint]})
    /\ UNCHANGED <<state, prepare_responses, promise_responses, repairing>>

SetRepairing(p) ==
    /\ local[p] = "Prepared" /\ repairing
    /\ local' = [local EXCEPT ![p] = "Repairing"]
    /\ UNCHANGED <<state, prepare_responses, promise_responses, repairing, msgs>>

\* Mutant: a session that was failed promises again.
CanPromiseAgain(p) == local[p] \in {"Prepared", "Repairing", "Failed"}

CanPromise(p) == local[p] \in {"Prepared", "Repairing"}

HandleFinalizePropose(m) ==
    /\ Receive(m) /\ m.type = "Propose" /\ local[m.endpoint] # "None"
    /\ LET success == CanPromise(m.endpoint) IN
         /\ local' = IF success THEN [local EXCEPT ![m.endpoint] = "FinalizePromised"] ELSE local
         /\ Reply(m, {[type |-> "Promise", endpoint |-> m.endpoint, success |-> success]})
    /\ UNCHANGED <<state, prepare_responses, promise_responses, repairing>>

HandleCommit(m) ==
    /\ Receive(m) /\ m.type = "Commit" /\ local[m.endpoint] # "None"
    /\ local' = IF local[m.endpoint] = "FinalizePromised"
                  THEN [local EXCEPT ![m.endpoint] = "Committed"] ELSE local
    /\ Reply(m, {})
    /\ UNCHANGED <<state, prepare_responses, promise_responses, repairing>>

HandleFail(m) ==
    /\ Receive(m) /\ m.type = "Fail" /\ local[m.endpoint] # "None"
    /\ local' = [local EXCEPT ![m.endpoint] = "Failed"]
    /\ Reply(m, {})
    /\ UNCHANGED <<state, prepare_responses, promise_responses, repairing>>

-----------------------------------------------------------------------------
\* CoordinatorSession

\* The action Fail, carried out: fail() and its messages.
FailSession(m) == state' = "Failed" /\ Reply(m, ToAll("Fail"))

\* ProceedToRepair starts the repair.
HandlePrepareResponse(m) ==
    /\ Receive(m) /\ m.type = "PrepareResponse"
    /\ IF state # "Preparing"
         THEN FailSession(m) /\ UNCHANGED <<prepare_responses, repairing>>
         ELSE /\ prepare_responses' = prepare_responses \cup {m.endpoint}
              /\ repairing' = (prepare_responses' = Participant)
              /\ state' = IF prepare_responses' = Participant THEN "Prepared" ELSE state
              /\ Reply(m, {})
    /\ UNCHANGED <<promise_responses, local>>

\* repair_complete() sets the state whatever it was; propose_finalize() is sent.
RepairComplete ==
    /\ repairing /\ (state = "Prepared" \/ LateCompletion)
    /\ repairing' = FALSE
    /\ state' = "FinalizeProposing"
    /\ msgs' = msgs \cup ToAll("Propose")
    /\ UNCHANGED <<prepare_responses, promise_responses, local>>

\* Mutant: the promises are counted before the last one is entered, and whoever is
\* not among them is told that the session failed.
CommitBeforeLast(m) ==
    /\ state' = "Committed"
    /\ Reply(m, {[type |-> IF p \in promise_responses THEN "Commit" ELSE "Fail", endpoint |-> p] :
                   p \in Participant})

\* The action Commit, carried out: commit() and its messages.
CommitSession(m) == state' = "Committed" /\ Reply(m, ToAll("Commit"))

HandlePromise(m) ==
    /\ Receive(m) /\ m.type = "Promise"
    /\ IF state # "FinalizeProposing" \/ ~m.success
         THEN FailSession(m) /\ UNCHANGED promise_responses
         ELSE /\ promise_responses' = promise_responses \cup {m.endpoint}
              /\ IF promise_responses' = Participant
                   THEN CommitSession(m)
                   ELSE Reply(m, {}) /\ UNCHANGED state
    /\ UNCHANGED <<prepare_responses, repairing, local>>

\* The caller gives up: the repair failed, or an answer did not come in time.
Abort ==
    /\ state \in {"Preparing", "Prepared", "FinalizeProposing"}
    /\ state' = "Failed" /\ msgs' = msgs \cup ToAll("Fail")
    /\ repairing' = (repairing /\ LateCompletion)
    /\ UNCHANGED <<prepare_responses, promise_responses, local>>

Lose(m) ==
    /\ Receive(m) /\ Reply(m, {})
    /\ UNCHANGED <<state, prepare_responses, promise_responses, repairing, local>>

Handle(m) ==
    \/ HandlePrepare(m) \/ HandleFinalizePropose(m) \/ HandleCommit(m) \/ HandleFail(m)
    \/ HandlePrepareResponse(m) \/ HandlePromise(m) \/ Lose(m)

Next ==
    \/ \E m \in msgs : Handle(m)
    \/ \E p \in Participant : SetRepairing(p)
    \/ RepairComplete \/ Abort

Spec == Init /\ [][Next]_vars

-----------------------------------------------------------------------------
\* The sessions keep their types and only participants are written to.
TypeOK ==
    /\ state \in {"Preparing", "Prepared", "FinalizeProposing", "Committed", "Failed"}
    /\ prepare_responses \subseteq Participant /\ promise_responses \subseteq Participant
    /\ repairing \in BOOLEAN
    /\ local \in [Participant ->
                    {"None", "Prepared", "Repairing", "FinalizePromised", "Committed", "Failed"}]
    /\ msgs \subseteq Message

\* The participants agree: no data is marked as repaired at one of them and
\* given up at another (handle_commit, handle_fail).
Agreement ==
    \A p, q \in Participant : ~(local[p] = "Committed" /\ local[q] = "Failed")

\* A participant that has marked its data as repaired never takes it back.
CommittedStays == [][\A p \in Participant : local[p] = "Committed" => local'[p] = "Committed"]_vars

\* The state of the data at each participant.
Mark ==
    [p \in Participant |->
       CASE local[p] = "FinalizePromised" -> "promised"
         [] local[p] = "Committed" -> "repaired"
         [] local[p] = "Failed" -> "failed"
         [] OTHER -> "unrepaired"]

Promised == INSTANCE RepairCommit WITH mark <- Mark

\* The session implements the agreement of RepairCommit.
ImplementsCommit == Promised!Spec
=============================================================================
