------------------------------- MODULE Accord -------------------------------
(***************************************************************************)
(* The Accord service of one node: execute_transaction and                 *)
(* execute_transaction_returning (service.rs) drive a transaction through  *)
(* the command store (command_store.rs), the executor (executor.rs) and    *)
(* the journal (journal.rs).  Callers run concurrently; each access to the *)
(* command store locks one entry at a time, and the scan for conflicts is  *)
(* no snapshot.  A transaction is identified by the microsecond it starts  *)
(* in (types.rs).                                                          *)
(***************************************************************************)
EXTENDS Integers

CONSTANTS
    Txn,
    KeysOf,         \* [Txn -> set of keys]
    Returning,      \* transactions run by execute_transaction_returning
    Journaling,     \* journaling_enabled
    MaxClock,
    DistinctIds     \* TRUE: no two transactions start in the same microsecond

VARIABLES
    clock,      \* microseconds
    commands,   \* [TxnId -> CommandEntry], of those registered
    journal,    \* the JournalEntries written
    pc,         \* [Txn -> where its caller is]
    id,         \* [Txn -> TxnId]
    at,         \* [Txn -> execute_at]
    seen,       \* [Txn -> ids its scan has visited, with the status it met]
    goal        \* [Txn -> ids its scan will visit]

vars == <<clock, commands, journal, pc, id, at, seen, goal>>

Init ==
    /\ clock = 1 /\ commands = <<>> /\ journal = {}
    /\ pc = [t \in Txn |-> "idle"]
    /\ id = [t \in Txn |-> 0] /\ at = [t \in Txn |-> 0]
    /\ seen = [t \in Txn |-> {}] /\ goal = [t \in Txn |-> {}]

Tick ==
    /\ clock < MaxClock /\ clock' = clock + 1
    /\ UNCHANGED <<commands, journal, pc, id, at, seen, goal>>

Goto(t, label) == pc' = [pc EXCEPT ![t] = label]

\* The caller gets an error.
Fail(t) == Goto(t, "failed")

\* Mutant: the decision is journaled, the way to it is not.
JournalsDecision(t, status) == Journaling /\ status \in {"Committed", "Applied"}

\* The executor writes its entry for every caller, the phases only for
\* execute_transaction.
Journals(t, status) == Journaling /\ (t \in Returning => status = "Applied")

\* The command has reached a status.  Nobody reads the journal, so the append that
\* follows the change of the command is one step with it.
Reach(t, status, label) ==
    /\ Goto(t, label)
    /\ journal' = IF Journals(t, status)
                    THEN journal \cup {[id |-> id[t], status |-> status]}
                    ELSE journal

Keys(i) == KeysOf[commands[i].txn]

Visited(t) == {v[1] : v \in seen[t]}

-----------------------------------------------------------------------------
\* TxnId::new, then Timestamp::now.
TakeId(t) ==
    /\ pc[t] = "idle"
    /\ DistinctIds => clock \notin {id[u] : u \in Txn}
    /\ id' = [id EXCEPT ![t] = clock]
    /\ Goto(t, "identified")
    /\ UNCHANGED <<clock, commands, journal, at, seen, goal>>

TakeTimestamp(t) ==
    /\ pc[t] = "identified"
    /\ at' = [at EXCEPT ![t] = clock]
    /\ Goto(t, "begun")
    /\ UNCHANGED <<clock, commands, journal, id, seen, goal>>

PreAccept(t) ==
    /\ pc[t] = "begun"
    /\ commands' = [i \in DOMAIN commands \cup {id[t]} |->
                      IF i = id[t] THEN [status |-> "PreAccepted", execute_at |-> at[t], txn |-> t]
                                   ELSE commands[i]]
    /\ Reach(t, "PreAccepted", "read")
    /\ UNCHANGED <<clock, id, at, seen, goal>>

\* accept_resolving_conflicts: the clone of the own entry, and its check.
ReadCurrent(t) ==
    /\ pc[t] = "read"
    /\ IF commands[id[t]].status = "PreAccepted"
         THEN /\ goal' = [goal EXCEPT ![t] = DOMAIN commands \ {id[t]}]
              /\ Goto(t, "scan")
         ELSE Fail(t) /\ UNCHANGED goal
    /\ UNCHANGED <<clock, commands, journal, id, at, seen>>

\* Mutant: a command that is committed is over.
InFlightUndecided(i) == commands[i].status \in {"PreAccepted", "Accepted"}

InFlight(i) == commands[i].status \in {"PreAccepted", "Accepted", "Committed"}

\* One entry of the iteration, which may or may not meet a late one.
Visit(t, i) ==
    /\ pc[t] = "scan" /\ i \in DOMAIN commands \ ({id[t]} \cup Visited(t))
    /\ seen' = [seen EXCEPT ![t] = @ \cup {<<i, commands[i].status>>}]
    /\ at' = [at EXCEPT ![t] =
                IF /\ KeysOf[t] \cap Keys(i) # {} /\ InFlight(i)
                   /\ commands[i].execute_at >= @
                THEN commands[i].execute_at + 1 ELSE @]
    /\ UNCHANGED <<clock, commands, journal, pc, id, goal>>

\* The end of the iteration, and accept.
Accept(t) ==
    /\ pc[t] = "scan" /\ goal[t] \subseteq Visited(t)
    /\ IF commands[id[t]].status = "PreAccepted"
         THEN /\ commands' = [commands EXCEPT ![id[t]].status = "Accepted", ![id[t]].execute_at = at[t]]
              /\ Reach(t, "Accepted", "commit")
         ELSE Fail(t) /\ UNCHANGED <<commands, journal>>
    /\ goal' = [goal EXCEPT ![t] = {}]
    /\ UNCHANGED <<clock, id, at, seen>>

\* Mutant: the proposed timestamp is committed.
CommitProposed(t) ==
    /\ pc[t] = "commit" /\ Reach(t, "Committed", "execute")
    /\ commands' = [commands EXCEPT ![id[t]].status = "Committed", ![id[t]].execute_at = id[t]]
    /\ UNCHANGED <<clock, id, at, seen, goal>>

Commit(t) ==
    /\ pc[t] = "commit"
    /\ IF commands[id[t]].status \in {"PreAccepted", "Accepted"}
         THEN /\ commands' = [commands EXCEPT ![id[t]].status = "Committed", ![id[t]].execute_at = at[t]]
              /\ Reach(t, "Committed", "execute")
         ELSE Fail(t) /\ UNCHANGED <<commands, journal>>
    /\ UNCHANGED <<clock, id, at, seen, goal>>

\* AccordExecutor::execute: the check, and then apply with its own.
Execute(t) ==
    /\ pc[t] = "execute"
    /\ IF commands[id[t]].status = "Committed" THEN Goto(t, "apply") ELSE Fail(t)
    /\ UNCHANGED <<clock, commands, journal, id, at, seen, goal>>

Apply(t) ==
    /\ pc[t] = "apply"
    /\ IF commands[id[t]].status = "Committed"
         THEN commands' = [commands EXCEPT ![id[t]].status = "Applied"] /\ Reach(t, "Applied", "ok")
         ELSE Fail(t) /\ UNCHANGED <<commands, journal>>
    /\ UNCHANGED <<clock, id, at, seen, goal>>

ExecuteTransaction(t) ==
    \/ TakeId(t) \/ TakeTimestamp(t) \/ PreAccept(t) \/ ReadCurrent(t)
    \/ \E i \in DOMAIN commands : Visit(t, i)
    \/ Accept(t) \/ Commit(t) \/ Execute(t) \/ Apply(t)

Finished == \A t \in Txn : pc[t] \in {"ok", "failed"}

\* The callers are done, or there is no microsecond left to start in.
Done == (Finished \/ clock = MaxClock) /\ UNCHANGED vars

Next == Tick \/ (\E t \in Txn : ExecuteTransaction(t)) \/ Done

Spec == Init /\ [][Next]_vars

-----------------------------------------------------------------------------
Conflict(t, u) == t # u /\ KeysOf[t] \cap KeysOf[u] # {}

Statuses == {"PreAccepted", "Accepted", "Committed", "Applied"}

\* Commands, callers and identities keep their types.
TypeOK ==
    /\ clock \in 1 .. MaxClock
    /\ \A i \in DOMAIN commands : /\ commands[i].status \in Statuses
                                  /\ commands[i].execute_at \in Nat
                                  /\ commands[i].txn \in Txn
    /\ pc \in [Txn -> {"idle", "identified", "begun", "read", "scan", "commit", "execute",
                       "apply", "ok", "failed"}]
    /\ id \in [Txn -> 0 .. MaxClock] /\ at \in [Txn -> Nat]

\* What a caller has applied is its own transaction, at the timestamp it agreed
\* on, whatever the other callers do to the store.
AppliesItsOwn ==
    [][\A t \in Txn : (pc[t] = "apply" /\ pc'[t] = "ok") =>
          commands[id[t]].txn = t /\ commands[id[t]].execute_at = at[t]]_vars

\* A transaction executes strictly after every conflicting one that its scan
\* met with an agreed timestamp, in whatever order it met them and whatever the
\* others did in between.
ExecutesAfterAgreed ==
    \A t, u \in Txn : \A s \in {"Accepted", "Committed"} :
        (Conflict(t, u) /\ <<id[u], s>> \in seen[t]) => at[t] > at[u]

\* Conflicting transactions that are both past the conflict resolution have
\* different timestamps.
ConflictsAreOrdered ==
    \A t, u \in Txn :
        (/\ Conflict(t, u)
         /\ pc[t] \in {"commit", "execute", "apply", "ok"}
         /\ pc[u] \in {"commit", "execute", "apply", "ok"})
        => at[t] # at[u]

\* The journal holds every status a completed transaction went through.
JournalIsComplete ==
    \A t \in Txn : pc[t] = "ok" =>
        \A s \in Statuses : \E e \in journal : e.id = id[t] /\ e.status = s
=============================================================================
