---------------------------- MODULE AccordProofs ----------------------------
(***************************************************************************)
(* What the Accord service guarantees for any number of transactions, any  *)
(* keys and any time, as long as no two of them start in the same          *)
(* microsecond.                                                            *)
(***************************************************************************)
EXTENDS Accord, TLAPS

\* A leaf is for Zenon, unless it names another prover.
USE Zenon

Begun == {"idle", "identified", "begun"}

\* The timestamp of the transaction is settled.
Agreed == {"commit", "execute", "apply", "ok"}

Registered == {"read", "scan"} \cup Agreed

Command == [status : Statuses, execute_at : Nat, txn : Txn]

\* The statuses that a caller at label has brought its command to, and the last of them.
Reached(label) ==
    {"PreAccepted"} \cup (IF label \in Agreed THEN {"Accepted"} ELSE {})
      \cup (IF label \in {"execute", "apply", "ok"} THEN {"Committed"} ELSE {})
      \cup (IF label = "ok" THEN {"Applied"} ELSE {})

Status(label) ==
    IF label \in {"read", "scan"} THEN "PreAccepted"
    ELSE IF label = "commit" THEN "Accepted"
    ELSE IF label \in {"execute", "apply"} THEN "Committed"
    ELSE "Applied"

AccordTypes ==
    /\ clock \in Nat \ {0}
    /\ pc \in [Txn -> Begun \cup Registered] /\ id \in [Txn -> Nat] /\ at \in [Txn -> Nat]
    /\ seen \in [Txn -> SUBSET (Nat \X Statuses)]
    /\ commands \in [DOMAIN commands -> Command]

\* A caller finds its own command in the store, where it has left it.
OwnInv(t) ==
    /\ pc[t] = "idle" <=> id[t] = 0
    /\ pc[t] \in Registered =>
         /\ id[t] \in DOMAIN commands /\ commands[id[t]].txn = t
         /\ commands[id[t]].status = Status(pc[t])
         /\ pc[t] \in Agreed => commands[id[t]].execute_at = at[t]
    /\ seen[t] # {} => pc[t] \in {"scan"} \cup Agreed
    /\ \A v \in seen[t] : v[1] \in DOMAIN commands

\* A command that a scan has met with an agreed timestamp keeps it, and the scan has gone
\* beyond it.
PairInv(t, u) ==
    /\ t # u /\ id[t] = id[u] => pc[t] = "idle"
    /\ \A s \in {"Accepted", "Committed"} :
         Conflict(t, u) /\ <<id[u], s>> \in seen[t] => pc[u] \in Agreed /\ at[t] > at[u]

JournalInv(t) ==
    Journaling /\ Returning = {} /\ pc[t] \in Registered =>
      \A s \in Reached(pc[t]) : [id |-> id[t], status |-> s] \in journal

\* The inductive invariant.
AccordInv ==
    /\ AccordTypes
    /\ \A i \in DOMAIN commands : \E t \in Txn : pc[t] \in Registered /\ id[t] = i
    /\ \A t \in Txn : OwnInv(t) /\ JournalInv(t)
    /\ \A t, u \in Txn : PairInv(t, u)

\* Before any transaction starts, the invariant holds.
LEMMA AccordInvInit == Init => AccordInv
<1> SUFFICES ASSUME Init PROVE AccordInv
  OBVIOUS
<1>1. DOMAIN commands = {} /\ commands \in [{} -> Command]
  BY SMT DEF Init
<1>2. AccordTypes
  BY SMT, <1>1 DEF Init, AccordTypes, Begun
<1>3. \A t \in Txn : pc[t] = "idle" /\ id[t] = 0 /\ seen[t] = {}
  BY DEF Init
<1>4. "idle" \notin Registered
  BY DEF Registered, Agreed
<1> QED
  BY <1>1, <1>2, <1>3, <1>4 DEF AccordInv, OwnInv, PairInv, JournalInv

\* A step of one caller leaves the others, and their commands, alone.
LEMMA OnlyItsOwn ==
    ASSUME AccordInv, NEW t \in Txn, ExecuteTransaction(t)
    PROVE  /\ \A u \in Txn \ {t} : /\ pc'[u] = pc[u] /\ id'[u] = id[u] /\ at'[u] = at[u]
                                   /\ seen'[u] = seen[u]
           /\ \A i \in DOMAIN commands :
                i \in DOMAIN commands' /\ (i # id[t] => commands'[i] = commands[i])
           /\ DOMAIN commands' \subseteq DOMAIN commands \cup {id[t]}
           /\ journal \subseteq journal' /\ clock' = clock
<1> USE DEF Reach, Goto, Fail, Journals
<1>1. CASE TakeId(t)
  BY <1>1 DEF TakeId, AccordInv, AccordTypes
<1>2. CASE TakeTimestamp(t)
  BY <1>2 DEF TakeTimestamp, AccordInv, AccordTypes
<1>3. CASE PreAccept(t)
  BY <1>3 DEF PreAccept, AccordInv, AccordTypes
<1>4. CASE ReadCurrent(t)
  BY <1>4 DEF ReadCurrent, AccordInv, AccordTypes
<1>5. ASSUME NEW i \in DOMAIN commands, Visit(t, i)
      PROVE  /\ \A u \in Txn \ {t} : at'[u] = at[u] /\ seen'[u] = seen[u]
             /\ UNCHANGED <<clock, commands, journal, pc, id>>
  BY <1>5 DEF Visit, AccordInv, AccordTypes
<1>6. CASE Accept(t)
  BY <1>6 DEF Accept, AccordInv, AccordTypes
<1>7. CASE Commit(t)
  BY <1>7 DEF Commit, AccordInv, AccordTypes
<1>8. CASE Execute(t)
  BY <1>8 DEF Execute, AccordInv, AccordTypes
<1>9. CASE Apply(t)
  BY <1>9 DEF Apply, AccordInv, AccordTypes
<1> QED
  BY <1>1, <1>2, <1>3, <1>4, <1>5, <1>6, <1>7, <1>8, <1>9 DEF ExecuteTransaction

\* What a caller's step does to its own transaction: it keeps its identity and, once it is
\* agreed, its timestamp; before that the timestamp goes beyond what the scan meets.
LEMMA OwnMoves ==
    ASSUME DistinctIds, AccordInv, NEW t \in Txn, ExecuteTransaction(t)
    PROVE  /\ pc[t] \in Registered => pc'[t] \in Registered
           /\ pc[t] \in Agreed => pc'[t] \in Agreed /\ at'[t] = at[t]
           /\ \/ id'[t] = id[t]
              \/ /\ pc[t] = "idle" /\ id'[t] \notin {id[u] : u \in Txn}
                 /\ commands' = commands
           /\ id[t] \in DOMAIN commands' \ DOMAIN commands => pc'[t] \in Registered /\ id'[t] = id[t]
           /\ seen[t] # {} => at'[t] >= at[t]
           /\ \A v \in seen'[t] :
                \/ v \in seen[t]
                \/ /\ id'[t] = id[t] /\ v[1] \in DOMAIN commands \ {id[t]}
                   /\ v[2] = commands[v[1]].status
                   /\ KeysOf[t] \cap Keys(v[1]) # {} /\ v[2] \in {"Accepted", "Committed"}
                        => at'[t] > commands[v[1]].execute_at
<1> USE DEF Reach, Goto, Fail, Journals
<1>0. /\ OwnInv(t) /\ AccordTypes /\ at[t] \in Nat
  BY DEF AccordInv, AccordTypes
<1>1. CASE TakeId(t)
  <2>1. pc[t] = "idle" /\ id' = [id EXCEPT ![t] = clock] /\ pc' = [pc EXCEPT ![t] = "identified"]
    BY <1>1 DEF TakeId
  <2>2. pc[t] \notin Registered /\ seen' = seen /\ commands' = commands /\ at' = at /\ seen[t] = {}
    BY <1>0, <1>1, <2>1 DEF TakeId, OwnInv, Registered, Agreed
  <2>3. clock \notin {id[u] : u \in Txn}
    BY <1>1 DEF TakeId
  <2> QED
    BY <1>0, <2>1, <2>2, <2>3 DEF AccordTypes, Registered
<1>2. CASE TakeTimestamp(t)
  <2>1. pc[t] = "identified" /\ seen' = seen /\ id' = id /\ commands' = commands
    BY <1>2 DEF TakeTimestamp
  <2>2. pc[t] \notin Registered /\ seen[t] = {}
    BY <1>0, <2>1 DEF OwnInv, Registered, Agreed
  <2> QED
    BY <2>1, <2>2 DEF Registered
<1>3. CASE PreAccept(t)
  <2>1. /\ pc[t] = "begun" /\ seen' = seen /\ id' = id /\ at' = at
        /\ pc' = [pc EXCEPT ![t] = "read"]
    BY <1>3 DEF PreAccept
  <2>2. pc[t] \notin Registered /\ seen[t] = {} /\ pc'[t] \in Registered
    BY <1>0, <2>1 DEF OwnInv, Registered, Agreed, AccordTypes
  <2> QED
    BY <2>1, <2>2 DEF Registered
<1>4. ASSUME pc[t] \in Registered \ {"scan"}, seen' = seen, id' = id, at' = at,
             DOMAIN commands' = DOMAIN commands,
             pc[t] \in Agreed => pc'[t] \in Agreed, pc'[t] \in Registered
      PROVE  /\ seen[t] # {} => at'[t] >= at[t]
             /\ pc[t] \in Agreed => pc'[t] \in Agreed /\ at'[t] = at[t]
  BY SMT, <1>0, <1>4 DEF AccordTypes
<1>5. CASE ReadCurrent(t)
  <2>1. commands[id[t]].status = "PreAccepted"
    BY <1>0, <1>5 DEF ReadCurrent, OwnInv, Registered, Status
  <2>2. /\ pc[t] = "read" /\ pc' = [pc EXCEPT ![t] = "scan"]
        /\ seen' = seen /\ id' = id /\ at' = at /\ commands' = commands
    BY <1>5, <2>1 DEF ReadCurrent
  <2> QED
    BY <1>0, <1>4, <2>2 DEF Registered, Agreed, AccordTypes
<1>6. ASSUME NEW i \in DOMAIN commands, Visit(t, i)
      PROVE  /\ pc' = pc /\ id' = id /\ commands' = commands
             /\ pc[t] = "scan" /\ at'[t] >= at[t]
             /\ \A v \in seen'[t] :
                  \/ v \in seen[t]
                  \/ /\ v[1] \in DOMAIN commands \ {id[t]}
                     /\ v[2] = commands[v[1]].status
                     /\ KeysOf[t] \cap Keys(v[1]) # {} /\ v[2] \in {"Accepted", "Committed"}
                          => at'[t] > commands[v[1]].execute_at
  <2>1. /\ seen'[t] = seen[t] \cup {<<i, commands[i].status>>}
        /\ at'[t] = IF /\ KeysOf[t] \cap Keys(i) # {} /\ InFlight(i)
                       /\ commands[i].execute_at >= at[t]
                    THEN commands[i].execute_at + 1 ELSE at[t]
        /\ i # id[t] /\ pc' = pc /\ id' = id /\ commands' = commands /\ pc[t] = "scan"
    BY <1>0, <1>6 DEF Visit, AccordTypes
  <2>2. commands[i].execute_at \in Nat
    BY <1>0 DEF AccordTypes, Command
  <2>3. at'[t] >= at[t]
    BY SMT, <1>0, <2>1, <2>2
  <2>4. KeysOf[t] \cap Keys(i) # {} /\ InFlight(i) => at'[t] > commands[i].execute_at
    BY SMT, <1>0, <2>1, <2>2
  <2>5. \A v \in seen'[t] : v \in seen[t] \/ (v[1] = i /\ v[2] = commands[i].status)
    BY SMT, <2>1
  <2>6. commands[i].status \in {"Accepted", "Committed"} => InFlight(i)
    BY DEF InFlight
  <2> QED
    BY <2>1, <2>3, <2>4, <2>5, <2>6
<1>7. CASE Accept(t)
  <2>1. commands[id[t]].status = "PreAccepted" /\ pc[t] = "scan" /\ id[t] \in DOMAIN commands
    BY <1>0, <1>7 DEF Accept, OwnInv, Registered, Status
  <2>2. /\ pc' = [pc EXCEPT ![t] = "commit"] /\ DOMAIN commands' = DOMAIN commands
        /\ seen' = seen /\ id' = id /\ at' = at
    BY <1>0, <1>7, <2>1 DEF Accept, AccordTypes
  <2>3. pc'[t] = "commit" /\ "commit" \in Registered /\ "scan" \notin Agreed
    BY <1>0, <2>2 DEF AccordTypes, Registered, Agreed
  <2>4. at'[t] >= at[t]
    BY SMT, <1>0, <2>2
  <2> QED
    BY <2>1, <2>2, <2>3, <2>4
<1>8. CASE Commit(t)
  <2>1. commands[id[t]].status = "Accepted" /\ pc[t] = "commit" /\ id[t] \in DOMAIN commands
    BY <1>0, <1>8 DEF Commit, OwnInv, Registered, Agreed, Status
  <2>2. /\ pc' = [pc EXCEPT ![t] = "execute"] /\ DOMAIN commands' = DOMAIN commands
        /\ seen' = seen /\ id' = id /\ at' = at
    BY <1>0, <1>8, <2>1 DEF Commit, AccordTypes
  <2> QED
    BY <1>0, <1>4, <2>1, <2>2 DEF Registered, Agreed, AccordTypes
<1>9. CASE Execute(t) \/ Apply(t)
  <2>1. commands[id[t]].status = "Committed" /\ pc[t] \in {"execute", "apply"} /\ id[t] \in DOMAIN commands
    BY <1>0, <1>9 DEF Execute, Apply, OwnInv, Registered, Agreed, Status
  <2>2. /\ pc'[t] \in {"apply", "ok"} /\ DOMAIN commands' = DOMAIN commands
        /\ seen' = seen /\ id' = id /\ at' = at
    BY <1>0, <1>9, <2>1 DEF Execute, Apply, AccordTypes
  <2> QED
    BY <1>0, <1>4, <2>1, <2>2 DEF Registered, Agreed, AccordTypes
<1> QED
  BY <1>1, <1>2, <1>3, <1>5, <1>6, <1>7, <1>8, <1>9 DEF ExecuteTransaction, Registered, Agreed

\* The update of a command by accept and by commit.
LEMMA Updated ==
    ASSUME NEW t \in Txn, NEW s \in Statuses, at[t] \in Nat,
           commands \in [DOMAIN commands -> Command], id[t] \in DOMAIN commands,
           commands' = [commands EXCEPT ![id[t]].status = s, ![id[t]].execute_at = at[t]]
    PROVE  /\ DOMAIN commands' = DOMAIN commands /\ commands' \in [DOMAIN commands -> Command]
           /\ commands'[id[t]].status = s /\ commands'[id[t]].execute_at = at[t]
           /\ commands'[id[t]].txn = commands[id[t]].txn
<1> DEFINE r == [commands[id[t]] EXCEPT !.status = s]
<1>1. commands[id[t]] \in Command
  OBVIOUS
<1>2. r \in Command /\ r.status = s /\ r.txn = commands[id[t]].txn
  BY SMT, <1>1 DEF Command
<1>3. commands'[id[t]] = [r EXCEPT !.execute_at = at[t]]
  BY SMT
<1> HIDE DEF r
<1>4. /\ commands'[id[t]] \in Command
      /\ commands'[id[t]].status = s /\ commands'[id[t]].execute_at = at[t]
      /\ commands'[id[t]].txn = commands[id[t]].txn
  BY SMT, <1>2, <1>3 DEF Command
<1>5. /\ DOMAIN commands' = DOMAIN commands
      /\ \A j \in DOMAIN commands : j # id[t] => commands'[j] = commands[j]
  BY SMT
<1>6. commands' = [j \in DOMAIN commands |-> commands'[j]]
  BY <1>5
<1> QED
  BY <1>4, <1>5, <1>6

\* Types, the own command and the journal after a caller's step.
LEMMA OwnKept ==
    ASSUME DistinctIds, AccordInv, NEW t \in Txn, ExecuteTransaction(t)
    PROVE  AccordTypes' /\ OwnInv(t)' /\ JournalInv(t)'
<1> USE DEF Reach, Goto, Fail, Journals
<1>0. /\ OwnInv(t) /\ JournalInv(t) /\ AccordTypes /\ at[t] \in Nat /\ clock \in Nat
      /\ \A v \in seen[t] : v[1] \in DOMAIN commands'
  BY OnlyItsOwn DEF AccordInv, AccordTypes, OwnInv
<1> USE DEF Registered, Agreed, Begun
<1>1. CASE TakeId(t)
  <2>1. /\ pc[t] = "idle" /\ pc'[t] = "identified" /\ id'[t] = clock /\ clock # 0
        /\ seen[t] = {} /\ seen' = seen
    BY <1>0, <1>1 DEF TakeId, AccordTypes, OwnInv
  <2>2. AccordTypes'
    BY <1>0, <1>1 DEF TakeId, AccordTypes
  <2> QED
    BY <2>1, <2>2 DEF OwnInv, JournalInv
<1>2. CASE TakeTimestamp(t)
  <2>1. /\ pc[t] = "identified" /\ pc'[t] = "begun" /\ id' = id
        /\ seen[t] = {} /\ seen' = seen
    BY <1>0, <1>2 DEF TakeTimestamp, AccordTypes, OwnInv
  <2>2. AccordTypes'
    BY <1>0, <1>2 DEF TakeTimestamp, AccordTypes
  <2> QED
    BY <1>0, <2>1, <2>2 DEF OwnInv, JournalInv
<1>3. CASE PreAccept(t)
  <2>1. /\ pc[t] = "begun" /\ pc'[t] = "read" /\ id' = id /\ at' = at
        /\ seen[t] = {} /\ seen' = seen /\ id[t] \in DOMAIN commands'
        /\ commands'[id[t]] = [status |-> "PreAccepted", execute_at |-> at[t], txn |-> t]
    BY <1>0, <1>3 DEF PreAccept, AccordTypes, OwnInv
  <2>2. Journaling /\ Returning = {} => [id |-> id[t], status |-> "PreAccepted"] \in journal'
    BY <1>3 DEF PreAccept
  <2>3. AccordTypes'
    <3>1. [status |-> "PreAccepted", execute_at |-> at[t], txn |-> t] \in Command
      BY <1>0 DEF Command, Statuses
    <3>2. commands' \in [DOMAIN commands' -> Command]
      BY <1>0, <1>3, <3>1 DEF PreAccept, AccordTypes
    <3> QED
      BY <1>0, <1>3, <3>2 DEF PreAccept, AccordTypes
  <2>4. OwnInv(t)'
    BY SMT, <1>0, <2>1 DEF OwnInv, Status
  <2> QED
    BY <2>1, <2>2, <2>3, <2>4 DEF JournalInv, Reached
<1>4. CASE ReadCurrent(t)
  <2>1. commands[id[t]].status = "PreAccepted" /\ pc[t] = "read"
    BY <1>0, <1>4 DEF ReadCurrent, OwnInv, Status
  <2>2. /\ pc' = [pc EXCEPT ![t] = "scan"]
        /\ UNCHANGED <<clock, commands, journal, id, at, seen>>
    BY <1>4, <2>1 DEF ReadCurrent
  <2>3. AccordTypes' /\ pc'[t] = "scan"
    BY <1>0, <2>2 DEF AccordTypes
  <2>4. OwnInv(t)'
    BY <1>0, <2>1, <2>2, <2>3 DEF OwnInv, Status
  <2> QED
    BY <1>0, <2>1, <2>2, <2>3, <2>4 DEF JournalInv, Reached
<1>5. ASSUME NEW i \in DOMAIN commands, Visit(t, i)
      PROVE  AccordTypes' /\ OwnInv(t)' /\ JournalInv(t)'
  <2>1. /\ UNCHANGED <<clock, commands, journal, pc, id>> /\ pc[t] = "scan"
        /\ seen' = [seen EXCEPT ![t] = @ \cup {<<i, commands[i].status>>}]
    BY <1>5 DEF Visit
  <2>2. commands[i] \in Command /\ commands[i].status \in Statuses /\ commands[i].execute_at \in Nat
    BY <1>0 DEF AccordTypes, Command
  <2>3. i \in Nat
    <3>1. PICK u \in Txn : id[u] = i
      BY DEF AccordInv
    <3> QED
      BY <1>0, <3>1 DEF AccordTypes
  <2>4. seen' \in [Txn -> SUBSET (Nat \X Statuses)]
    <3>1. <<i, commands[i].status>> \in Nat \X Statuses
      BY <2>2, <2>3
    <3> QED
      BY <1>0, <2>1, <3>1 DEF AccordTypes
  <2>5. at' \in [Txn -> Nat]
    <3>1. commands[i].execute_at + 1 \in Nat
      BY SMT, <2>2
    <3> QED
      BY <1>0, <1>5, <3>1 DEF Visit, AccordTypes
  <2>6. \A v \in seen'[t] : v[1] \in DOMAIN commands'
    <3>1. \A v \in seen'[t] : v \in seen[t] \/ v[1] = i
      BY SMT, <1>0, <2>1 DEF AccordTypes
    <3> QED
      BY <1>0, <2>1, <3>1
  <2>7. OwnInv(t)'
    BY <1>0, <2>1, <2>6 DEF OwnInv
  <2> QED
    BY <1>0, <2>1, <2>4, <2>5, <2>7 DEF AccordTypes, JournalInv
<1>6. CASE Accept(t)
  <2>1. commands[id[t]].status = "PreAccepted" /\ pc[t] = "scan" /\ id[t] \in DOMAIN commands
    BY <1>0, <1>6 DEF Accept, OwnInv, Status
  <2>2. /\ commands' = [commands EXCEPT ![id[t]].status = "Accepted", ![id[t]].execute_at = at[t]]
        /\ pc' = [pc EXCEPT ![t] = "commit"] /\ UNCHANGED <<clock, id, at, seen>>
        /\ Journaling /\ Returning = {} =>
             journal' = journal \cup {[id |-> id[t], status |-> "Accepted"]}
    BY <1>6, <2>1 DEF Accept
  <2>3. /\ commands' \in [DOMAIN commands -> Command]
        /\ commands'[id[t]].status = "Accepted" /\ commands'[id[t]].execute_at = at[t]
        /\ commands'[id[t]].txn = commands[id[t]].txn
    <3>1. commands \in [DOMAIN commands -> Command] /\ id[t] \in DOMAIN commands
          /\ "Accepted" \in Statuses /\ at[t] \in Nat
      BY <1>0, <2>1 DEF AccordTypes, Statuses
    <3> QED
      BY <2>2, <3>1, Updated
  <2>4. AccordTypes' /\ pc'[t] = "commit"
    BY <1>0, <2>2, <2>3 DEF AccordTypes
  <2>5. OwnInv(t)'
    BY <1>0, <2>1, <2>2, <2>3, <2>4 DEF OwnInv, Status
  <2> QED
    BY <1>0, <2>1, <2>2, <2>4, <2>5 DEF JournalInv, Reached
<1>7. CASE Commit(t)
  <2>1. commands[id[t]].status = "Accepted" /\ pc[t] = "commit" /\ id[t] \in DOMAIN commands
    BY <1>0, <1>7 DEF Commit, OwnInv, Status
  <2>2. /\ commands' = [commands EXCEPT ![id[t]].status = "Committed", ![id[t]].execute_at = at[t]]
        /\ pc' = [pc EXCEPT ![t] = "execute"] /\ UNCHANGED <<clock, id, at, seen>>
        /\ Journaling /\ Returning = {} =>
             journal' = journal \cup {[id |-> id[t], status |-> "Committed"]}
    BY <1>7, <2>1 DEF Commit
  <2>3. /\ commands' \in [DOMAIN commands -> Command]
        /\ commands'[id[t]].status = "Committed" /\ commands'[id[t]].execute_at = at[t]
        /\ commands'[id[t]].txn = commands[id[t]].txn
    <3>1. commands \in [DOMAIN commands -> Command] /\ id[t] \in DOMAIN commands
          /\ "Committed" \in Statuses /\ at[t] \in Nat
      BY <1>0, <2>1 DEF AccordTypes, Statuses
    <3> QED
      BY <2>2, <3>1, Updated
  <2>4. AccordTypes' /\ pc'[t] = "execute"
    BY <1>0, <2>2, <2>3 DEF AccordTypes
  <2>5. OwnInv(t)'
    BY <1>0, <2>1, <2>2, <2>3, <2>4 DEF OwnInv, Status
  <2> QED
    BY <1>0, <2>1, <2>2, <2>4, <2>5 DEF JournalInv, Reached
<1>8. CASE Execute(t)
  <2>1. commands[id[t]].status = "Committed" /\ pc[t] = "execute"
    BY <1>0, <1>8 DEF Execute, OwnInv, Status
  <2>2. /\ pc' = [pc EXCEPT ![t] = "apply"]
        /\ UNCHANGED <<clock, commands, journal, id, at, seen>>
    BY <1>8, <2>1 DEF Execute
  <2>3. AccordTypes' /\ pc'[t] = "apply"
    BY <1>0, <2>2 DEF AccordTypes
  <2>4. OwnInv(t)'
    BY <1>0, <2>1, <2>2, <2>3 DEF OwnInv, Status
  <2> QED
    BY <1>0, <2>1, <2>2, <2>3, <2>4 DEF JournalInv, Reached
<1>9. CASE Apply(t)
  <2>1. commands[id[t]].status = "Committed" /\ pc[t] = "apply" /\ id[t] \in DOMAIN commands
    BY <1>0, <1>9 DEF Apply, OwnInv, Status
  <2>2. /\ commands' = [commands EXCEPT ![id[t]].status = "Applied"]
        /\ pc' = [pc EXCEPT ![t] = "ok"] /\ UNCHANGED <<clock, id, at, seen>>
        /\ Journaling /\ Returning = {} =>
             journal' = journal \cup {[id |-> id[t], status |-> "Applied"]}
    BY <1>9, <2>1 DEF Apply
  <2>3. /\ commands' \in [DOMAIN commands -> Command]
        /\ commands'[id[t]].status = "Applied"
        /\ commands'[id[t]].execute_at = commands[id[t]].execute_at
        /\ commands'[id[t]].txn = commands[id[t]].txn
    BY SMT, <1>0, <2>1, <2>2 DEF AccordTypes, Command, Statuses
  <2>4. AccordTypes' /\ pc'[t] = "ok"
    BY <1>0, <2>2, <2>3 DEF AccordTypes
  <2>5. OwnInv(t)'
    BY <1>0, <2>1, <2>2, <2>3, <2>4 DEF OwnInv, Status
  <2> QED
    BY <1>0, <2>1, <2>2, <2>4, <2>5 DEF JournalInv, Reached
<1> QED
  BY <1>1, <1>2, <1>3, <1>4, <1>5, <1>6, <1>7, <1>8, <1>9 DEF ExecuteTransaction
\* A step of one caller leaves the other callers' commands and journal entries alone: their
\* identifiers differ.
LEMMA OthersKept ==
    ASSUME DistinctIds, AccordInv, NEW t \in Txn, ExecuteTransaction(t), NEW u \in Txn \ {t}
    PROVE  OwnInv(u)' /\ JournalInv(u)'
<1>1. OwnInv(u) /\ JournalInv(u) /\ PairInv(u, t)
  BY DEF AccordInv
<1>2. /\ pc'[u] = pc[u] /\ id'[u] = id[u] /\ at'[u] = at[u] /\ seen'[u] = seen[u]
      /\ DOMAIN commands \subseteq DOMAIN commands' /\ journal \subseteq journal'
      /\ \A i \in DOMAIN commands : i # id[t] => commands'[i] = commands[i]
  BY OnlyItsOwn
<1>3. pc[u] \in Registered => id[u] # id[t]
  BY <1>1 DEF PairInv, Registered, Agreed
<1>4. OwnInv(u)'
  BY <1>1, <1>2, <1>3 DEF OwnInv
<1>5. JournalInv(u)'
  BY <1>1, <1>2 DEF JournalInv
<1> QED
  BY <1>4, <1>5

\* A step keeps the order between every two conflicting transactions.
LEMMA PairsKept ==
    ASSUME DistinctIds, AccordInv, NEW t \in Txn, ExecuteTransaction(t), NEW x \in Txn, NEW y \in Txn
    PROVE  PairInv(x, y)'
<1>1. /\ PairInv(x, y) /\ PairInv(y, x) /\ OwnInv(x) /\ OwnInv(y) /\ OwnInv(t)' /\ AccordTypes /\ AccordTypes'
  BY OwnKept DEF AccordInv
<1>2. \A u \in Txn \ {t} : pc'[u] = pc[u] /\ id'[u] = id[u] /\ at'[u] = at[u] /\ seen'[u] = seen[u]
  BY OnlyItsOwn
<1>3. id'[t] = id[t] \/ (pc[t] = "idle" /\ id'[t] \notin {id[u] : u \in Txn})
  BY OwnMoves
<1>4. ASSUME x # y, id'[x] = id'[y]
      PROVE  pc'[x] = "idle"
  <2>1. CASE x # t
    BY <1>1, <1>2, <1>3, <1>4, <2>1 DEF PairInv
  <2>2. CASE x = t
    <3>1. id'[t] = id[t] /\ id[t] = id[y]
      BY <1>2, <1>3, <1>4, <2>2
    <3> QED
      BY <1>1, <1>4, <2>2, <3>1 DEF PairInv, OwnInv
  <2> QED
    BY <2>1, <2>2
<1>5. ASSUME NEW s \in {"Accepted", "Committed"}, Conflict(x, y), <<id'[y], s>> \in seen'[x]
      PROVE  pc'[y] \in Agreed /\ at'[x] > at'[y]
  <2>0. x # y
    BY <1>5 DEF Conflict
  <2>1. CASE x # t /\ y # t
    BY <1>1, <1>2, <1>5, <2>1 DEF PairInv
  <2>2. CASE y = t
    <3>1. <<id'[t], s>> \in seen[x] /\ at'[x] = at[x]
      BY <1>2, <1>5, <2>0, <2>2
    <3>2. id'[t] \in DOMAIN commands
      <4>1. <<id'[t], s>>[1] \in DOMAIN commands
        BY <1>1, <3>1 DEF OwnInv
      <4> QED
        BY SMT, <4>1
    <3>3. id'[t] \in {id[u] : u \in Txn}
      BY <3>2 DEF AccordInv
    <3>4. pc[t] \in Agreed /\ at[x] > at[t]
      BY <1>1, <1>3, <1>5, <2>2, <3>1, <3>3 DEF PairInv
    <3> QED
      BY <2>2, <3>1, <3>4, OwnMoves
  <2>3. CASE x = t /\ <<id[y], s>> \in seen[t]
    <3>1. pc[y] \in Agreed /\ at[t] > at[y]
      BY <1>1, <1>5, <2>3 DEF PairInv
    <3>2. at'[t] >= at[t]
      BY <2>3, OwnMoves
    <3>3. at[t] \in Nat /\ at[y] \in Nat /\ at'[t] \in Nat
      BY <1>1 DEF AccordTypes
    <3>4. at'[t] > at[y]
      BY SMT, <3>1, <3>2, <3>3
    <3> QED
      BY <1>2, <2>0, <2>3, <3>1, <3>4
  <2>4. CASE x = t /\ <<id[y], s>> \notin seen[t]
    <3> DEFINE v == <<id[y], s>>
    <3>1. v \in seen'[t] /\ v \notin seen[t]
      BY <1>2, <1>5, <2>0, <2>4
    <3>2. v[1] = id[y] /\ v[2] = s
      BY SMT
    <3> HIDE DEF v
    <3>3. /\ id[y] \in DOMAIN commands \ {id[t]} /\ s = commands[id[y]].status
          /\ KeysOf[t] \cap Keys(id[y]) # {} => at'[t] > commands[id[y]].execute_at
      <4>1. /\ v[1] \in DOMAIN commands \ {id[t]} /\ v[2] = commands[v[1]].status
            /\ KeysOf[t] \cap Keys(v[1]) # {} /\ v[2] \in {"Accepted", "Committed"}
                 => at'[t] > commands[v[1]].execute_at
        BY <3>1, OwnMoves
      <4> QED
        BY <1>5, <3>2, <4>1
    <3>4. PICK u \in Txn : pc[u] \in Registered /\ id[u] = id[y]
      BY <3>3 DEF AccordInv
    <3>5. u = y
      BY <3>4 DEF AccordInv, PairInv, Registered, Agreed
    <3>6. /\ commands[id[y]].txn = y /\ s = Status(pc[y])
          /\ pc[y] \in Agreed => commands[id[y]].execute_at = at[y]
      BY <1>1, <3>3, <3>4, <3>5 DEF OwnInv
    <3>7. pc[y] \in Agreed
      BY <1>5, <3>4, <3>5, <3>6 DEF Status, Registered, Agreed
    <3>8. at'[t] > at[y]
      BY <1>5, <2>4, <3>3, <3>6, <3>7 DEF Keys, Conflict
    <3> QED
      BY <1>2, <2>0, <2>4, <3>7, <3>8
  <2> QED
    BY <2>0, <2>1, <2>2, <2>3, <2>4
<1> QED
  BY <1>4, <1>5 DEF PairInv, Conflict

\* Every step of every caller keeps the invariant.
LEMMA AccordInvNext == DistinctIds /\ AccordInv /\ [Next]_vars => AccordInv'
<1> SUFFICES ASSUME DistinctIds, AccordInv, [Next]_vars PROVE AccordInv'
  OBVIOUS
<1>1. ASSUME NEW t \in Txn, ExecuteTransaction(t)
      PROVE  AccordInv'
  <2>1. ASSUME NEW i \in DOMAIN commands'
        PROVE  \E u \in Txn : pc'[u] \in Registered /\ id'[u] = i
    <3>1. CASE i \in DOMAIN commands
      <4>1. PICK u \in Txn : pc[u] \in Registered /\ id[u] = i
        BY <3>1 DEF AccordInv
      <4>2. "idle" \notin Registered
        BY DEF Registered, Agreed
      <4>3. pc'[u] \in Registered /\ id'[u] = i
        <5>1. CASE u = t
          BY <1>1, <4>1, <4>2, <5>1, OwnMoves
        <5>2. CASE u # t
          BY <1>1, <4>1, <5>2, OnlyItsOwn
        <5> QED
          BY <5>1, <5>2
      <4> QED
        BY <4>3
    <3>2. CASE i \notin DOMAIN commands
      <4>1. i = id[t]
        BY <1>1, <2>1, <3>2, OnlyItsOwn
      <4>2. pc'[t] \in Registered /\ id'[t] = i
        BY <1>1, <2>1, <3>2, <4>1, OwnMoves
      <4> QED
        BY <4>2
    <3> QED
      BY <3>1, <3>2
  <2>2. \A u \in Txn : OwnInv(u)' /\ JournalInv(u)'
    BY <1>1, OwnKept, OthersKept
  <2>3. AccordTypes'
    BY <1>1, OwnKept
  <2>4. \A x, y \in Txn : PairInv(x, y)'
    BY <1>1, PairsKept
  <2> QED
    BY <2>1, <2>2, <2>3, <2>4 DEF AccordInv
<1>2. CASE Tick \/ UNCHANGED vars
  <2>1. UNCHANGED <<commands, journal, pc, id, at, seen>>
    BY SMT, <1>2 DEF Tick, vars
  <2>2. clock' \in Nat \ {0}
    BY SMT, <1>2 DEF Tick, vars, AccordInv, AccordTypes
  <2>3. AccordTypes'
    BY <2>1, <2>2 DEF AccordInv, AccordTypes
  <2>4. \A x, y \in Txn : PairInv(x, y)'
    BY <2>1 DEF AccordInv, PairInv, Conflict
  <2>5. \A u \in Txn : OwnInv(u)' /\ JournalInv(u)'
    BY <2>1 DEF AccordInv, OwnInv, JournalInv
  <2> QED
    BY <2>1, <2>3, <2>4, <2>5 DEF AccordInv
<1> QED
  BY <1>1, <1>2 DEF Next, Done

\* The invariant holds as long as no two transactions start in one microsecond.
LEMMA AccordInvHolds ==
    ASSUME DistinctIds
    PROVE  Spec => []AccordInv
<1>1. DistinctIds /\ AccordInv /\ [Next]_vars => AccordInv'
  BY AccordInvNext
<1>2. AccordInv /\ [Next]_vars => AccordInv'
  BY <1>1
<1> QED
  BY PTL, AccordInvInit, <1>2 DEF Spec

\* Whatever the number of callers and the keys, a transaction executes strictly after every
\* conflicting one that the scan of accept_resolving_conflicts met accepted or committed, if
\* no two transactions start in the same microsecond.
THEOREM ExecutesAfterWhatItMet ==
    ASSUME DistinctIds
    PROVE  Spec => []ExecutesAfterAgreed
<1>1. AccordInv => ExecutesAfterAgreed
  BY DEF AccordInv, PairInv, ExecutesAfterAgreed
<1> QED
  BY PTL, <1>1, AccordInvHolds

\* If execute_transaction runs them all with journaling enabled, the journal holds every
\* status of every transaction that completed.
THEOREM JournalHoldsEveryStatus ==
    ASSUME DistinctIds, Journaling, Returning = {}
    PROVE  Spec => []JournalIsComplete
<1>1. AccordInv => JournalIsComplete
  <2> SUFFICES ASSUME AccordInv, NEW t \in Txn, pc[t] = "ok", NEW s \in Statuses
               PROVE  \E e \in journal : e.id = id[t] /\ e.status = s
    BY DEF JournalIsComplete
  <2> DEFINE e == [id |-> id[t], status |-> s]
  <2>1. s \in Reached("ok")
    BY DEF Statuses, Reached, Agreed
  <2>2. "ok" \in Registered
    BY DEF Registered, Agreed
  <2>3. e \in journal
    BY <2>1, <2>2 DEF AccordInv, JournalInv
  <2>4. e.id = id[t] /\ e.status = s
    OBVIOUS
  <2> QED
    BY <2>3, <2>4
<1> QED
  BY PTL, <1>1, AccordInvHolds

\* What AccordExecutor::execute applies for a caller is the caller's own transaction, at the
\* timestamp it agreed on.
THEOREM CallersApplyTheirOwn ==
    ASSUME DistinctIds
    PROVE  Spec => AppliesItsOwn
<1> DEFINE Own == \A t \in Txn : (pc[t] = "apply" /\ pc'[t] = "ok") =>
                     commands[id[t]].txn = t /\ commands[id[t]].execute_at = at[t]
<1>1. AccordInv => Own
  BY DEF AccordInv, OwnInv, Registered, Agreed
<1>2. AccordInv /\ [Next]_vars => [Own]_vars
  BY <1>1
<1> QED
  BY PTL, <1>2, AccordInvHolds DEF Spec, AppliesItsOwn

=============================================================================
