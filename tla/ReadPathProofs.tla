-------------------------- MODULE ReadPathProofs ---------------------------
(***************************************************************************)
(* A read behind an acknowledged write finds it, for any number of         *)
(* replicas, datacenters and readers.                                      *)
(***************************************************************************)
EXTENDS RequestProofs

\* A leaf is for Zenon, unless it names another prover.
USE Zenon

\* What a response holds of the row, and what a replica may have: an empty value comes out of a
\* repair as a tombstone.
Versions == {NoCell, OldCell, NewCell}

Stored == Versions \cup {[ts |-> 2, kind |-> "tombstone"]}

StoreInv ==
    /\ kind \in {"value", "empty"} /\ cells \in [Replica -> Stored]
    /\ \A m \in staged : m.cell \in Versions
    /\ pc # "done" =>
         /\ staged = {} /\ cells \in [Replica -> Versions]
         /\ \A r \in written : cells[r] = NewCell

ValueInv(c) ==
    /\ pc # "done" \/ cl = "Any" => read[c].pc = "idle"
    /\ read[c].pc # "idle" /\ read[c].written => result = "Ok"
    /\ Asking(c) =>
         /\ read[c].digest \in Stored /\ read[c].data = Live(read[c].digest)
         /\ read[c].mismatch \in BOOLEAN
         /\ read[c].pc = "full" =>
              \A r \in DOMAIN read[c].versions : read[c].versions[r] \in Versions

\* What a read has heard from replicas that have the new cell.
Seen(c, W) ==
    /\ read[c].pc = "digest" =>
         \A r \in W \cap Range(read[c].contacted) :
           /\ r = read[c].contacted[1] => read[c].digest = NewCell
           /\ read[c].mismatch \/ read[c].digest = NewCell
    /\ read[c].pc = "full" =>
         \A r \in W \cap DOMAIN read[c].versions : read[c].versions[r] = NewCell

\* Replicas, as many as the write waited for, that keep the new cell: no repair replaces it.
Spared(W) ==
    /\ Cardinality(W) >= Required /\ \A r \in W : cells[r] = NewCell
    /\ \A m \in staged : m.cell = NewCell => m.target \notin W
    /\ \A c \in Reader : Seen(c, W)

\* There are such replicas from the moment the write is acknowledged.
WitnessInv == result = "Ok" /\ cl # "Any" => \E W \in SUBSET written : Spared(W)

ReadInv ==
    /\ WriteInv /\ KeptInv /\ StoreInv /\ WitnessInv /\ ReadsTheWrite
    /\ \A c \in Reader : ValueInv(c)

-----------------------------------------------------------------------------
\* A set of numbers that is not empty has a least one.
LEMMA Least ==
    ASSUME NEW I \in SUBSET Nat, I # {}
    PROVE  \E i \in I : \A j \in I : i =< j
<1>1. PICK i \in I : \A j \in I : ~(<<j, i>> \in Below)
  BY WFMin, BelowIsWellFounded
<1>2. \A j \in I : ~(j < i)
  BY <1>1 DEF Below
<1> QED
  BY SMT, <1>2

Rank(I, i) == Cardinality({j \in I : j =< i})

\* The finite sets of numbers of a size, each of whose ranks is taken.
Ranked(n) ==
    \A I \in SUBSET Nat : IsFiniteSet(I) /\ Cardinality(I) = n =>
      \A k \in 1..n : \E i \in I : Rank(I, i) = k

\* Each rank up to the size of a set of numbers is that of one of them.
LEMMA RanksAreTaken == \A n \in Nat : Ranked(n)
<1> DEFINE S == {n \in Nat : Ranked(n)}
<1>1. 0 \in S
  BY SMT DEF Ranked
<1>2. ASSUME NEW n \in S PROVE n + 1 \in S
  <2> SUFFICES ASSUME NEW I \in SUBSET Nat, IsFiniteSet(I), Cardinality(I) = n + 1,
                      NEW k \in 1..(n + 1)
               PROVE  \E i \in I : Rank(I, i) = k
    BY SMT DEF Ranked
  <2>1. I # {}
    BY SMT, FS_EmptySet
  <2>2. PICK l \in I : \A j \in I : l =< j
    BY <2>1, Least
  <2> DEFINE J == I \ {l}
  <2>3. J \in SUBSET Nat /\ IsFiniteSet(J) /\ Cardinality(J) = n
    <3>1. IsFiniteSet(J) /\ Cardinality(J) = (n + 1) - 1
      BY FS_RemoveElement
    <3> QED
      BY SMT, <3>1
  <2>4. CASE k = 1
    <3>1. \A j \in I : j =< l <=> j = l
      BY SMT, <2>2
    <3>2. {j \in I : j =< l} = {l}
      BY <3>1
    <3> QED
      BY <2>4, <3>2, FS_Singleton DEF Rank
  <2>5. CASE k # 1
    <3>1. k - 1 \in 1..n
      BY SMT, <2>5
    <3>2. PICK i \in J : Rank(J, i) = k - 1
      BY <2>3, <3>1 DEF Ranked
    <3> DEFINE B == {j \in J : j =< i}
    <3>3. {j \in I : j =< i} = B \cup {l} /\ l \notin B
      BY <2>2
    <3>4. IsFiniteSet(B) /\ Cardinality(B) = k - 1
      BY <2>3, <3>2, FS_Subset DEF Rank
    <3>5. Cardinality(B \cup {l}) = (k - 1) + 1
      BY <3>3, <3>4, FS_AddElement
    <3>6. Rank(I, i) = (k - 1) + 1
      BY <3>3, <3>5 DEF Rank
    <3> QED
      BY SMT, <3>6
  <2> QED
    BY <2>4, <2>5
<1>3. S = Nat
  <2> HIDE DEF S
  <2>1. S \in SUBSET Nat
    BY DEF S
  <2> QED
    BY <1>1, <1>2, <2>1, NatSetInduction
<1> QED
  BY <1>3

\* Every element of a selection is one of the sequence.
LEMMA ChosenIs ==
    ASSUME NEW s, NEW I \in SUBSET Nat, IsFiniteSet(I), NEW k \in 1..Cardinality(I)
    PROVE  \E i \in I : Chosen(s, I)[k] = s[i]
<1>1. Cardinality(I) \in Nat
  BY FS_CardinalityType
<1>2. \E i \in I : Rank(I, i) = k
  BY <1>1, RanksAreTaken DEF Ranked
<1>3. \E i \in I : Cardinality({j \in I : j =< i}) = k
  BY <1>2 DEF Rank
<1> QED
  BY <1>3 DEF Chosen

\* The repairs a read stages.
LEMMA RepairsAre ==
    ASSUME KeptInv, NEW c \in Reader, ResolveResponses(c)
    PROVE  /\ read[c].pc = "full" /\ DOMAIN read[c].versions = Range(read[c].contacted)
           /\ UNCHANGED <<vars, store, drain, acknowledged>> /\ Finish(c, "Ok", Merged(c))
           /\ \E new : /\ new \in Seq(Range(new)) /\ repairs' = repairs \o new
                       /\ staged' = staged \cup Range(new)
                       /\ \A m \in Range(new) :
                            /\ m.cell = Merged(c) /\ m.target \in DOMAIN read[c].versions
                            /\ read[c].versions[m.target] # Merged(c)
<1>1. /\ read[c].pc = "full" /\ DOMAIN read[c].versions = Range(read[c].contacted)
      /\ UNCHANGED <<vars, store, drain, acknowledged>> /\ Finish(c, "Ok", Merged(c))
  BY DEF ResolveResponses
<1> DEFINE stale == {i \in DOMAIN read[c].contacted :
                        read[c].versions[read[c].contacted[i]] # Merged(c)}
           new == [k \in 1..Cardinality(stale) |->
                     [from |-> c, target |-> Chosen(read[c].contacted, stale)[k], cell |-> Merged(c)]]
<1>2. repairs' = repairs \o new /\ staged' = staged \cup Range(new)
  BY DEF ResolveResponses
<1>3. IsFiniteSet(stale) /\ stale \subseteq Nat /\ Cardinality(stale) \in Nat
  <2>1. DOMAIN read[c].contacted = 1..Len(read[c].contacted) /\ Len(read[c].contacted) \in Nat
    BY SMT, <1>1 DEF KeptInv, ShapeInv, Asking
  <2>2. IsFiniteSet(DOMAIN read[c].contacted)
    BY SMT, <2>1, FS_Interval
  <2> QED
    BY SMT, <2>1, <2>2, FS_Subset, FS_CardinalityType
<1>4. new \in Seq(Range(new))
  <2> DEFINE n == Cardinality(stale)
  <2>1. DOMAIN new = 1..n /\ n \in Nat /\ new = [k \in 1..n |-> new[k]]
    BY <1>3
  <2> HIDE DEF new, n
  <2> QED
    BY SMT, <2>1 DEF Range
<1>5. ASSUME NEW k \in 1..Cardinality(stale)
      PROVE  /\ new[k].cell = Merged(c) /\ new[k].target \in Range(read[c].contacted)
             /\ read[c].versions[new[k].target] # Merged(c)
  <2> DEFINE t == Chosen(read[c].contacted, stale)[k]
  <2>1. \E i \in stale : t = read[c].contacted[i]
    <3> HIDE DEF stale
    <3> QED
      BY SMT, <1>3, ChosenIs
  <2>2. t \in Range(read[c].contacted) /\ read[c].versions[t] # Merged(c)
    BY <2>1 DEF Range
  <2>3. new[k].cell = Merged(c) /\ new[k].target = t
    OBVIOUS
  <2> HIDE DEF new, t
  <2> QED
    BY <2>2, <2>3
<1>6. \A m \in Range(new) : \E k \in 1..Cardinality(stale) : m = new[k]
  <2>1. DOMAIN new = 1..Cardinality(stale)
    OBVIOUS
  <2> HIDE DEF new, stale
  <2> QED
    BY <2>1 DEF Range
<1>7. \A m \in Range(new) :
        /\ m.cell = Merged(c) /\ m.target \in DOMAIN read[c].versions
        /\ read[c].versions[m.target] # Merged(c)
  <2> HIDE DEF new, stale
  <2> QED
    BY <1>1, <1>5, <1>6
<1> QED
  BY <1>1, <1>2, <1>4, <1>7

\* The replicas that wrote and those that answer meet when the levels overlap.
LEMMA QuorumsMeet ==
    ASSUME Requests \subseteq Known, WriteInv, KeptInv, NEW c \in Reader, Asking(c), Enough(c),
           Overlap(read[c].level), NEW W \in SUBSET written, Cardinality(W) >= Required
    PROVE  W \cap Range(read[c].contacted) # {}
<1> DEFINE level == read[c].level
           s == read[c].contacted
           U == PlanReplicas \cup Scope(level)
<1>1. /\ s \in Seq(Scope(level)) /\ IsInjective(s) /\ level \in ReadLevel
      /\ Len(s) >= RequiredReads(level)
  BY DEF KeptInv, ShapeInv, Enough
<1>2. /\ IsFiniteSet(U) /\ Required \in Nat /\ RequiredReads(level) \in Nat
      /\ written \subseteq PlanReplicas
  BY <1>1, PlanTypes, ScopeTypes, FS_Union DEF WriteInv, WriteTypes
<1>3. Range(s) \subseteq Scope(level)
  BY <1>1, RangeIn
<1>4. Cardinality(Range(s)) = Len(s) /\ Len(s) \in Nat
  <2>1. s \in [1..Len(s) -> Range(s)] /\ Len(s) \in Nat
    BY SMT, <1>1 DEF Range
  <2>2. s \in Bijection(1..Len(s), Range(s))
    BY <1>1, <2>1 DEF Bijection, Injection, Surjection, Range
  <2> QED
    BY <2>1, <2>2, FS_CountingElements DEF ExistsBijection
<1>5. SUFFICES ASSUME W \cap Range(s) = {} PROVE FALSE
  OBVIOUS
<1>6. W \in SUBSET U /\ Range(s) \in SUBSET U
  BY <1>2, <1>3
<1>7. Cardinality(W) \in Nat /\ Cardinality(Range(s)) \in Nat
      /\ Cardinality(W) + Cardinality(Range(s)) =< Cardinality(U) /\ Cardinality(U) \in Nat
  BY SMT, <1>2, <1>5, <1>6, DisjointFit, FS_CardinalityType
<1>8. Required + RequiredReads(level) > Cardinality(U)
  BY DEF Overlap
<1> HIDE DEF level, s, U
<1> QED
  BY SMT, <1>1, <1>2, <1>4, <1>7, <1>8

\* The write is among what a replica may hold.
LEMMA NewIsStored == NewCell \in Versions /\ Versions \subseteq Stored
BY DEF Stored, Versions

\* A merge, a repair and a response stay among what a replica may hold.
LEMMA MergeValues ==
    ASSUME kind \in {"value", "empty"}, NEW a \in Stored, NEW b \in Versions
    PROVE  /\ Live(a) \in Versions /\ Live(NewCell) = NewCell
           /\ OnTheWire(b) \in Stored /\ (b # NewCell => OnTheWire(b) = b)
           /\ MergeCell(a, b) \in Stored /\ MergeCell(a, OnTheWire(b)) \in Stored
           /\ MergeCell(NewCell, b) = NewCell
BY SMT DEF Stored, Versions, NewCell, NoCell, OldCell, Live, OnTheWire, MergeCell

\* A merge has the newer timestamp.
LEMMA MergeOrder ==
    ASSUME kind \in {"value", "empty"}, NEW a \in Versions, NEW b \in Versions
    PROVE  /\ MergeCell(a, NewCell) = NewCell
           /\ MergeCell(a, b) = a <=> b.ts =< a.ts
           /\ a.ts \in 0..2 /\ (a.ts = 2 <=> a = NewCell)
BY SMT DEF Versions, NewCell, NoCell, OldCell, MergeCell

\* A merged row is the write when one of the responses is.
LEMMA MergedIs ==
    ASSUME StoreInv, KeptInv, NEW c \in Reader, read[c].pc = "full", ValueInv(c),
           DOMAIN read[c].versions = Range(read[c].contacted)
    PROVE  /\ Merged(c) \in Versions
           /\ (\E r \in DOMAIN read[c].versions : read[c].versions[r] = NewCell) =>
                Merged(c) = NewCell
<1> DEFINE s == read[c].contacted
           version == [i \in DOMAIN s |-> read[c].versions[s[i]]]
           newest == {i \in DOMAIN version :
                        \A j \in DOMAIN version : MergeCell(version[i], version[j]) = version[i]}
           best == CHOOSE i \in newest : \A j \in newest : i =< j
<1>1. kind \in {"value", "empty"} /\ \A r \in Range(s) : read[c].versions[r] \in Versions
  BY DEF StoreInv, ValueInv, Asking
<1>2. DOMAIN s = 1..Len(s) /\ Len(s) \in Nat \ {0}
  BY SMT DEF KeptInv, ShapeInv, Asking
<1>3. \A i \in DOMAIN s : version[i] \in Versions
  BY <1>1 DEF Range
<1>4. DOMAIN version = DOMAIN s
  OBVIOUS
<1>5. Merged(c) = version[best]
  BY DEF Merged
<1> HIDE DEF version
<1>6. newest # {}
  <2>1. ASSUME NEW i \in DOMAIN s, \A j \in DOMAIN s : version[j].ts =< version[i].ts
        PROVE  newest # {}
    <3>1. \A j \in DOMAIN s : MergeCell(version[i], version[j]) = version[i]
      BY <1>1, <1>3, <2>1, MergeOrder
    <3> QED
      BY <1>4, <3>1
  <2>2. \A j \in DOMAIN s : version[j].ts \in 0..2
    BY <1>1, <1>3, MergeOrder
  <2> HIDE DEF newest
  <2>3. CASE \E i \in DOMAIN s : version[i].ts = 2
    BY SMT, <2>1, <2>2, <2>3
  <2>4. CASE \A i \in DOMAIN s : version[i].ts # 2
    <3>1. CASE \E i \in DOMAIN s : version[i].ts = 1
      BY SMT, <2>1, <2>2, <2>4, <3>1
    <3>2. CASE \A i \in DOMAIN s : version[i].ts # 1
      <4>1. 1 \in DOMAIN s /\ \A j \in DOMAIN s : version[j].ts = 0
        BY SMT, <1>2, <2>2, <2>4, <3>2
      <4> QED
        BY SMT, <2>1, <4>1
    <3> QED
      BY <3>1, <3>2
  <2> QED
    BY <2>3, <2>4
<1>7. newest \subseteq Nat
  BY SMT, <1>2, <1>4
<1>8. best \in newest
  BY <1>6, <1>7, Least
<1>9. best \in DOMAIN s /\ \A j \in DOMAIN s : MergeCell(version[best], version[j]) = version[best]
  BY <1>4, <1>8
<1> HIDE DEF best, newest
<1>10. version[best] \in Versions
  BY <1>3, <1>9
<1>11. ASSUME NEW r \in DOMAIN read[c].versions, read[c].versions[r] = NewCell
       PROVE  version[best] = NewCell
  <2>1. PICK j \in DOMAIN s : s[j] = r
    BY DEF Range
  <2>2. version[j] = NewCell
    BY <1>11, <2>1 DEF version
  <2>3. MergeCell(version[best], NewCell) = version[best]
    BY <1>9, <2>2
  <2> QED
    BY <1>1, <1>10, <2>3, MergeOrder, NewIsStored
<1> QED
  BY <1>5, <1>10, <1>11

\* The reads that have returned.
DoneInv(c) ==
    read[c].pc = "done" /\ read[c].result = "Ok" /\ read[c].written /\ Overlap(read[c].level)
      => read[c].data = Live(NewCell)

\* A read that does not move keeps its part of the invariant.
LEMMA OthersKeep ==
    ASSUME UNCHANGED <<request, kind>>, pc = "done" => pc' = "done" /\ result' = result,
           NEW d \in Reader, read'[d] = read[d], ValueInv(d), DoneInv(d)
    PROVE  /\ ValueInv(d)' /\ DoneInv(d)'
           /\ \A W : Seen(d, W) => Seen(d, W)'
<1>1. /\ Required' = Required /\ PlanReplicas' = PlanReplicas /\ NewCell' = NewCell
      /\ Versions' = Versions /\ Stored' = Stored /\ cl' = cl
  BY PlanIsFixed DEF NewCell, Versions, Stored
<1>2. Asking(d)' = Asking(d)
  BY DEF Asking
<1>3. ValueInv(d)'
  BY <1>1, <1>2 DEF ValueInv
<1>4. DoneInv(d)'
  BY <1>1 DEF DoneInv, Overlap
<1>5. \A W : Seen(d, W) => Seen(d, W)'
  BY <1>1 DEF Seen
<1> QED
  BY <1>3, <1>4, <1>5

\* The replicas' cells: those that keep the new one have it still.
StoreKept ==
    /\ StoreInv'
    /\ \A W \in SUBSET written : Spared(W) =>
         /\ \A r \in W : cells'[r] = NewCell
         /\ \A m \in staged' : m.cell = NewCell => m.target \notin W

\* A step of the write leaves the rows of replicas it has reached.
LEMMA WriteStepKeeps ==
    ASSUME Requests \subseteq Known, ReadInv, WriteStep
    PROVE  /\ StoreKept
           /\ pc # "done" => \A r \in written' : cells'[r] = NewCell
<1>1. /\ kind \in {"value", "empty"} /\ cells \in [Replica -> Stored] /\ UNCHANGED <<kind, staged>>
      /\ \A m \in staged : m.cell \in Versions
      /\ pc # "done" => /\ staged = {} /\ cells \in [Replica -> Versions]
                        /\ \A r \in written : cells[r] = NewCell
  BY DEF ReadInv, StoreInv, WriteStep, scheduler
<1>2. /\ written \subseteq written' /\ written' \subseteq Replica /\ (pc' # "done" => pc # "done")
      /\ cells' = [r \in Replica |->
                     IF r \in written' \ written THEN MergeCell(cells[r], NewCell) ELSE cells[r]]
  <2>1. WriteInv' /\ UNCHANGED request /\ WriteInv
    BY WriteInvNext, WriteGrows DEF ReadInv, WriteStep
  <2>2. written' \subseteq Replica
    BY <2>1, PlanTypes, PlanIsFixed DEF WriteInv, WriteTypes, request
  <2> QED
    BY <2>2, WriteGrows, WriteEnds DEF WriteStep
<1>3. NewCell' = NewCell /\ Versions' = Versions /\ Stored' = Stored
  BY <1>1 DEF NewCell, Versions, Stored
<1>4. ASSUME NEW r \in Replica
      PROVE  /\ cells'[r] \in Stored
             /\ pc # "done" => cells'[r] \in Versions /\ (r \in written' => cells'[r] = NewCell)
  <2>1. CASE r \in written' \ written
    <3>1. cells'[r] = MergeCell(cells[r], NewCell) /\ cells[r] \in Stored /\ NewCell \in Versions
      BY <1>1, <1>2, <2>1, NewIsStored
    <3> QED
      BY SMT, <1>1, <2>1, <3>1, MergeValues, MergeOrder, NewIsStored
  <2>2. CASE r \notin written' \ written
    BY <1>1, <1>2, <2>2
  <2> QED
    BY <2>1, <2>2
<1>5. StoreInv'
  BY <1>1, <1>2, <1>3, <1>4 DEF StoreInv
<1>6. ASSUME NEW W \in SUBSET written, Spared(W), NEW r \in W PROVE cells'[r] = NewCell
  BY <1>2, <1>6 DEF Spared
<1>7. StoreKept
  BY <1>1, <1>5, <1>6 DEF StoreKept, Spared
<1> QED
  BY <1>2, <1>4, <1>7

\* A cell that a mutation or a repair reaches.
LEMMA MergeKeeps ==
    ASSUME ReadInv, pc = "done", UNCHANGED <<vars, kind, staged>>,
           NEW r, NEW b \in Versions, NEW new, new = b \/ new = OnTheWire(b),
           cells' = [cells EXCEPT ![r] = MergeCell(@, new)],
           new = b \/ b # NewCell \/ \A W \in SUBSET written : Spared(W) => r \notin W
    PROVE  StoreKept
<1>1. /\ kind \in {"value", "empty"} /\ cells \in [Replica -> Stored] /\ pc' = "done"
      /\ \A m \in staged : m.cell \in Versions
  BY DEF ReadInv, StoreInv, vars
<1>2. NewCell' = NewCell /\ Versions' = Versions /\ Stored' = Stored
  BY DEF NewCell, Versions, Stored
<1>3. r \in Replica => MergeCell(cells[r], new) \in Stored
  BY <1>1, MergeValues
<1>4. cells' \in [Replica -> Stored]
  BY <1>1, <1>3
<1>5. StoreInv'
  BY <1>1, <1>2, <1>4 DEF StoreInv
<1>6. ASSUME NEW W \in SUBSET written, Spared(W), NEW x \in W PROVE cells'[x] = NewCell
  <2>1. cells[x] = NewCell
    BY <1>6 DEF Spared
  <2>2. CASE x # r
    BY SMT, <1>1, <2>1, <2>2
  <2>3. CASE x = r /\ new = b
    <3>1. MergeCell(cells[r], new) = NewCell
      BY <1>1, <2>1, <2>3, MergeValues, NewIsStored
    <3> QED
      BY <1>1, <2>1, <2>3, <3>1
  <2>4. CASE x = r /\ new # b
    <3>1. new = OnTheWire(b) /\ b = NewCell
      BY <1>1, <1>6, <2>1, <2>4, MergeValues, NewIsStored
    <3> QED
      BY <1>6, <2>4, <3>1
  <2> QED
    BY <2>2, <2>3, <2>4
<1> QED
  BY <1>5, <1>6 DEF StoreKept, Spared

\* All steps but the end of a read, which stages its repairs.
LEMMA StoreSteps ==
    ASSUME Requests \subseteq Known, ReadInv, [ReadNext]_allVars
    PROVE  /\ StoreKept \/ \E c \in Reader : ResolveResponses(c)
           /\ UNCHANGED <<request, kind>> /\ written \subseteq written'
           /\ pc = "done" => pc' = "done" /\ result' = result
<1>1. ASSUME UNCHANGED <<vars, kind>>
      PROVE  /\ UNCHANGED <<request, kind>> /\ written \subseteq written'
             /\ pc = "done" => pc' = "done" /\ result' = result
  BY <1>1 DEF vars
<1>2. ASSUME UNCHANGED <<vars, store, staged>> PROVE StoreKept
  <2>1. UNCHANGED <<vars, cells, kind, staged>> /\ NewCell' = NewCell
        /\ Versions' = Versions /\ Stored' = Stored
    BY <1>2 DEF store, NewCell, Versions, Stored
  <2>2. StoreInv'
    BY <2>1 DEF ReadInv, StoreInv, vars
  <2> QED
    BY <2>1, <2>2 DEF StoreKept, Spared
<1>3. CASE WriteStep
  BY <1>3, WriteStepKeeps, WriteGrows, WriteEnds DEF WriteStep
<1>4. ASSUME NEW r \in Replica, ApplyUnanswered(r) PROVE StoreKept /\ UNCHANGED <<vars, kind>>
  BY <1>4, MergeKeeps, NewIsStored DEF ApplyUnanswered, scheduler
<1>5. CASE SendRepair
  <2> DEFINE m == Head(drain.batch)
  <2>1. m \in staged
    BY <1>5, TailRange DEF SendRepair, ReadInv, KeptInv, QueueInv
  <2>2. m.cell \in Versions /\ pc = "done"
    BY <2>1 DEF ReadInv, StoreInv
  <2>3. UNCHANGED <<vars, kind, staged>>
        /\ (cells' = cells \/ cells' = [cells EXCEPT ![m.target] = MergeCell(@, OnTheWire(m.cell))])
    BY <1>5 DEF SendRepair, Repaired
  <2>4. m.cell # NewCell \/ \A W \in SUBSET written : Spared(W) => m.target \notin W
    BY <2>1 DEF Spared
  <2>5. StoreKept
    BY <1>2, <2>2, <2>3, <2>4, MergeKeeps DEF store
  <2> QED
    BY <1>1, <2>3, <2>5
<1>6. ASSUME NEW c \in Reader, PlanRead(c) \/ DataRequest(c) \/ DigestRequest(c)
                                 \/ CompareDigests(c) \/ FullRequest(c)
      PROVE  UNCHANGED <<vars, store, staged>>
  BY <1>6 DEF PlanRead, DataRequest, DigestRequest, CompareDigests, FullRequest, scheduler
<1>7. ASSUME DrainTake \/ DrainEnd \/ UNCHANGED allVars PROVE UNCHANGED <<vars, store, staged>>
  BY <1>7 DEF DrainTake, DrainEnd, allVars, scheduler
<1>8. ASSUME NEW c \in Reader, ResolveResponses(c) PROVE UNCHANGED <<vars, kind>>
  BY <1>8 DEF ResolveResponses, store
<1>9. UNCHANGED <<vars, store, staged>> => UNCHANGED <<vars, kind>>
  BY DEF store
<1> QED
  BY <1>1, <1>2, <1>3, <1>4, <1>5, <1>6, <1>7, <1>8, <1>9 DEF ReadNext, Fetch

\* What a step of a read, which leaves the write and the replicas alone, has to keep.
Keeps(c) ==
    /\ ValueInv(c)' /\ DoneInv(c)'
    /\ \A W \in SUBSET written : Spared(W) => Seen(c, W)'

\* A step of a read changes neither the rows nor the write.
LEMMA ReadFixed ==
    ASSUME UNCHANGED <<vars, store>>
    PROVE  /\ cells' = cells /\ Required' = Required /\ UNCHANGED <<pc, result, cl>>
           /\ NewCell' = NewCell /\ PlanReplicas' = PlanReplicas
           /\ Versions' = Versions /\ Stored' = Stored
BY PlanIsFixed DEF vars, store, request, NewCell, Versions, Stored

\* A read that starts behind the answer has heard nothing yet that could be stale.
LEMMA PlanKeeps ==
    ASSUME Requests \subseteq Known, \A q \in Reads : q.request[2] # "Any",
           ReadInv, NEW c \in Reader, PlanRead(c)
    PROVE  Keeps(c) /\ \A d \in Reader \ {c} : read'[d] = read[d]
<1>1. KeptInv /\ UNCHANGED <<vars, store>> /\ pc = "done"
  BY DEF ReadInv, PlanRead
<1>2. PICK q \in Reads : q.request = <<path, cl>> /\
        \/ \E n \in {0, 1} : \E order \in [1 .. RequiredReads(q.level) + n -> Scope(q.level)] :
              read' = [read EXCEPT ![c] = Plan(q, order)]
        \/ read' = [read EXCEPT ![c] = Returned(Begin(q), "Unavailable", NoCell)]
  BY DEF PlanRead
<1>3. cl # "Any"
  BY SMT, <1>2
<1>4. CASE read' = [read EXCEPT ![c] = Returned(Begin(q), "Unavailable", NoCell)]
  <2>1. /\ DOMAIN read' = Reader /\ read'[c] = Returned(Begin(q), "Unavailable", NoCell)
        /\ \A d \in Reader \ {c} : read'[d] = read[d]
    BY <1>1, <1>4, OneRead DEF KeptInv
  <2>2. /\ read'[c].pc = "done" /\ read'[c].result = "Unavailable"
        /\ read'[c].written = (result = "Ok")
    BY SMT, <2>1 DEF Returned, Begin
  <2> QED
    BY <1>1, <1>3, <2>1, <2>2, ReadFixed DEF Keeps, ValueInv, Seen, DoneInv, Asking
<1>5. ASSUME NEW n \in {0, 1}, NEW order \in [1 .. RequiredReads(q.level) + n -> Scope(q.level)],
             read' = [read EXCEPT ![c] = Plan(q, order)]
      PROVE  Keeps(c) /\ \A d \in Reader \ {c} : read'[d] = read[d]
  <2>1. /\ \A d \in Reader \ {c} : read'[d] = read[d]
        /\ read'[c].pc = "data" /\ read'[c].written = (result = "Ok")
        /\ read'[c].digest = NoCell /\ read'[c].data = NoCell /\ read'[c].mismatch = FALSE
    BY <1>1, <1>5, PlanShape
  <2>2. NoCell \in Stored /\ Live(NoCell) = NoCell
    BY DEF Stored, Versions, Live, NoCell
  <2>3. ValueInv(c)' /\ DoneInv(c)'
    BY <1>1, <1>3, <2>1, <2>2, ReadFixed DEF ValueInv, DoneInv
  <2> QED
    BY <2>1, <2>3 DEF Keeps, Seen
<1> QED
  BY <1>2, <1>4, <1>5

\* A read under way began after the write, and not after one at ANY.
LEMMA ReadsAreLate ==
    ASSUME ReadInv, NEW c \in Reader, Asking(c)
    PROVE  /\ pc = "done" /\ cl # "Any" /\ kind \in {"value", "empty"}
           /\ read[c].written => \E W \in SUBSET written : Spared(W)
<1>1. ValueInv(c) /\ read[c].pc # "idle"
  BY DEF ReadInv, Asking
<1> QED
  BY <1>1 DEF ReadInv, ValueInv, WitnessInv, StoreInv

\* A request that fails adds nothing to what the read has heard.
LEMMA FailKeeps ==
    ASSUME ReadInv, NEW c \in Reader, Asking(c), NEW r, Fails(c, r), UNCHANGED <<vars, store>>
    PROVE  Keeps(c) /\ \A d \in Reader \ {c} : read'[d] = read[d]
<1>1. /\ SamePlan(c) /\ KeptInv
      /\ \A f \in ReadField \ {"failed"} : read'[c][f] = read[c][f]
  BY FailsKeeps DEF ReadInv
<1>2. /\ read'[c].pc = read[c].pc /\ read'[c].contacted = read[c].contacted
      /\ read'[c].digest = read[c].digest /\ read'[c].data = read[c].data
      /\ read'[c].mismatch = read[c].mismatch /\ read'[c].versions = read[c].versions
      /\ read'[c].written = read[c].written
  BY <1>1 DEF ReadField
<1>3. ValueInv(c)'
  BY <1>2, ReadFixed DEF ReadInv, ValueInv, Asking
<1>4. DoneInv(c)'
  BY <1>2 DEF DoneInv, Asking
<1>5. ASSUME NEW W, Spared(W) PROVE Seen(c, W)'
  BY SMT, <1>2, <1>5, ReadFixed DEF Seen, Spared
<1> QED
  BY <1>1, <1>3, <1>4, <1>5 DEF Keeps, SamePlan

\* A read that returns nothing has nothing to keep, one that returns Ok the cell.
LEMMA FinishKeeps ==
    ASSUME ReadInv, NEW c \in Reader, Asking(c), NEW outcome, NEW cell, Finish(c, outcome, cell),
           UNCHANGED <<vars, store>>,
           outcome = "Ok" /\ read[c].written /\ Overlap(read[c].level) => cell = NewCell
    PROVE  Keeps(c) /\ \A d \in Reader \ {c} : read'[d] = read[d]
<1>1. /\ read'[c].pc = "done" /\ read'[c].data = cell /\ read'[c].result = outcome
      /\ read'[c].written = read[c].written /\ read'[c].level = read[c].level
      /\ \A d \in Reader \ {c} : read'[d] = read[d]
  BY SMT, FinishShape DEF ReadInv
<1>2. /\ pc = "done" /\ cl # "Any" /\ kind \in {"value", "empty"}
      /\ ValueInv(c) /\ read[c].pc # "idle" /\ Live(NewCell) = NewCell
  BY ReadsAreLate, MergeValues, NewIsStored DEF ReadInv, Asking
<1>3. Live(NewCell)' = NewCell
  BY <1>2, ReadFixed DEF Live
<1>4. DoneInv(c)'
  BY <1>1, <1>3, ReadFixed DEF DoneInv, Overlap
<1>5. ValueInv(c)'
  BY <1>1, <1>2, ReadFixed DEF ValueInv, Asking
<1> QED
  BY <1>1, <1>4, <1>5 DEF Keeps, Seen

\* Data from a replica that has the write is the write.
LEMMA DataKeeps ==
    ASSUME ReadInv, NEW c \in Reader, DataRequest(c)
    PROVE  Keeps(c) /\ \A d \in Reader \ {c} : read'[d] = read[d]
<1>1. KeptInv /\ read[c].pc = "data" /\ UNCHANGED <<vars, store>> /\ Asking(c) /\ ValueInv(c)
  BY DEF ReadInv, DataRequest, Asking
<1>2. ASSUME NEW r \in Scope(read[c].level),
             read' = [read EXCEPT ![c].pc = "digest", ![c].contacted = <<r>>,
                                  ![c].digest = cells[r], ![c].data = Live(cells[r])]
      PROVE  Keeps(c) /\ \A d \in Reader \ {c} : read'[d] = read[d]
  <2>1. /\ SamePlan(c) /\ read'[c].pc = "digest" /\ read'[c].contacted = <<r>>
        /\ read'[c].digest = cells[r] /\ read'[c].data = Live(cells[r])
        /\ read'[c].mismatch = read[c].mismatch
    BY <1>1, <1>2, ReadDataShape
  <2>2. read'[c].written = read[c].written
    BY <2>1, PlanFields
  <2>3. cells[r] \in Stored /\ read[c].mismatch \in BOOLEAN
    BY <1>1 DEF Scope, InDc, ReadInv, StoreInv, ValueInv
  <2>4. Live(read[c].digest)' = Live(cells[r])
    BY <2>1 DEF Live
  <2>5. ValueInv(c)'
    BY <1>1, <2>1, <2>2, <2>3, <2>4, ReadFixed DEF ValueInv
  <2>6. Range(<<r>>) = {r}
    BY SMT DEF Range
  <2>7. ASSUME NEW W, Spared(W) PROVE Seen(c, W)'
    BY <1>1, <2>1, <2>6, <2>7, ReadFixed DEF Spared, Seen
  <2> QED
    BY <2>1, <2>5, <2>7 DEF Keeps, SamePlan, DoneInv
<1> QED
  BY <1>1, <1>2, DataSteps, FailKeeps, FinishKeeps

\* A digest of a replica that has the write shows in the mismatch, or the data has it.
LEMMA DigestKeeps ==
    ASSUME ReadInv, NEW c \in Reader, DigestRequest(c)
    PROVE  Keeps(c) /\ \A d \in Reader \ {c} : read'[d] = read[d]
<1>1. KeptInv /\ read[c].pc = "digest" /\ UNCHANGED <<vars, store>> /\ Asking(c) /\ ValueInv(c)
  BY DEF ReadInv, DigestRequest, Asking
<1>2. ASSUME NEW r \in Scope(read[c].level) \ Range(read[c].contacted),
             read' = [read EXCEPT ![c].contacted = Append(@, r),
                                  ![c].mismatch = @ \/ cells[r] # read[c].digest]
      PROVE  Keeps(c) /\ \A d \in Reader \ {c} : read'[d] = read[d]
  <2>1. /\ SamePlan(c) /\ read'[c].pc = "digest"
        /\ read'[c].contacted = Append(read[c].contacted, r)
        /\ read'[c].mismatch = (read[c].mismatch \/ cells[r] # read[c].digest)
        /\ read'[c].digest = read[c].digest /\ read'[c].data = read[c].data
    BY <1>1, <1>2, ReadDigestShape
  <2>2. read'[c].written = read[c].written
    BY <2>1, PlanFields
  <2>3. read[c].mismatch \in BOOLEAN /\ Live(read[c].digest)' = Live(read'[c].digest)
    BY <1>1, <2>1 DEF ValueInv, Live
  <2>4. ValueInv(c)'
    BY <1>1, <2>1, <2>2, <2>3, ReadFixed DEF ValueInv
  <2>5. /\ Range(Append(read[c].contacted, r)) = Range(read[c].contacted) \cup {r}
        /\ Append(read[c].contacted, r)[1] = read[c].contacted[1]
        /\ r # read[c].contacted[1]
    <3>1. read[c].contacted \in Seq(Scope(read[c].level)) /\ read[c].contacted # <<>>
      BY <1>1 DEF KeptInv, ShapeInv
    <3>2. DOMAIN read[c].contacted = 1..Len(read[c].contacted) /\ Len(read[c].contacted) \in Nat \ {0}
      BY SMT, <3>1
    <3>3. read[c].contacted[1] \in Range(read[c].contacted)
      BY SMT, <3>2 DEF Range
    <3> QED
      BY SMT, <3>1, <3>2, <3>3, AppendRange
  <2>6. ASSUME NEW W, Spared(W) PROVE Seen(c, W)'
    <3>1. /\ \A s \in W : cells[s] = NewCell
          /\ \A s \in W \cap Range(read[c].contacted) :
               /\ s = read[c].contacted[1] => read[c].digest = NewCell
               /\ read[c].mismatch \/ read[c].digest = NewCell
      BY <1>1, <2>6 DEF Spared, Seen
    <3>2. ASSUME NEW s \in W \cap (Range(read[c].contacted) \cup {r})
          PROVE  /\ s = read[c].contacted[1] => read[c].digest = NewCell
                 /\ (read[c].mismatch \/ cells[r] # read[c].digest) \/ read[c].digest = NewCell
      BY <2>5, <3>1
    <3> QED
      BY <1>1, <2>1, <2>5, <3>2, ReadFixed DEF Seen
  <2> QED
    BY <2>1, <2>4, <2>6 DEF Keeps, SamePlan, DoneInv
<1> QED
  BY <1>1, <1>2, DigestSteps, FailKeeps

\* Digests that agree, from as many replicas as the read waits for, are digests of the write.
LEMMA CompareKeeps ==
    ASSUME Requests \subseteq Known, ReadInv, NEW c \in Reader, CompareDigests(c)
    PROVE  Keeps(c) /\ \A d \in Reader \ {c} : read'[d] = read[d]
<1>1. /\ KeptInv /\ WriteInv /\ read[c].pc = "digest" /\ UNCHANGED <<vars, store>> /\ Asking(c)
      /\ ValueInv(c) /\ read[c].data = Live(read[c].digest)
      /\ read[c].digest \in Stored /\ kind \in {"value", "empty"}
  BY DEF ReadInv, CompareDigests, Asking, ValueInv, StoreInv
<1>2. CASE Finish(c, "ReadFailure", NoCell)
  BY <1>1, <1>2, FinishKeeps
<1>3. CASE Enough(c) /\ ~read[c].mismatch /\ Finish(c, "Ok", read[c].data)
  <2>1. ASSUME read[c].written, Overlap(read[c].level) PROVE read[c].data = NewCell
    <3>1. PICK W \in SUBSET written : Spared(W)
      BY <1>1, <2>1, ReadsAreLate
    <3>2. /\ Cardinality(W) >= Required
          /\ \A s \in W \cap Range(read[c].contacted) :
               read[c].mismatch \/ read[c].digest = NewCell
      BY <1>1, <3>1 DEF Spared, Seen
    <3>3. W \cap Range(read[c].contacted) # {}
      BY <1>1, <1>3, <2>1, <3>2, QuorumsMeet
    <3>4. read[c].digest = NewCell
      BY <1>3, <3>2, <3>3
    <3> QED
      BY <1>1, <3>4, MergeValues, NewIsStored
  <2> QED
    BY <1>1, <1>3, <2>1, FinishKeeps
<1>4. CASE Enough(c) /\ read' = [read EXCEPT ![c].pc = "full",
                           ![c].versions = [r \in {read[c].contacted[1]} |-> read[c].data]]
  <2>1. /\ SamePlan(c) /\ read'[c].pc = "full" /\ read'[c].contacted = read[c].contacted
        /\ DOMAIN read'[c].versions = {read[c].contacted[1]}
        /\ read'[c].versions[read[c].contacted[1]] = read[c].data
        /\ read'[c].digest = read[c].digest /\ read'[c].data = read[c].data
        /\ read'[c].mismatch = read[c].mismatch
    BY <1>1, <1>4, MismatchShape
  <2>2. read'[c].written = read[c].written
    BY <2>1, PlanFields
  <2>3. /\ read[c].data \in Versions /\ Live(read[c].digest)' = Live(read'[c].digest)
        /\ Live(NewCell) = NewCell
    BY <1>1, <2>1, MergeValues, NewIsStored DEF Live
  <2>4. ValueInv(c)'
    BY <1>1, <2>1, <2>2, <2>3, ReadFixed DEF ValueInv
  <2>5. read[c].contacted[1] \in Range(read[c].contacted)
    <3>1. read[c].contacted \in Seq(Scope(read[c].level)) /\ read[c].contacted # <<>>
      BY <1>1 DEF KeptInv, ShapeInv
    <3> QED
      BY SMT, <3>1 DEF Range
  <2>6. ASSUME NEW W, Spared(W) PROVE Seen(c, W)'
    <3>1. \A s \in W \cap Range(read[c].contacted) :
            s = read[c].contacted[1] => read[c].digest = NewCell
      BY <1>1, <2>6 DEF Spared, Seen
    <3>2. \A s \in W \cap DOMAIN read'[c].versions : read'[c].versions[s] = NewCell
      BY <1>1, <2>1, <2>3, <2>5, <3>1
    <3> QED
      BY <1>1, <2>1, <3>2, ReadFixed DEF Seen
  <2> QED
    BY <2>1, <2>4, <2>6 DEF Keeps, SamePlan, DoneInv
<1> QED
  BY <1>2, <1>3, <1>4 DEF CompareDigests

\* So is a full response of one.
LEMMA FullKeeps ==
    ASSUME ReadInv, NEW c \in Reader, FullRequest(c)
    PROVE  Keeps(c) /\ \A d \in Reader \ {c} : read'[d] = read[d]
<1>1. /\ KeptInv /\ read[c].pc = "full" /\ UNCHANGED <<vars, store>> /\ Asking(c) /\ ValueInv(c)
      /\ kind \in {"value", "empty"}
  BY DEF ReadInv, FullRequest, Asking, StoreInv
<1>2. ASSUME NEW r \in Range(read[c].contacted) \ DOMAIN read[c].versions,
             read' = [read EXCEPT ![c].versions =
                        [s \in DOMAIN @ \cup {r} |-> IF s = r THEN Live(cells[r]) ELSE @[s]]]
      PROVE  Keeps(c) /\ \A d \in Reader \ {c} : read'[d] = read[d]
  <2>1. /\ SamePlan(c) /\ read'[c].pc = "full" /\ read'[c].contacted = read[c].contacted
        /\ DOMAIN read'[c].versions = DOMAIN read[c].versions \cup {r}
        /\ read'[c].versions[r] = Live(cells[r])
        /\ \A s \in DOMAIN read[c].versions : read'[c].versions[s] = read[c].versions[s]
        /\ read'[c].digest = read[c].digest /\ read'[c].data = read[c].data
        /\ read'[c].mismatch = read[c].mismatch
    BY <1>1, <1>2, FullShape
  <2>2. read'[c].written = read[c].written
    BY <2>1, PlanFields
  <2>3. r \in Replica
    <3>1. read[c].contacted \in Seq(Scope(read[c].level))
      BY <1>1 DEF KeptInv, ShapeInv
    <3> QED
      BY <3>1, RangeIn DEF Scope, InDc
  <2>4. Live(cells[r]) \in Versions /\ Live(NewCell) = NewCell
        /\ Live(read[c].digest)' = Live(read'[c].digest)
    BY <1>1, <2>1, <2>3, MergeValues, NewIsStored DEF ReadInv, StoreInv, Live
  <2>5. ValueInv(c)'
    BY <1>1, <2>1, <2>2, <2>4, ReadFixed DEF ValueInv
  <2>6. ASSUME NEW W, Spared(W) PROVE Seen(c, W)'
    <3>1. /\ \A s \in W : cells[s] = NewCell
          /\ \A s \in W \cap DOMAIN read[c].versions : read[c].versions[s] = NewCell
      BY <1>1, <2>6 DEF Spared, Seen
    <3>2. \A s \in W \cap DOMAIN read'[c].versions : read'[c].versions[s] = NewCell
      BY <2>1, <2>4, <3>1
    <3> QED
      BY <1>1, <2>1, <3>2, ReadFixed DEF Seen
  <2> QED
    BY <2>1, <2>5, <2>6 DEF Keeps, SamePlan, DoneInv
<1> QED
  BY <1>1, <1>2, FullSteps, FinishKeeps

\* The version of the write replaces all others; no replica that has it is repaired.
LEMMA ResolveKeeps ==
    ASSUME Requests \subseteq Known, ReadInv, NEW c \in Reader, ResolveResponses(c)
    PROVE  Keeps(c) /\ StoreKept /\ \A d \in Reader \ {c} : read'[d] = read[d]
<1>1. /\ KeptInv /\ WriteInv /\ StoreInv /\ ValueInv(c) /\ kind \in {"value", "empty"}
      /\ read[c].pc = "full" /\ Asking(c)
      /\ DOMAIN read[c].versions = Range(read[c].contacted)
      /\ UNCHANGED <<vars, store>> /\ Finish(c, "Ok", Merged(c))
  BY RepairsAre DEF ReadInv, Asking, StoreInv
<1>2. /\ Merged(c) \in Versions
      /\ (\E r \in DOMAIN read[c].versions : read[c].versions[r] = NewCell) => Merged(c) = NewCell
  BY <1>1, MergedIs
<1>3. ASSUME NEW m \in staged'
      PROVE  \/ m \in staged
             \/ /\ m.cell = Merged(c) /\ m.target \in DOMAIN read[c].versions
                /\ read[c].versions[m.target] # Merged(c)
  <2>1. PICK new : /\ staged' = staged \cup Range(new)
                   /\ \A x \in Range(new) :
                        /\ x.cell = Merged(c) /\ x.target \in DOMAIN read[c].versions
                        /\ read[c].versions[x.target] # Merged(c)
    BY <1>1, RepairsAre
  <2> QED
    BY <2>1
<1>4. StoreInv'
  <2>1. \A m \in staged' : m.cell \in Versions
    BY <1>1, <1>2, <1>3 DEF StoreInv
  <2>2. pc' = "done"
    BY <1>1, ReadsAreLate, ReadFixed
  <2> QED
    BY <1>1, <2>1, <2>2, ReadFixed DEF StoreInv, store
<1>5. ASSUME NEW W \in SUBSET written, Spared(W)
      PROVE  /\ \A r \in W : cells'[r] = NewCell
             /\ \A m \in staged' : m.cell = NewCell => m.target \notin W
  <2>1. \A r \in W \cap DOMAIN read[c].versions : read[c].versions[r] = NewCell
    BY <1>1, <1>5 DEF Spared, Seen
  <2>2. ASSUME NEW m \in staged', m.cell = NewCell PROVE m.target \notin W
    BY <1>3, <1>5, <2>1, <2>2 DEF Spared
  <2> QED
    BY <1>1, <1>5, <2>2, ReadFixed DEF Spared
<1>6. ASSUME read[c].written, Overlap(read[c].level) PROVE Merged(c) = NewCell
  <2>1. PICK W \in SUBSET written : Spared(W)
    BY <1>1, <1>6, ReadsAreLate
  <2>2. /\ Cardinality(W) >= Required
        /\ \A r \in W \cap DOMAIN read[c].versions : read[c].versions[r] = NewCell
    BY <1>1, <2>1 DEF Spared, Seen
  <2>3. Enough(c)
    BY <1>1 DEF KeptInv, ShapeInv, Enough
  <2>4. W \cap Range(read[c].contacted) # {}
    BY <1>1, <1>6, <2>2, <2>3, QuorumsMeet
  <2> QED
    BY <1>1, <1>2, <2>2, <2>4
<1>7. Keeps(c) /\ \A d \in Reader \ {c} : read'[d] = read[d]
  BY <1>1, <1>6, FinishKeeps
<1> QED
  BY <1>4, <1>5, <1>7 DEF StoreKept

\* Before the write and the reads the invariant holds.
LEMMA ReadInvInit ==
    ASSUME Requests \subseteq Known, Kinds \subseteq {"value", "empty"}, ReadInit
    PROVE  ReadInv
<1>1. WriteInv /\ KeptInv /\ pc = "plan" /\ result = "none"
  BY WriteInvInit, KeptInvInit DEF ReadInit, Init
<1>2. /\ kind \in {"value", "empty"} /\ cells \in [Replica -> {NoCell, OldCell}]
      /\ written = {} /\ staged = {}
  BY ReadAssumption DEF ReadInit, Init
<1>3. cells \in [Replica -> Stored] /\ cells \in [Replica -> Versions]
  BY <1>2 DEF Stored, Versions
<1>4. \A c \in Reader : read[c].pc = "idle"
  BY DEF ReadInit, IdleRead
<1> QED
  BY <1>1, <1>2, <1>3, <1>4 DEF ReadInv, StoreInv, WitnessInv, ReadsTheWrite, ValueInv, Asking

\* Every step of a write, a read or the drain keeps the invariant.
LEMMA ReadInvNext ==
    ASSUME Requests \subseteq Known, \A q \in Reads : q.request[2] # "Any",
           ReadInv, [ReadNext]_allVars
    PROVE  ReadInv'
<1>1. /\ \A d \in Reader : ValueInv(d) /\ DoneInv(d)
      /\ UNCHANGED <<request, kind>> /\ written \subseteq written'
      /\ pc = "done" => pc' = "done" /\ result' = result
  BY StoreSteps DEF ReadInv, ReadsTheWrite, DoneInv
<1>2. ASSUME NEW c, \A d \in Reader \ {c} : read'[d] = read[d], c \in Reader => Keeps(c)
      PROVE  \A d \in Reader : Keeps(d)
  <2>1. ASSUME NEW d \in Reader, d # c PROVE Keeps(d)
    BY <1>1, <1>2, <2>1, OthersKeep DEF Keeps, Spared
  <2> QED
    BY <1>2, <2>1
<1>3. ASSUME UNCHANGED read PROVE \A d \in Reader : Keeps(d)
  BY <1>1, <1>3, OthersKeep DEF Keeps, Spared
<1>4. ASSUME NEW c \in Reader, PlanRead(c) \/ Fetch(c) PROVE \A d \in Reader : Keeps(d)
  BY <1>2, <1>4, PlanKeeps, DataKeeps, DigestKeeps, CompareKeeps, FullKeeps, ResolveKeeps DEF Fetch
<1>5. \A d \in Reader : Keeps(d)
  BY <1>3, <1>4 DEF ReadNext, WriteStep, ApplyUnanswered, DrainTake, SendRepair, DrainEnd, allVars
<1>6. StoreKept
  BY StoreSteps, ResolveKeeps
<1>7. /\ WriteStep \/ UNCHANGED vars
      /\ [Next]_vars
  BY DEF ReadNext, WriteStep, ApplyUnanswered, PlanRead, Fetch, DataRequest, DigestRequest,
         CompareDigests, FullRequest, ResolveResponses, DrainTake, SendRepair, DrainEnd, allVars
<1>8. WriteInv'
  BY <1>7, WriteInvNext DEF ReadInv
<1>9. KeptInv'
  BY KeptInvNext DEF ReadInv
<1>10. WitnessInv'
  <2> SUFFICES ASSUME result' = "Ok", cl' # "Any" PROVE \E W \in SUBSET written' : Spared(W)'
    BY DEF WitnessInv
  <2>1. cl' = cl /\ Required' = Required /\ NewCell' = NewCell
    BY <1>1, PlanIsFixed DEF NewCell
  <2>2. CASE pc = "done"
    <3>1. PICK W \in SUBSET written : Spared(W)
      BY <1>1, <2>1, <2>2 DEF ReadInv, WitnessInv
    <3>2. /\ Cardinality(W) >= Required /\ \A c \in Reader : Seen(c, W)'
          /\ \A r \in W : cells'[r] = NewCell
          /\ \A m \in staged' : m.cell = NewCell => m.target \notin W
      BY <1>5, <1>6, <3>1 DEF Keeps, StoreKept, Spared
    <3> QED
      BY <1>1, <2>1, <3>1, <3>2 DEF Spared
  <2>3. CASE pc # "done"
    <3>1. result = "none"
      BY <2>3 DEF ReadInv, WriteInv, CallerInv
    <3>2. WriteStep
      BY <1>7, <3>1 DEF vars
    <3>3. staged' = {} /\ \A c \in Reader : read'[c].pc = "idle"
      BY <1>1, <2>3, <3>2 DEF WriteStep, scheduler, ReadInv, StoreInv, ValueInv
    <3>4. \A r \in written' : cells'[r] = NewCell
      BY <2>3, <3>2, WriteStepKeeps
    <3>5. Cardinality(written') >= Required'
      BY <1>8 DEF WriteInv, CallerInv
    <3>6. Spared(written)'
      BY <2>1, <3>3, <3>4, <3>5 DEF Spared, Seen
    <3> QED
      BY <3>6
  <2> QED
    BY <2>2, <2>3
<1> QED
  BY <1>5, <1>6, <1>8, <1>9, <1>10 DEF ReadInv, Keeps, StoreKept, ReadsTheWrite, DoneInv

\* The write of a read's specification is a write.
LEMMA ReadsWrite == ReadSpec => Spec
<1>1. ReadInit => Init
  BY DEF ReadInit
<1>2. [ReadNext]_allVars => [Next]_vars
  BY DEF ReadNext, allVars, WriteStep, ApplyUnanswered, PlanRead, Fetch, DataRequest, DigestRequest,
         CompareDigests, FullRequest, ResolveResponses, DrainTake, SendRepair, DrainEnd
<1> QED
  BY <1>1, <1>2, PTL DEF ReadSpec, Spec

\* A read at a level that overlaps the write's, begun after the write was acknowledged, returns
\* what was written: whichever replicas answer, fail, are late or are repaired meanwhile, and in
\* whichever order (fetch_rows_via_messaging, DigestResolver, DataResolver).  The write is not a
\* delete, whose tombstone the data responses leave out, and its level is not ANY, which a hint
\* satisfies.
THEOREM ReadsSeeTheWrite ==
    ASSUME Requests \subseteq Known, Kinds \subseteq {"value", "empty"},
           \A q \in Reads : q.request[2] # "Any"
    PROVE  ReadSpec => []ReadsTheWrite
<1>1. ReadInit => ReadInv
  BY ReadInvInit
<1>2. ReadInv /\ [ReadNext]_allVars => ReadInv'
  BY ReadInvNext
<1>3. ReadInv => ReadsTheWrite
  BY DEF ReadInv
<1> QED
  BY <1>1, <1>2, <1>3, PTL DEF ReadSpec
=============================================================================
