--------------------------- MODULE RequestProofs ----------------------------
(***************************************************************************)
(* A write keeps what its answer says, for any number of replicas and      *)
(* datacenters, every path and every level; the course of a read, and the  *)
(* queue of read repairs, for any number of reads and any length of the    *)
(* queue.                                                                  *)
(***************************************************************************)
EXTENDS ReadPath, FiniteSetTheorems, TLAPS

\* A leaf is for Zenon, unless it names another prover.
USE Zenon

Level == {"One", "Two", "Three", "Quorum", "All", "LocalOne", "LocalQuorum", "EachQuorum", "Any"}

\* The paths and the levels there are.
Known == {"mutate", "mutate_async"} \X Level

WriteTypes ==
    /\ <<path, cl>> \in Requests /\ live \subseteq Replica
    /\ pc \in {"plan", "send", "check", "register", "waiting", "conclude", "done"}
    /\ task \in [Replica -> {"none", "sent", "counted", "failed", "hint", "done"}]
    /\ acks_received \in Nat /\ hints_stored \in Nat
    /\ written \subseteq PlanLive /\ failures \subseteq PlanLive /\ hinted \subseteq Replica

\* What the state of a replica's task says of the replica.
TaskInv(r) ==
    /\ task[r] # "none" => r \in PlanLive
    /\ task[r] \in {"none", "sent"} => r \notin written \cup failures
    /\ path = "mutate" =>
         /\ task[r] \in {"none", "done", "failed"}
         /\ task[r] = "done" => r \in written
    /\ path = "mutate_async" =>
         /\ task[r] = "counted" => r \in written
         /\ task[r] \in {"failed", "hint"} => r \in failures
         /\ HintsAlwaysFit /\ task[r] = "done" =>
              r \in written \cup hinted \/ (r = Local /\ r \in failures)

\* The counter of mutate_async counts the replicas that acknowledged, none of them
\* twice and none that failed.
CountInv ==
    /\ written \cap failures = {}
    /\ path = "mutate_async" => acks_received = Cardinality(written)

\* What the caller has seen stays true.
CallerInv ==
    /\ pc = "plan" => \A r \in Replica : task[r] = "none"
    /\ pc \in {"check", "register", "waiting", "conclude"} => path = "mutate_async"
    /\ pc # "done" => result = "none"
    /\ pc \notin {"plan", "send"} /\ result # "Unavailable" => Unsent = {}
    /\ pc = "conclude" => ClMet \/ ClImpossible
    /\ result = "Failure" => path = "mutate_async" /\ ClImpossible
    /\ result = "Ok" =>
         IF cl = "Any" THEN path = "mutate" => written \cup hinted # {}
         ELSE Cardinality(written) >= Required

\* The dead replicas have their hints.
HintInv ==
    HintsAlwaysFit /\ pc # "plan" /\ result # "Unavailable" =>
      /\ path = "mutate_async" => PlanReplicas \ live \subseteq hinted
      /\ path = "mutate" /\ pc = "done" => PlanReplicas \subseteq written \cup hinted

WriteInv ==
    /\ WriteTypes /\ CountInv /\ CallerInv /\ HintInv
    /\ \A r \in Replica : TaskInv(r)

-----------------------------------------------------------------------------
\* What compute_dc_aware_write_plan adds up is a number: an induction over the sets of
\* datacenters, by their size.

Below == {ss \in Nat \X Nat : ss[1] < ss[2]}

\* Being smaller is well-founded on the natural numbers.
LEMMA BelowIsWellFounded == IsWellFoundedOn(Below, Nat)
<1>1. OpToRel(<, Nat) = Below
  BY DEF OpToRel, Below
<1> QED
  BY <1>1, NatLessThanWellFounded

\* Induction over the naturals, for a set of them.
LEMMA NatSetInduction ==
    ASSUME NEW S \in SUBSET Nat, 0 \in S, \A n \in S : n + 1 \in S
    PROVE  S = Nat
<1> SUFFICES ASSUME Nat \ S # {} PROVE FALSE
  OBVIOUS
<1>1. PICK x \in Nat \ S : \A y \in Nat \ S : ~(<<y, x>> \in Below)
  BY WFMin, BelowIsWellFounded
<1>2. \A y \in Nat \ S : ~(y < x)
  BY <1>1 DEF Below
<1>3. x # 0 /\ x - 1 \in Nat /\ x - 1 < x
  BY SMT, <1>1
<1>4. x - 1 \in S
  BY <1>2, <1>3
<1>5. (x - 1) + 1 \in S /\ (x - 1) + 1 = x
  BY SMT, <1>3, <1>4
<1> QED
  BY <1>1, <1>5

\* There are finitely many datacenters, each with a quorum.
LEMMA DatacenterTypes ==
    IsFiniteSet(Datacenters) /\ \A dc \in Datacenters : DcQuorum(dc) \in Nat
<1>1. IsFiniteSet(Datacenters)
  <2>1. [r \in Replica |-> DcOf[r]] \in Surjection(Replica, Datacenters)
    BY DEF Datacenters, Surjection
  <2> QED
    BY <2>1, ReplicaAssumption, FS_Surjection
<1>2. ASSUME NEW dc PROVE DcQuorum(dc) \in Nat
  <2>1. IsFiniteSet(InDc(dc, Replica)) /\ Cardinality(InDc(dc, Replica)) \in Nat
    BY ReplicaAssumption, FS_Subset, FS_CardinalityType DEF InDc
  <2> QED
    BY SMT, <2>1 DEF DcQuorum
<1> QED
  BY <1>1, <1>2

AnyOf(s) == CHOOSE x \in s : TRUE
Upto(n) == {s \in SUBSET Datacenters : Cardinality(s) =< n}
\* One turn of the fold.
Turn(g, s) == IF s = {} THEN 0 ELSE DcQuorum(AnyOf(s)) + g[s \ {AnyOf(s)}]

\* Without the one that was picked there is one datacenter less.
LEMMA AnyIsFewer ==
   ASSUME NEW s \in SUBSET Datacenters, s # {}
   PROVE /\ AnyOf(s) \in s /\ DcQuorum(AnyOf(s)) \in Nat /\ s \ {AnyOf(s)} \in SUBSET Datacenters
         /\ Cardinality(s) \in Nat /\ Cardinality(s \ {AnyOf(s)}) = Cardinality(s) - 1
<1>1. AnyOf(s) \in s
  BY DEF AnyOf
<1>2. IsFiniteSet(s) /\ Cardinality(s) \in Nat
  BY DatacenterTypes, FS_Subset, FS_CardinalityType
<1> QED
  BY <1>1, <1>2, DatacenterTypes, FS_RemoveElement

\* The sum over the datacenters unrolls, for sets of any size.
LEMMA SumExists ==
   \A n \in Nat : \E g \in [Upto(n) -> Nat] : \A s \in Upto(n) : g[s] = Turn(g, s)
<1> DEFINE S == {n \in Nat : \E g \in [Upto(n) -> Nat] : \A s \in Upto(n) : g[s] = Turn(g, s)}
<1>1. 0 \in S
  <2>1. Upto(0) = {{}}
    <3>1. \A s \in SUBSET Datacenters : IsFiniteSet(s) /\ Cardinality(s) \in Nat /\ (Cardinality(s) = 0 <=> s = {})
      BY DatacenterTypes, FS_Subset, FS_CardinalityType, FS_EmptySet
    <3> QED
      BY SMT, <3>1 DEF Upto
  <2>2. [s \in {{}} |-> 0] \in [Upto(0) -> Nat]
    BY <2>1
  <2>3. \A s \in Upto(0) : [x \in {{}} |-> 0][s] = Turn([x \in {{}} |-> 0], s)
    BY <2>1 DEF Turn
  <2> QED
    BY <2>2, <2>3
<1>2. ASSUME NEW n \in S PROVE n + 1 \in S
  <2>1. PICK g \in [Upto(n) -> Nat] : \A s \in Upto(n) : g[s] = Turn(g, s)
    OBVIOUS
  <2> DEFINE h == [s \in Upto(n + 1) |-> Turn(g, s)]
  <2>2. \A s \in SUBSET Datacenters : Cardinality(s) \in Nat
    BY DatacenterTypes, FS_Subset, FS_CardinalityType
  <2>3. \A s \in Upto(n + 1) : s # {} => s \ {AnyOf(s)} \in Upto(n) /\ DcQuorum(AnyOf(s)) \in Nat
    BY SMT, AnyIsFewer DEF Upto
  <2>4. h \in [Upto(n + 1) -> Nat]
    BY SMT, <2>3 DEF Turn
  <2>5. \A s \in Upto(n) : s \in Upto(n + 1) /\ h[s] = g[s]
    BY SMT, <2>1, <2>2 DEF Upto
  <2>6. \A s \in Upto(n + 1) : h[s] = Turn(h, s)
    BY <2>3, <2>5 DEF Turn
  <2> HIDE DEF h
  <2>7. \E f \in [Upto(n + 1) -> Nat] : \A s \in Upto(n + 1) : f[s] = Turn(f, s)
    BY <2>4, <2>6
  <2> QED
    BY SMT, <2>7
<1> HIDE DEF S
<1>3. S = Nat
  <2>1. S \in SUBSET Nat
    BY DEF S
  <2> QED
    BY <1>1, <1>2, <2>1, NatSetInduction
<1> QED
  BY <1>3 DEF S

\* The acknowledgements EachQuorum waits for are a number.
LEMMA SumIsNat == SumQuorums \in Nat
<1> DEFINE F == [s \in SUBSET Datacenters |-> 0]
<1>1. Cardinality(Datacenters) \in Nat /\ Upto(Cardinality(Datacenters)) = SUBSET Datacenters
  BY DatacenterTypes, FS_Subset, FS_CardinalityType DEF Upto
<1>2. PICK g \in [SUBSET Datacenters -> Nat] : \A s \in SUBSET Datacenters : g[s] = Turn(g, s)
  BY <1>1, SumExists
<1>3. g = [s \in SUBSET Datacenters |-> Turn(g, s)]
  BY <1>2
<1> DEFINE f == CHOOSE f : f = [s \in SUBSET Datacenters |-> Turn(f, s)]
<1>4. f = [s \in SUBSET Datacenters |-> Turn(f, s)]
  BY <1>3
<1>5. SumQuorums = f[Datacenters]
  BY DEF SumQuorums, MapThenSumSet, MapThenFoldSet, Turn, AnyOf
<1> HIDE DEF f
<1> DEFINE S == {n \in Nat : \A s \in Upto(n) : f[s] \in Nat}
<1>6. 0 \in S
  <2>1. Upto(0) = {{}}
    <3>1. \A s \in SUBSET Datacenters : IsFiniteSet(s) /\ Cardinality(s) \in Nat /\ (Cardinality(s) = 0 <=> s = {})
      BY DatacenterTypes, FS_Subset, FS_CardinalityType, FS_EmptySet
    <3> QED
      BY SMT, <3>1 DEF Upto
  <2> QED
    BY SMT, <1>4, <2>1 DEF Turn
<1>7. ASSUME NEW n \in S PROVE n + 1 \in S
  <2>3. \A s \in Upto(n + 1) : s # {} => s \ {AnyOf(s)} \in Upto(n) /\ DcQuorum(AnyOf(s)) \in Nat
    BY SMT, AnyIsFewer DEF Upto
  <2>4. ASSUME NEW s \in Upto(n + 1) PROVE f[s] \in Nat
    <3>1. f[s] = Turn(f, s)
      BY <1>4 DEF Upto
    <3>2. s # {} => f[s \ {AnyOf(s)}] \in Nat /\ DcQuorum(AnyOf(s)) \in Nat
      BY <2>3
    <3> QED
      BY SMT, <3>1, <3>2 DEF Turn
  <2> QED
    BY SMT, <2>4
<1> HIDE DEF S
<1>8. S = Nat
  <2>1. S \in SUBSET Nat
    BY DEF S
  <2> QED
    BY <1>6, <1>7, <2>1, NatSetInduction
<1> QED
  BY SMT, <1>1, <1>5, <1>8 DEF S

-----------------------------------------------------------------------------
\* The plan does not change while the write runs.
LEMMA PlanIsFixed ==
    ASSUME UNCHANGED request
    PROVE  /\ cl' = cl /\ live' = live /\ path' = path
           /\ PlanReplicas' = PlanReplicas /\ PlanLive' = PlanLive
           /\ Required' = Required /\ Total' = Total /\ Available' = Available
<1>1. cl' = cl /\ live' = live /\ path' = path
  BY DEF request
<1>2. DcAware' = DcAware /\ LocalOnly' = LocalOnly
  BY <1>1 DEF DcAware, LocalOnly
<1>3. PlanReplicas' = PlanReplicas
  BY <1>2 DEF PlanReplicas
<1>4. PlanLive' = PlanLive
  BY <1>1, <1>3 DEF PlanLive
<1>5. Required' = Required
  BY <1>1, <1>2, <1>3 DEF Required
<1>6. Total' = Total
  BY <1>4 DEF Total
<1>7. Available' = Available
  BY <1>1, <1>2, <1>4, <1>5 DEF Available
<1> QED
  BY <1>1, <1>3, <1>4, <1>5, <1>6, <1>7

\* The smaller of two numbers is one of them.
LEMMA MinOfTwo ==
    ASSUME NEW a \in Nat, NEW b \in Nat
    PROVE  Min({a, b}) \in Nat
<1>1. \E x \in {a, b} : \A y \in {a, b} : x =< y
  <2>1. CASE a =< b
    BY SMT, <2>1
  <2>2. CASE ~(a =< b)
    BY SMT, <2>2
  <2> QED
    BY <2>1, <2>2
<1>2. Min({a, b}) \in {a, b}
  BY <1>1 DEF Min
<1> QED
  BY <1>2

\* A level waits for a number of replicas.
LEMMA BlockForType ==
    ASSUME NEW level \in Level, NEW rf \in Nat
    PROVE  BlockFor(level, rf) \in Nat
<1>1. Min({2, rf}) \in Nat /\ Min({3, rf}) \in Nat
  BY MinOfTwo
<1> QED
  BY SMT, <1>1 DEF BlockFor, Level

\* The plan's numbers, for the requests that wait for replicas of one set.
LEMMA PlanTypes ==
    ASSUME Requests \subseteq Known, <<path, cl>> \in Requests
    PROVE  /\ path \in {"mutate", "mutate_async"} /\ cl \in Level
           /\ PlanReplicas \subseteq Replica /\ PlanLive \subseteq PlanReplicas
           /\ IsFiniteSet(PlanReplicas) /\ IsFiniteSet(PlanLive)
           /\ Total \in Nat /\ Required \in Nat
           /\ cl # "EachQuorum" => Required = BlockFor(cl, Cardinality(PlanReplicas))
<1>1. path \in {"mutate", "mutate_async"} /\ cl \in Level
  BY DEF Known
<1>2. PlanReplicas \subseteq Replica /\ PlanLive \subseteq PlanReplicas
  BY DEF PlanReplicas, PlanLive, InDc
<1>3. IsFiniteSet(PlanReplicas)
  BY <1>2, ReplicaAssumption, FS_Subset
<1>4. IsFiniteSet(PlanLive)
  BY <1>2, <1>3, FS_Subset
<1>5. Cardinality(PlanReplicas) \in Nat /\ Total \in Nat
  BY <1>3, <1>4, FS_CardinalityType DEF Total
<1>6. Required = IF DcAware /\ cl = "EachQuorum" THEN SumQuorums
                 ELSE BlockFor(cl, Cardinality(PlanReplicas))
  BY DEF Required
<1> QED
  BY <1>1, <1>2, <1>3, <1>4, <1>5, <1>6, BlockForType, SumIsNat

\* Two disjoint sets of replicas count no more than a set that holds both.
LEMMA DisjointFit ==
    ASSUME NEW S, IsFiniteSet(S), NEW A \in SUBSET S, NEW B \in SUBSET S, A \cap B = {}
    PROVE  /\ IsFiniteSet(A) /\ IsFiniteSet(B)
           /\ Cardinality(A) \in Nat /\ Cardinality(B) \in Nat
           /\ Cardinality(A) + Cardinality(B) =< Cardinality(S)
<1>1. IsFiniteSet(A) /\ IsFiniteSet(B)
  BY FS_Subset
<1>2. Cardinality(A) \in Nat /\ Cardinality(B) \in Nat
  BY <1>1, FS_CardinalityType
<1>3. Cardinality(A \cup B) = Cardinality(A) + Cardinality(B)
  BY SMT, <1>1, <1>2, FS_Union, FS_EmptySet
<1>4. Cardinality(A \cup B) =< Cardinality(S)
  BY FS_Subset
<1> QED
  BY <1>1, <1>2, <1>3, <1>4

\* Sums of growing counters grow.
LEMMA SumGrows ==
    ASSUME NEW a \in Nat, NEW b \in Nat, NEW c \in Nat, NEW d \in Nat, a =< c, b =< d, a + b > 0
    PROVE  c + d > 0
BY SMT

\* The sets of replicas that answered are finite and count up to the live ones.
LEMMA AnswersFit ==
    ASSUME Requests \subseteq Known, WriteTypes, CountInv
    PROVE  /\ IsFiniteSet(written) /\ IsFiniteSet(failures)
           /\ Cardinality(written) \in Nat /\ Cardinality(failures) \in Nat
           /\ Cardinality(written) + Cardinality(failures) =< Total
<1>1. IsFiniteSet(PlanLive)
  BY PlanTypes DEF WriteTypes
<1>2. written \in SUBSET PlanLive /\ failures \in SUBSET PlanLive /\ written \cap failures = {}
  BY DEF WriteTypes, CountInv
<1> QED
  BY <1>1, <1>2, DisjointFit DEF Total

\* is_cl_impossible: too many of the live replicas have failed, however many of the
\* others have answered by now.
LEMMA ImpossibleMeans ==
    ASSUME Requests \subseteq Known, WriteTypes, CountInv, path = "mutate_async"
    PROVE  ClImpossible <=> Total - Cardinality(failures) < Required
<1>1. /\ Cardinality(written) \in Nat /\ Cardinality(failures) \in Nat
      /\ Cardinality(written) + Cardinality(failures) =< Total
  BY AnswersFit
<1>2. Total \in Nat /\ Required \in Nat
  BY PlanTypes DEF WriteTypes
<1> QED
  BY SMT, <1>1, <1>2 DEF ClImpossible, CountInv

\* What the caller may have seen of the handler lasts while answers and hints come in.
LEMMA VerdictsLast ==
    ASSUME Requests \subseteq Known, WriteTypes, CountInv, UNCHANGED request,
           WriteTypes', CountInv', written \subseteq written', failures \subseteq failures',
           acks_received =< acks_received', hints_stored =< hints_stored'
    PROVE  /\ ClMet => ClMet'
           /\ path = "mutate_async" /\ ClImpossible => ClImpossible'
           /\ Cardinality(written) >= Required => Cardinality(written') >= Required'
<1>1. path' = path /\ cl' = cl /\ Total' = Total /\ Required' = Required /\ PlanLive' = PlanLive
  BY PlanIsFixed
<1>2. Total \in Nat /\ Required \in Nat /\ IsFiniteSet(PlanLive)
  BY PlanTypes DEF WriteTypes
<1>3. /\ Cardinality(written) \in Nat /\ Cardinality(failures) \in Nat
  BY AnswersFit
<1>4. written' \in SUBSET PlanLive /\ failures' \in SUBSET PlanLive /\ written' \cap failures' = {}
  BY <1>1 DEF WriteTypes, CountInv
<1>5. /\ IsFiniteSet(written') /\ IsFiniteSet(failures')
      /\ Cardinality(written') \in Nat /\ Cardinality(failures') \in Nat
      /\ Cardinality(written') + Cardinality(failures') =< Total
  BY <1>2, <1>4, DisjointFit DEF Total
<1>6. /\ Cardinality(written) =< Cardinality(written')
      /\ Cardinality(failures) =< Cardinality(failures')
  BY <1>5, FS_Subset
<1>7. ASSUME ClMet PROVE ClMet'
  <2>1. /\ acks_received \in Nat /\ acks_received' \in Nat
        /\ hints_stored \in Nat /\ hints_stored' \in Nat
    BY DEF WriteTypes
  <2>2. CASE cl = "Any"
    <3>1. acks_received + hints_stored > 0
      BY <1>7, <2>2 DEF ClMet
    <3>2. acks_received' + hints_stored' > 0
      BY <2>1, <3>1, SumGrows
    <3> QED
      BY <1>1, <2>2, <3>2 DEF ClMet
  <2>3. CASE cl # "Any"
    BY SMT, <1>1, <1>2, <1>7, <2>1, <2>3 DEF ClMet
  <2> QED
    BY <2>2, <2>3
<1>8. ASSUME path = "mutate_async", ClImpossible PROVE ClImpossible'
  <2>1. Total - Cardinality(failures) < Required
    BY <1>8, ImpossibleMeans
  <2>2. acks_received' = Cardinality(written')
    BY <1>1, <1>8 DEF CountInv
  <2>3. Total - Cardinality(failures') < Required
    BY SMT, <1>2, <1>3, <1>5, <1>6, <2>1
  <2> QED
    BY SMT, <1>1, <1>2, <1>5, <2>2, <2>3 DEF ClImpossible
<1>9. Cardinality(written) >= Required => Cardinality(written') >= Required'
  BY SMT, <1>1, <1>2, <1>3, <1>5, <1>6
<1> QED
  BY <1>7, <1>8, <1>9

-----------------------------------------------------------------------------
\* A hint once stored stays, and hints are for the replicas asked for.
LEMMA HintsGrow ==
    ASSUME NEW targets \in SUBSET Replica, hinted \subseteq Replica, hinted' \in StoreHints(targets)
    PROVE  /\ hinted \subseteq hinted' /\ hinted' \subseteq Replica
           /\ HintsAlwaysFit => targets \subseteq hinted'
BY DEF StoreHints

\* Steps in which no replica answers.
Silent == UNCHANGED <<request, acks_received, failures, written>>

\* Steps in which nothing but the caller and what it is told changes.
CallerOnly == Silent /\ UNCHANGED <<task, hints_stored, hinted>>

\* A step of the caller alone leaves the counts and the tasks as they are.
LEMMA CallerOnlyKeeps ==
    ASSUME Requests \subseteq Known, WriteInv, CallerOnly, 
           pc' \in {"plan", "send", "check", "register", "waiting", "conclude", "done"}
    PROVE  /\ WriteTypes' /\ CountInv' /\ \A r \in Replica : TaskInv(r)'
           /\ Unsent' = Unsent /\ ClMet' = ClMet /\ ClImpossible' = ClImpossible
<1>1. /\ cl' = cl /\ live' = live /\ path' = path
      /\ PlanReplicas' = PlanReplicas /\ PlanLive' = PlanLive
      /\ Required' = Required /\ Total' = Total
  BY PlanIsFixed DEF CallerOnly, Silent
<1>2. /\ acks_received' = acks_received /\ failures' = failures /\ written' = written
      /\ task' = task /\ hints_stored' = hints_stored /\ hinted' = hinted
  BY DEF CallerOnly, Silent
<1>3. WriteTypes'
  BY <1>1, <1>2 DEF WriteInv, WriteTypes
<1>4. CountInv'
  BY <1>1, <1>2 DEF WriteInv, CountInv
<1>5. \A r \in Replica : TaskInv(r)'
  BY <1>1, <1>2 DEF WriteInv, TaskInv
<1>6. Unsent' = Unsent /\ ClMet' = ClMet /\ ClImpossible' = ClImpossible
  BY <1>1, <1>2 DEF Unsent, ClMet, ClImpossible
<1> QED
  BY <1>3, <1>4, <1>5, <1>6

\* The steps of the caller that send nothing.
LEMMA CallerKeeps ==
    ASSUME Requests \subseteq Known, WriteInv,
           \/ Unavailable \/ PrepareSync \/ AwaitCompletion \/ Check
           \/ Register \/ Wake \/ Conclude \/ TimedOut \/ Expire
    PROVE  WriteInv'
<1>1. CallerOnly
  BY DEF Unavailable, PrepareSync, AwaitCompletion, Check, Register, Wake, Conclude, TimedOut,
         Expire, Return, Goto, CallerOnly, Silent, handler
<1>2. pc' \in {"plan", "send", "check", "register", "waiting", "conclude", "done"}
  BY DEF Unavailable, PrepareSync, AwaitCompletion, Check, Register, Wake, Conclude, TimedOut,
         Expire, Return, Goto, WriteInv, WriteTypes
<1>3. /\ WriteTypes' /\ CountInv' /\ \A r \in Replica : TaskInv(r)'
      /\ Unsent' = Unsent /\ ClMet' = ClMet /\ ClImpossible' = ClImpossible
  BY <1>1, <1>2, CallerOnlyKeeps
<1>4. /\ cl' = cl /\ live' = live /\ path' = path /\ PlanReplicas' = PlanReplicas
      /\ Required' = Required /\ written' = written /\ hinted' = hinted /\ task' = task
  BY <1>1, PlanIsFixed DEF CallerOnly, Silent
<1>5. CallerInv /\ HintInv /\ path \in {"mutate", "mutate_async"}
  BY PlanTypes DEF WriteInv, WriteTypes
<1>6. CASE Unavailable
  BY <1>3, <1>4, <1>5, <1>6 DEF Unavailable, Return, CallerInv, HintInv, WriteInv
<1>7. CASE PrepareSync
  BY <1>3, <1>4, <1>5, <1>7 DEF PrepareSync, CallerInv, HintInv, WriteInv
<1>8. CASE AwaitCompletion
  <2>1. pc = "send" /\ path = "mutate_async" /\ Unsent = {} /\ result = "none"
    BY <1>5, <1>8 DEF AwaitCompletion, CallerInv
  <2>2. CASE Return("Timeout")
    BY <1>3, <1>4, <1>5, <2>1, <2>2 DEF Return, CallerInv, HintInv, WriteInv
  <2>3. CASE ClMet /\ Return("Ok")
    <3>1. cl # "Any" => Cardinality(written) >= Required
      BY <2>1, <2>3 DEF ClMet, WriteInv, CountInv
    <3> QED
      BY <1>3, <1>4, <1>5, <2>1, <2>3, <3>1 DEF Return, CallerInv, HintInv, WriteInv
  <2>4. CASE pc' = "check" /\ result' = result
    BY <1>3, <1>4, <1>5, <2>1, <2>4 DEF CallerInv, HintInv, WriteInv
  <2> QED
    BY <1>8, <2>2, <2>3, <2>4 DEF AwaitCompletion
<1>9. CASE Check
  BY <1>3, <1>4, <1>5, <1>9 DEF Check, Goto, CallerInv, HintInv, WriteInv
<1>10. CASE Register
  BY <1>3, <1>4, <1>5, <1>10 DEF Register, Goto, CallerInv, HintInv, WriteInv
<1>11. CASE Wake
  BY <1>3, <1>4, <1>5, <1>11 DEF Wake, Goto, CallerInv, HintInv, WriteInv
<1>12. CASE Conclude
  <2>1. pc = "conclude" /\ path = "mutate_async" /\ (ClMet \/ ClImpossible) /\ result = "none"
    BY <1>5, <1>12 DEF Conclude, CallerInv
  <2>2. ClMet /\ cl # "Any" => Cardinality(written) >= Required
    BY <2>1 DEF ClMet, WriteInv, CountInv
  <2>3. CASE ClMet
    BY <1>3, <1>4, <1>5, <1>12, <2>1, <2>2, <2>3 DEF Conclude, Return, CallerInv, HintInv, WriteInv
  <2>4. CASE ~ClMet
    BY <1>3, <1>4, <1>5, <1>12, <2>1, <2>4 DEF Conclude, Return, CallerInv, HintInv, WriteInv
  <2> QED
    BY <2>3, <2>4
<1>13. CASE TimedOut
  BY <1>3, <1>4, <1>5, <1>13 DEF TimedOut, Return, CallerInv, HintInv, WriteInv
<1>14. CASE Expire
  BY <1>3, <1>4, <1>5, <1>14 DEF Expire, CallerInv, HintInv, WriteInv
<1> QED
  BY <1>6, <1>7, <1>8, <1>9, <1>10, <1>11, <1>12, <1>13, <1>14

\* The steps of the tasks and those that send: what the caller has seen stays true.
LEMMA TaskStepKeeps ==
    ASSUME Requests \subseteq Known, WriteInv, UNCHANGED <<request, pc, result>>, pc # "plan",
           WriteTypes', CountInv',
           written \subseteq written', failures \subseteq failures', hinted \subseteq hinted',
           acks_received =< acks_received', hints_stored =< hints_stored',
           \A r \in Replica : task[r] # "none" => task'[r] # "none"
    PROVE  CallerInv' /\ HintInv'
<1>1. /\ cl' = cl /\ live' = live /\ path' = path /\ pc' = pc /\ result' = result
      /\ PlanReplicas' = PlanReplicas /\ PlanLive' = PlanLive /\ Required' = Required
  BY PlanIsFixed
<1>2. /\ ClMet => ClMet'
      /\ path = "mutate_async" /\ ClImpossible => ClImpossible'
      /\ Cardinality(written) >= Required => Cardinality(written') >= Required'
  BY VerdictsLast DEF WriteInv
<1>3. Unsent = {} => Unsent' = {}
  <2>1. PlanLive \subseteq Replica
    BY DEF PlanLive, PlanReplicas, InDc
  <2> QED
    BY <1>1, <2>1 DEF Unsent
<1>4. CallerInv'
  BY <1>1, <1>2, <1>3 DEF WriteInv, CallerInv
<1>5. HintInv'
  BY <1>1 DEF WriteInv, HintInv
<1> QED
  BY <1>4, <1>5

\* on_response counts a replica that had not answered, on_failure enters one.
LEMMA AnswerKeeps ==
    ASSUME Requests \subseteq Known, WriteInv, NEW r \in PlanLive, path = "mutate_async",
           task[r] \in {"none", "sent"}, pc # "plan", OnResponse(r) \/ OnFailure(r),
           UNCHANGED <<request, pc, result, hinted>>
    PROVE  WriteInv'
<1>1. /\ cl' = cl /\ live' = live /\ path' = path /\ pc' = pc /\ result' = result
      /\ PlanReplicas' = PlanReplicas /\ PlanLive' = PlanLive /\ hinted' = hinted
  BY PlanIsFixed
<1>2. r \in Replica /\ r \notin written /\ r \notin failures
  BY DEF WriteInv, TaskInv, PlanLive, PlanReplicas, InDc
<1>3. IsFiniteSet(written) /\ Cardinality(written) \in Nat /\ acks_received = Cardinality(written)
  BY AnswersFit DEF WriteInv, CountInv
<1>4. CASE OnResponse(r)
  <2>1. Cardinality(written') = Cardinality(written) + 1
    BY <1>2, <1>3, <1>4, FS_AddElement DEF OnResponse
  <2>2. CountInv'
    BY <1>1, <1>2, <1>3, <1>4, <2>1 DEF WriteInv, CountInv, OnResponse
  <2>3. WriteTypes'
    BY SMT, <1>1, <1>2, <1>4 DEF WriteInv, WriteTypes, OnResponse
  <2>4. \A s \in Replica : TaskInv(s)'
    BY <1>1, <1>2, <1>4 DEF WriteInv, WriteTypes, TaskInv, OnResponse
  <2>5. CallerInv' /\ HintInv'
    BY SMT, <1>1, <1>2, <1>4, <2>2, <2>3, TaskStepKeeps DEF OnResponse, WriteInv, WriteTypes
  <2> QED
    BY <2>2, <2>3, <2>4, <2>5 DEF WriteInv
<1>5. CASE OnFailure(r)
  <2>1. CountInv'
    BY <1>1, <1>2, <1>3, <1>5 DEF WriteInv, CountInv, OnFailure
  <2>2. WriteTypes'
    BY <1>1, <1>2, <1>5 DEF WriteInv, WriteTypes, OnFailure
  <2>3. \A s \in Replica : TaskInv(s)'
    BY <1>1, <1>2, <1>5 DEF WriteInv, WriteTypes, TaskInv, OnFailure
  <2>4. CallerInv' /\ HintInv'
    BY SMT, <1>1, <1>2, <1>5, <2>1, <2>2, TaskStepKeeps DEF OnFailure, WriteInv, WriteTypes
  <2> QED
    BY <2>1, <2>2, <2>3, <2>4 DEF WriteInv
<1> QED
  BY <1>4, <1>5

\* The other steps of a task, and the sends of a request.
LEMMA TaskKeeps ==
    ASSUME Requests \subseteq Known, WriteInv, NEW r \in Replica,
           SendSync(r) \/ SendRemote(r) \/ NotifyAck(r) \/ NotifyFailure(r) \/ HintFailed(r)
    PROVE  WriteInv'
<1>1. UNCHANGED <<request, pc, result, acks_received, failures>>
  BY DEF SendSync, SendRemote, NotifyAck, NotifyFailure, HintFailed, handler
<1>2. /\ cl' = cl /\ live' = live /\ path' = path /\ pc' = pc /\ result' = result
      /\ PlanReplicas' = PlanReplicas /\ PlanLive' = PlanLive
      /\ acks_received' = acks_received /\ failures' = failures
  BY <1>1, PlanIsFixed
<1>3. pc # "plan"
  BY DEF SendSync, SendRemote, NotifyAck, NotifyFailure, HintFailed, WriteInv, CallerInv
<1>4. ASSUME WriteTypes', CountInv', \A s \in Replica : TaskInv(s)',
             written \subseteq written', hinted \subseteq hinted', hints_stored =< hints_stored',
             \A s \in Replica : task[s] # "none" => task'[s] # "none"
      PROVE  WriteInv'
  <2>1. acks_received =< acks_received' /\ failures \subseteq failures'
    BY SMT, <1>2 DEF WriteInv, WriteTypes
  <2>2. CallerInv' /\ HintInv'
    BY <1>1, <1>3, <1>4, <2>1, TaskStepKeeps
  <2> QED
    BY <1>4, <2>2 DEF WriteInv
<1>5. CASE SendSync(r)
  <2>1. path = "mutate" /\ task[r] = "none" /\ r \in PlanLive
    BY <1>5 DEF SendSync, Unsent
  <2>2. PICK ok \in BOOLEAN :
          /\ task' = [task EXCEPT ![r] = IF ok THEN "done" ELSE "failed"]
          /\ written' = IF ok THEN written \cup {r} ELSE written
    BY <1>5 DEF SendSync
  <2>3. hinted' = hinted /\ hints_stored' = hints_stored
    BY <1>5 DEF SendSync, handler
  <2>4. WriteTypes'
    BY <1>2, <2>1, <2>2, <2>3 DEF WriteInv, WriteTypes
  <2>5. CountInv'
    BY <1>2, <2>1, <2>2 DEF WriteInv, CountInv, TaskInv
  <2>6. \A s \in Replica : TaskInv(s)'
    BY <1>2, <2>1, <2>2, <2>3 DEF WriteInv, WriteTypes, TaskInv
  <2> QED
    BY SMT, <1>4, <2>2, <2>3, <2>4, <2>5, <2>6 DEF WriteInv, WriteTypes
<1>6. CASE SendRemote(r)
  <2>1. /\ path = "mutate_async" /\ task[r] = "none" /\ r \in PlanLive
        /\ task' = [task EXCEPT ![r] = "sent"]
        /\ written' = written /\ hinted' = hinted /\ hints_stored' = hints_stored
    BY <1>6 DEF SendRemote, Unsent, handler
  <2>2. WriteTypes' /\ CountInv'
    BY <1>2, <2>1 DEF WriteInv, WriteTypes, CountInv
  <2>3. \A s \in Replica : TaskInv(s)'
    BY <1>2, <2>1 DEF WriteInv, WriteTypes, TaskInv
  <2> QED
    BY SMT, <1>4, <2>1, <2>2, <2>3 DEF WriteInv, WriteTypes
<1>7. CASE NotifyAck(r)
  <2>1. /\ task[r] = "counted" /\ task' = [task EXCEPT ![r] = "done"]
        /\ written' = written /\ hinted' = hinted /\ hints_stored' = hints_stored
    BY <1>7 DEF NotifyAck, handler
  <2>2. WriteTypes' /\ CountInv'
    BY <1>2, <2>1 DEF WriteInv, WriteTypes, CountInv
  <2>3. \A s \in Replica : TaskInv(s)'
    BY <1>2, <2>1 DEF WriteInv, WriteTypes, TaskInv
  <2> QED
    BY SMT, <1>4, <2>1, <2>2, <2>3 DEF WriteInv, WriteTypes
<1>8. CASE NotifyFailure(r)
  <2>1. /\ task[r] = "failed" /\ path = "mutate_async"
        /\ \/ task' = [task EXCEPT ![r] = "hint"]
           \/ r = Local /\ task' = [task EXCEPT ![r] = "done"]
        /\ written' = written /\ hinted' = hinted /\ hints_stored' = hints_stored
    BY <1>8 DEF NotifyFailure, handler
  <2>2. WriteTypes' /\ CountInv'
    BY <1>2, <2>1 DEF WriteInv, WriteTypes, CountInv
  <2>3. \A s \in Replica : TaskInv(s)'
    BY <1>2, <2>1 DEF WriteInv, WriteTypes, TaskInv
  <2> QED
    BY SMT, <1>4, <2>1, <2>2, <2>3 DEF WriteInv, WriteTypes
<1>9. CASE HintFailed(r)
  <2>1. /\ task[r] = "hint" /\ task' = [task EXCEPT ![r] = "done"] /\ written' = written
        /\ hinted' \in StoreHints({r})
        /\ hints_stored' \in Nat /\ hints_stored =< hints_stored'
    BY SMT, <1>9 DEF HintFailed, WriteInv, WriteTypes
  <2>2. /\ hinted \subseteq hinted' /\ hinted' \subseteq Replica
        /\ HintsAlwaysFit => r \in hinted'
    BY <2>1, HintsGrow DEF WriteInv, WriteTypes
  <2>3. WriteTypes' /\ CountInv'
    BY <1>2, <2>1, <2>2 DEF WriteInv, WriteTypes, CountInv
  <2>4. \A s \in Replica : TaskInv(s)'
    BY <1>2, <2>1, <2>2 DEF WriteInv, WriteTypes, TaskInv
  <2> QED
    BY <1>4, <2>1, <2>2, <2>3, <2>4 DEF WriteInv, WriteTypes
<1> QED
  BY <1>5, <1>6, <1>7, <1>8, <1>9

\* mutate_async stores and counts the hints of the dead replicas before it sends.
LEMMA PrepareKeeps ==
    ASSUME Requests \subseteq Known, WriteInv, PrepareAsync
    PROVE  WriteInv'
<1>1. /\ cl' = cl /\ live' = live /\ path' = path
      /\ PlanReplicas' = PlanReplicas /\ PlanLive' = PlanLive
  BY PlanIsFixed DEF PrepareAsync
<1>2. /\ path = "mutate_async" /\ pc = "plan" /\ pc' = "send" /\ result' = result
      /\ task' = task /\ acks_received' = acks_received /\ failures' = failures
      /\ written' = written /\ hinted' \in StoreHints(PlanReplicas \ live)
      /\ hints_stored' = Cardinality(PlanReplicas \ live)
  BY DEF PrepareAsync
<1>3. hints_stored' \in Nat
  <2>1. IsFiniteSet(PlanReplicas)
    BY PlanTypes DEF WriteInv, WriteTypes
  <2> QED
    BY <1>2, <2>1, FS_Difference, FS_CardinalityType
<1>4. /\ hinted \subseteq hinted' /\ hinted' \subseteq Replica
      /\ HintsAlwaysFit => PlanReplicas \ live \subseteq hinted'
  <2>1. PlanReplicas \ live \in SUBSET Replica
    BY DEF PlanReplicas, InDc
  <2> QED
    BY <1>2, <2>1, HintsGrow DEF WriteInv, WriteTypes
<1>5. WriteTypes' /\ CountInv'
  BY <1>1, <1>2, <1>3, <1>4 DEF WriteInv, WriteTypes, CountInv
<1>6. \A r \in Replica : TaskInv(r)'
  BY <1>1, <1>2, <1>4 DEF WriteInv, TaskInv
<1>7. CallerInv' /\ HintInv'
  BY <1>1, <1>2, <1>4 DEF WriteInv, CallerInv, HintInv
<1> QED
  BY <1>5, <1>6, <1>7 DEF WriteInv

\* mutate ends with the hints and the count of the replicas that applied the mutation.
LEMMA CompleteKeeps ==
    ASSUME Requests \subseteq Known, WriteInv, CompleteWritePlan
    PROVE  WriteInv'
<1> DEFINE successes == Cardinality({r \in Replica : task[r] = "done"})
           targets == {r \in Replica : r \notin live \/ task[r] = "failed"}
<1>1. /\ cl' = cl /\ live' = live /\ path' = path
      /\ PlanReplicas' = PlanReplicas /\ PlanLive' = PlanLive /\ Required' = Required
  BY PlanIsFixed DEF CompleteWritePlan
<1>2. /\ path = "mutate" /\ pc = "send" /\ Unsent = {} /\ pc' = "done"
      /\ task' = task /\ acks_received' = acks_received /\ failures' = failures
      /\ hints_stored' = hints_stored /\ written' = written /\ hinted' \in StoreHints(targets)
  BY DEF CompleteWritePlan, handler
<1>3. result' = IF (IF cl = "Any" THEN successes + Cardinality(hinted') > 0
                    ELSE successes >= Required)
                  THEN "Ok" ELSE "Timeout"
  BY DEF CompleteWritePlan
<1>4. /\ hinted \subseteq hinted' /\ hinted' \subseteq Replica
      /\ HintsAlwaysFit => targets \subseteq hinted'
  BY <1>2, HintsGrow DEF WriteInv, WriteTypes
<1>5. IsFiniteSet(written) /\ Cardinality(written) \in Nat /\ Required \in Nat
  BY AnswersFit, PlanTypes DEF WriteInv, WriteTypes
<1>6. successes \in Nat /\ successes =< Cardinality(written)
  <2>1. {r \in Replica : task[r] = "done"} \in SUBSET written
    BY <1>2 DEF WriteInv, TaskInv
  <2> QED
    BY <1>5, <2>1, FS_Subset, FS_CardinalityType
<1>7. WriteTypes' /\ CountInv'
  BY <1>1, <1>2, <1>4 DEF WriteInv, WriteTypes, CountInv
<1>8. \A r \in Replica : TaskInv(r)'
  BY <1>1, <1>2, <1>4 DEF WriteInv, TaskInv
<1>9. result' = "Ok" /\ cl = "Any" => written \cup hinted' # {}
  BY SMT, <1>3, <1>5, <1>6, FS_EmptySet
<1>10. result' = "Ok" /\ cl # "Any" => Cardinality(written) >= Required
  BY SMT, <1>3, <1>5, <1>6
<1>11. CallerInv'
  <2>1. Unsent' = Unsent
    BY <1>1, <1>2 DEF Unsent
  <2> QED
    BY <1>1, <1>2, <1>3, <1>9, <1>10, <2>1 DEF CallerInv
<1>12. HintInv'
  <2>1. ASSUME HintsAlwaysFit, NEW r \in PlanReplicas, r \notin written PROVE r \in hinted'
    <3>1. r \in Replica
      BY DEF PlanReplicas, InDc
    <3>2. r \notin live \/ task[r] = "failed"
      BY <1>2, <2>1, <3>1 DEF Unsent, PlanLive, WriteInv, TaskInv
    <3> QED
      BY <1>4, <2>1, <3>1, <3>2
  <2> QED
    BY <1>1, <1>2, <2>1 DEF HintInv
<1> QED
  BY <1>7, <1>8, <1>11, <1>12 DEF WriteInv

\* Before the plan is made the invariant holds.
LEMMA WriteInvInit == Requests \subseteq Known /\ Init => WriteInv
<1> SUFFICES ASSUME Requests \subseteq Known, Init PROVE WriteInv
  OBVIOUS
<1>1. WriteTypes
  <2>1. <<path, cl>> \in Requests
    <3>1. PICK q \in Requests : path = q[1] /\ cl = q[2]
      BY DEF Init
    <3> QED
      BY SMT, <3>1 DEF Known
  <2> QED
    BY <2>1 DEF Init, WriteTypes
<1>2. CountInv
  BY FS_EmptySet DEF Init, CountInv
<1>3. CallerInv /\ HintInv /\ \A r \in Replica : TaskInv(r)
  BY DEF Init, CallerInv, HintInv, TaskInv
<1> QED
  BY <1>1, <1>2, <1>3 DEF WriteInv

\* Every step of the caller and of its tasks keeps the invariant.
LEMMA WriteInvNext == Requests \subseteq Known /\ WriteInv /\ [Next]_vars => WriteInv'
<1> SUFFICES ASSUME Requests \subseteq Known, WriteInv, [Next]_vars PROVE WriteInv'
  OBVIOUS
<1>1. CASE Unavailable \/ PrepareSync \/ AwaitCompletion \/ Check \/ Register \/ Wake
           \/ Conclude \/ TimedOut \/ Expire
  BY <1>1, CallerKeeps
<1>2. CASE PrepareAsync \/ CompleteWritePlan
  BY <1>2, PrepareKeeps, CompleteKeeps
<1>3. ASSUME NEW r \in Replica, DispatchLocal(r) \/ Answer(r) PROVE WriteInv'
  <2>1. /\ pc # "plan" /\ path = "mutate_async" /\ r \in PlanLive /\ task[r] \in {"none", "sent"}
    BY <1>3, PlanTypes
       DEF DispatchLocal, Answer, Unsent, WriteInv, WriteTypes, CallerInv, TaskInv
  <2>2. (OnResponse(r) \/ OnFailure(r)) /\ UNCHANGED <<request, pc, result, hinted>>
    BY <1>3 DEF DispatchLocal, Answer
  <2> QED
    BY <2>1, <2>2, AnswerKeeps
<1>4. ASSUME NEW r \in Replica,
             SendSync(r) \/ SendRemote(r) \/ NotifyAck(r) \/ NotifyFailure(r) \/ HintFailed(r)
      PROVE  WriteInv'
  BY <1>4, TaskKeeps
<1>5. CASE UNCHANGED vars
  <2>1. CallerOnly /\ UNCHANGED <<pc, result>>
    BY <1>5 DEF vars, handler, CallerOnly, Silent
  <2>2. /\ WriteTypes' /\ CountInv' /\ \A r \in Replica : TaskInv(r)'
        /\ Unsent' = Unsent /\ ClMet' = ClMet /\ ClImpossible' = ClImpossible
    BY <2>1, CallerOnlyKeeps DEF WriteInv, WriteTypes
  <2>3. /\ cl' = cl /\ live' = live /\ path' = path /\ PlanReplicas' = PlanReplicas
        /\ Required' = Required /\ written' = written /\ hinted' = hinted /\ task' = task
    BY <2>1, PlanIsFixed DEF CallerOnly, Silent
  <2> QED
    BY <2>1, <2>2, <2>3 DEF WriteInv, CallerInv, HintInv
<1> QED
  BY <1>1, <1>2, <1>3, <1>4, <1>5 DEF Next, Caller, Task

\* What the caller of a write may rely on.
LEMMA WriteInvImplies ==
    ASSUME Requests \subseteq Known, WriteInv
    PROVE  /\ <<"mutate_async", "Any">> \notin Requests => FailureIsFinal
           /\ HintsAlwaysFit => NobodyForgotten
<1>1. ASSUME <<"mutate_async", "Any">> \notin Requests, result = "Failure" PROVE ~ClMet
  <2>1. path = "mutate_async" /\ ClImpossible /\ cl # "Any" /\ <<path, cl>> \in Requests
    BY <1>1 DEF WriteInv, CallerInv, WriteTypes
  <2>2. Total - Cardinality(failures) < Required
    BY <2>1, ImpossibleMeans DEF WriteInv
  <2>3. /\ Cardinality(written) \in Nat /\ Cardinality(failures) \in Nat
        /\ Cardinality(written) + Cardinality(failures) =< Total
    BY AnswersFit DEF WriteInv
  <2>4. Total \in Nat /\ Required \in Nat
    BY <2>1, PlanTypes
  <2> QED
    BY SMT, <2>1, <2>2, <2>3, <2>4 DEF ClMet, WriteInv, CountInv
<1>2. ASSUME HintsAlwaysFit, Quiet, result # "Unavailable", NEW r \in PlanReplicas
      PROVE  r \in written \cup hinted \/ (r = Local /\ r \in failures)
  <2>1. r \in Replica /\ path \in {"mutate", "mutate_async"} /\ pc = "done"
    BY <1>2, PlanTypes DEF PlanReplicas, InDc, WriteInv, WriteTypes, Quiet
  <2>2. CASE path = "mutate"
    BY <1>2, <2>1, <2>2 DEF WriteInv, HintInv
  <2>3. CASE path = "mutate_async" /\ r \notin live
    BY <1>2, <2>1, <2>3 DEF WriteInv, HintInv
  <2>4. CASE path = "mutate_async" /\ r \in live
    <3>1. task[r] = "done"
      BY <1>2, <2>1, <2>4 DEF Quiet, WriteInv, CallerInv, Unsent, PlanLive
    <3> QED
      BY <1>2, <2>1, <2>4, <3>1 DEF WriteInv, TaskInv
  <2> QED
    BY <2>1, <2>2, <2>3, <2>4
<1> QED
  BY <1>1, <1>2 DEF FailureIsFinal, NobodyForgotten

\* The requests that do what their level says.  The others: mutate takes the replicas of all
\* datacenters for LOCAL_QUORUM, LOCAL_ONE and EACH_QUORUM, and mutate_async counts the hints
\* it could not store for ANY.
Sound ==
    ({"mutate", "mutate_async"} \X {"One", "Two", "Three", "Quorum", "All"})
      \cup ({"mutate_async"} \X {"LocalOne", "LocalQuorum"}) \cup {<<"mutate", "Any">>}

\* The invariant and a sound level give OkIsKept.
LEMMA SoundIsKept ==
    ASSUME Requests \subseteq Sound, WriteInv
    PROVE  OkIsKept
<1> SUFFICES ASSUME result = "Ok" PROVE Promised(cl)
  BY DEF OkIsKept
<1>1. Requests \subseteq Known /\ <<path, cl>> \in Sound
  BY SMT DEF Sound, Known, Level, WriteInv, WriteTypes
<1>2. IF cl = "Any" THEN path = "mutate" => written \cup hinted # {}
      ELSE Cardinality(written) >= BlockFor(cl, Cardinality(PlanReplicas))
  BY <1>1, PlanTypes DEF WriteInv, CallerInv, WriteTypes, Sound
<1>3. CASE cl = "Any"
  BY <1>1, <1>2, <1>3 DEF Sound, Promised
<1>4. CASE cl \in {"LocalOne", "LocalQuorum"}
  <2>1. PlanReplicas = InDc(LocalDc, Replica)
    BY <1>1, <1>4 DEF Sound, PlanReplicas, LocalOnly, DcAware
  <2>2. InDc(LocalDc, written) = written
    BY <2>1 DEF WriteInv, WriteTypes, PlanLive, InDc
  <2> QED
    BY <1>2, <1>4, <2>1, <2>2 DEF Promised, AckedIn
<1>5. CASE cl \in {"One", "Two", "Three", "Quorum", "All"}
  <2>1. PlanReplicas = Replica
    BY <1>5 DEF PlanReplicas, LocalOnly, DcAware
  <2> QED
    BY <1>2, <1>5, <2>1 DEF Promised
<1> QED
  BY <1>1, <1>3, <1>4, <1>5 DEF Sound

\* A replica that has the write keeps it, and the request does not change.
LEMMA WriteGrows ==
    ASSUME Next
    PROVE  UNCHANGED request /\ written \subseteq written'
<1>1. ASSUME NEW r \in Replica, SendSync(r) \/ SendRemote(r) \/ DispatchLocal(r) \/ Task(r)
      PROVE  UNCHANGED request /\ written \subseteq written'
  BY <1>1 DEF SendSync, SendRemote, DispatchLocal, Task, Answer, NotifyAck, NotifyFailure,
              HintFailed, OnResponse, OnFailure
<1>2. CASE Unavailable \/ PrepareAsync \/ PrepareSync \/ CompleteWritePlan \/ AwaitCompletion
  BY <1>2 DEF Unavailable, PrepareAsync, PrepareSync, CompleteWritePlan, AwaitCompletion, Return
<1>3. CASE Check \/ Register \/ Wake \/ Conclude \/ TimedOut \/ Expire
  BY <1>3 DEF Check, Register, Wake, Conclude, TimedOut, Expire, Goto, Return
<1> QED
  BY <1>1, <1>2, <1>3 DEF Next, Caller, vars

\* An answer is final.
LEMMA WriteEnds ==
    ASSUME Next, pc = "done"
    PROVE  pc' = "done" /\ result' = result
BY DEF Next, Caller, Task, Unavailable, PrepareAsync, PrepareSync, SendSync, SendRemote, DispatchLocal,
       CompleteWritePlan, AwaitCompletion, Check, Register, Wake, Conclude, TimedOut, Answer, NotifyAck,
       NotifyFailure, HintFailed, Expire, vars

\* The invariant of a write holds at all times.
LEMMA WriteInvHolds ==
    ASSUME Requests \subseteq Known
    PROVE  Spec => []WriteInv
<1>1. Init => WriteInv
  BY WriteInvInit
<1>2. WriteInv /\ [Next]_vars => WriteInv'
  BY WriteInvNext
<1> QED
  BY <1>1, <1>2, PTL DEF Spec

\* A write that is reported as Ok has been acknowledged by the replicas its level names,
\* however its answers, failures, hints and the caller's wait interleave (mutate,
\* mutate_async, WriteResponseHandler), for the requests whose path does what the level says.
THEOREM OkHoldsGood ==
    ASSUME Requests \subseteq Sound
    PROVE  Spec => []OkIsKept
<1>1. Requests \subseteq Known
  BY SMT DEF Sound, Known, Level
<1>2. WriteInv => OkIsKept
  BY SoundIsKept
<1> QED
  BY <1>1, <1>2, WriteInvHolds, PTL

\* A write that is reported as failed stays failed: no answer that comes in later would have
\* met its level (is_cl_impossible, await_completion).  ANY on this path is left out: there a
\* hint that is stored after the failure still meets the level.
THEOREM FailuresAreFinal ==
    ASSUME Requests \subseteq Known, <<"mutate_async", "Any">> \notin Requests
    PROVE  Spec => []FailureIsFinal
<1>1. WriteInv => FailureIsFinal
  BY WriteInvImplies
<1> QED
  BY <1>1, WriteInvHolds, PTL

\* When a write has come to rest, each replica of its plan has the mutation or a hint for
\* it, but for the coordinator's own replica, on both paths and at every level, as long as
\* the hint store has room (mutate, mutate_async).
THEOREM NobodyIsForgotten ==
    ASSUME Requests \subseteq Known, HintsAlwaysFit
    PROVE  Spec => []NobodyForgotten
<1>1. WriteInv => NobodyForgotten
  BY WriteInvImplies
<1> QED
  BY <1>1, WriteInvHolds, PTL

-----------------------------------------------------------------------------
\* Reads

ReadLevel == {"One", "LocalOne", "Quorum", "LocalQuorum", "All"}

ReadField ==
    {"pc", "required", "candidates", "always", "speculative", "failed", "contacted", "mismatch",
     "digest", "data", "versions", "level", "written", "behind"}

Asking(c) == read[c].pc \in {"data", "digest", "full"}

\* A read under way: it has heard from replicas of its scope, from none of them twice.
ShapeInv(c) ==
    /\ read[c].pc \in {"idle", "data", "digest", "full", "done"}
    /\ Asking(c) =>
         /\ DOMAIN read[c] = ReadField
         /\ read[c].level \in ReadLevel
         /\ read[c].required = RequiredReads(read[c].level)
         /\ read[c].candidates \in Seq(Scope(read[c].level))
         /\ read[c].speculative \subseteq Scope(read[c].level)
         /\ read[c].contacted \in Seq(Scope(read[c].level)) /\ IsInjective(read[c].contacted)
         /\ read[c].pc = "data" => read[c].contacted = <<>>
         /\ read[c].pc # "data" => read[c].contacted # <<>>
         /\ read[c].pc = "full" =>
              /\ Len(read[c].contacted) >= read[c].required
              /\ DOMAIN read[c].versions \subseteq Range(read[c].contacted)

\* No repair leaves the queue before its target has confirmed it.
QueueInv ==
    /\ repairs \in Seq(staged)
    /\ drain \in [pc : {"idle", "send"}, batch : Seq(staged), failed : Seq(staged)]
    /\ drain.pc = "idle" => drain = IdleDrain
    /\ RepairsKept

KeptInv ==
    /\ QueueInv /\ DOMAIN read = Reader
    /\ \A c \in Reader : ShapeInv(c)

-----------------------------------------------------------------------------
\* The queue of repairs

\* The elements of a sequence over S are in S.
LEMMA RangeIn ==
    ASSUME NEW S, NEW s \in Seq(S)
    PROVE  Range(s) \subseteq S
BY SMT DEF Range

\* A sequence over S is one over every larger set.
LEMMA SeqGrows ==
    ASSUME NEW S, NEW T, S \subseteq T
    PROVE  Seq(S) \subseteq Seq(T)
BY SMT

\* A concatenation has the elements of both sequences.
LEMMA ConcatRange ==
    ASSUME NEW S, NEW s \in Seq(S), NEW t \in Seq(S)
    PROVE  s \o t \in Seq(S) /\ Range(s \o t) = Range(s) \cup Range(t)
<1>1. /\ s \o t \in Seq(S) /\ Len(s \o t) = Len(s) + Len(t)
      /\ Len(s) \in Nat /\ Len(t) \in Nat
      /\ DOMAIN s = 1..Len(s) /\ DOMAIN t = 1..Len(t) /\ DOMAIN (s \o t) = 1..(Len(s) + Len(t))
  BY SMT
<1>2. \A i \in 1..Len(s) : (s \o t)[i] = s[i]
  BY SMT
<1>3. \A i \in 1..Len(t) : i + Len(s) \in 1..(Len(s) + Len(t)) /\ (s \o t)[i + Len(s)] = t[i]
  BY SMT
<1>4. \A i \in 1..(Len(s) + Len(t)) :
        i > Len(s) => i - Len(s) \in 1..Len(t) /\ (s \o t)[i] = t[i - Len(s)]
  BY SMT, <1>3
<1>5. Range(s \o t) \subseteq Range(s) \cup Range(t)
  BY SMT, <1>1, <1>2, <1>4 DEF Range
<1>6. Range(s) \subseteq Range(s \o t)
  BY SMT, <1>1, <1>2 DEF Range
<1>7. Range(t) \subseteq Range(s \o t)
  BY <1>1, <1>3 DEF Range
<1> QED
  BY <1>1, <1>5, <1>6, <1>7

\* Append adds one element.
LEMMA AppendRange ==
    ASSUME NEW S, NEW s \in Seq(S), NEW e \in S
    PROVE  Append(s, e) \in Seq(S) /\ Range(Append(s, e)) = Range(s) \cup {e}
<1>1. /\ Append(s, e) \in Seq(S) /\ Len(Append(s, e)) = Len(s) + 1 /\ Len(s) \in Nat
      /\ \A i \in 1..Len(s) : Append(s, e)[i] = s[i]
      /\ Append(s, e)[Len(s) + 1] = e
  BY SMT
<1>2. DOMAIN Append(s, e) = 1..(Len(s) + 1) /\ DOMAIN s = 1..Len(s)
  BY SMT, <1>1
<1> QED
  BY SMT, <1>1, <1>2 DEF Range

\* A sequence has its head and the elements of its tail.
LEMMA TailRange ==
    ASSUME NEW S, NEW s \in Seq(S), s # <<>>
    PROVE  /\ Head(s) \in S /\ Tail(s) \in Seq(S)
           /\ Range(s) = {Head(s)} \cup Range(Tail(s))
<1>1. /\ Head(s) \in S /\ Tail(s) \in Seq(S) /\ Len(Tail(s)) = Len(s) - 1
      /\ \A i \in 1..Len(Tail(s)) : Tail(s)[i] = s[i + 1]
  BY SMT
<1>2. /\ DOMAIN s = 1..Len(s) /\ DOMAIN Tail(s) = 1..(Len(s) - 1) /\ Len(s) \in Nat \ {0}
      /\ Head(s) = s[1]
  BY SMT, <1>1
<1>3. ASSUME NEW i \in 2..Len(s) PROVE i - 1 \in 1..(Len(s) - 1) /\ Tail(s)[i - 1] = s[i]
  BY SMT, <1>1, <1>2
<1>4. Range(s) \subseteq {Head(s)} \cup Range(Tail(s))
  <2>1. ASSUME NEW i \in 1..Len(s) PROVE s[i] \in {Head(s)} \cup Range(Tail(s))
    <3>1. CASE i = 1
      BY <1>2, <3>1
    <3>2. CASE i \in 2..Len(s)
      BY <1>2, <1>3, <3>2 DEF Range
    <3> QED
      BY SMT, <1>2, <3>1, <3>2
  <2> QED
    BY <1>2, <2>1 DEF Range
<1>5. {Head(s)} \cup Range(Tail(s)) \subseteq Range(s)
  BY SMT, <1>1, <1>2 DEF Range
<1> QED
  BY <1>1, <1>4, <1>5

\* drain takes the whole queue, and loses nothing of it.
LEMMA DrainTakeKeeps == QueueInv /\ DrainTake => QueueInv'
<1> SUFFICES ASSUME QueueInv, DrainTake PROVE QueueInv'
  OBVIOUS
<1>1. /\ drain = IdleDrain /\ drain' = [pc |-> "send", batch |-> repairs, failed |-> <<>>]
      /\ repairs' = <<>> /\ staged' = staged /\ acknowledged' = acknowledged
  BY DEF QueueInv, DrainTake, IdleDrain
<1>2. Range(<<>>) = {} /\ <<>> \in Seq(staged)
  BY SMT DEF Range
<1> QED
  BY <1>1, <1>2 DEF QueueInv, RepairsKept, IdleDrain

\* A repair that was sent is confirmed, or it is kept for the next round.
LEMMA SendRepairKeeps == QueueInv /\ SendRepair => QueueInv'
<1> SUFFICES ASSUME QueueInv, SendRepair PROVE QueueInv'
  OBVIOUS
<1> DEFINE m == Head(drain.batch)
<1>1. /\ drain.batch \in Seq(staged) /\ drain.failed \in Seq(staged) /\ drain.batch # <<>>
      /\ drain.pc = "send" /\ drain \in [pc : {"idle", "send"}, batch : Seq(staged), failed : Seq(staged)]
      /\ repairs' = repairs /\ staged' = staged
  BY DEF QueueInv, SendRepair
<1>2. /\ m \in staged /\ Tail(drain.batch) \in Seq(staged)
      /\ Range(drain.batch) = {m} \cup Range(Tail(drain.batch))
  BY <1>1, TailRange
<1>3. Append(drain.failed, m) \in Seq(staged) /\ Range(Append(drain.failed, m)) = Range(drain.failed) \cup {m}
  BY SMT, <1>1, <1>2, AppendRange
<1>4. CASE /\ acknowledged' = acknowledged \cup {m}
           /\ drain' = [drain EXCEPT !.batch = Tail(@)]
  <2>1. drain'.pc = "send" /\ drain'.batch = Tail(drain.batch) /\ drain'.failed = drain.failed
    BY <1>1, <1>4
  <2>2. drain' \in [pc : {"idle", "send"}, batch : Seq(staged), failed : Seq(staged)]
    BY <1>1, <1>2, <1>4
  <2> QED
    BY <1>1, <1>2, <1>4, <2>1, <2>2 DEF QueueInv, RepairsKept
<1>5. CASE /\ acknowledged' = acknowledged
           /\ drain' = [drain EXCEPT !.batch = Tail(@), !.failed = Append(@, m)]
  <2>1. drain'.pc = "send" /\ drain'.batch = Tail(drain.batch) /\ drain'.failed = Append(drain.failed, m)
    BY <1>1, <1>5
  <2>2. drain' \in [pc : {"idle", "send"}, batch : Seq(staged), failed : Seq(staged)]
    BY <1>1, <1>2, <1>3, <1>5
  <2> QED
    BY <1>1, <1>2, <1>3, <1>5, <2>1, <2>2 DEF QueueInv, RepairsKept
<1> QED
  BY <1>4, <1>5 DEF SendRepair

\* What failed goes back into the queue.
LEMMA DrainEndKeeps == QueueInv /\ DrainEnd => QueueInv'
<1> SUFFICES ASSUME QueueInv, DrainEnd PROVE QueueInv'
  OBVIOUS
<1>1. /\ drain.batch = <<>> /\ drain.failed \in Seq(staged) /\ repairs \in Seq(staged)
      /\ repairs' = repairs \o drain.failed /\ drain' = IdleDrain
      /\ staged' = staged /\ acknowledged' = acknowledged
  BY DEF QueueInv, DrainEnd
<1>2. repairs' \in Seq(staged) /\ Range(repairs') = Range(repairs) \cup Range(drain.failed)
  BY SMT, <1>1, ConcatRange
<1>3. Range(<<>>) = {} /\ <<>> \in Seq(staged)
  BY SMT DEF Range
<1> QED
  BY <1>1, <1>2, <1>3 DEF QueueInv, RepairsKept, IdleDrain

\* A read adds its repairs to the queue and loses none that is there.
LEMMA StageKeeps ==
    ASSUME QueueInv, NEW new, new \in Seq(Range(new)), repairs' = repairs \o new,
           staged' = staged \cup Range(new), UNCHANGED <<drain, acknowledged>>
    PROVE  QueueInv'
<1>1. new \in Seq(staged') /\ repairs \in Seq(staged')
  BY SeqGrows DEF QueueInv
<1>2. repairs' \in Seq(staged') /\ Range(repairs') = Range(repairs) \cup Range(new)
  BY SMT, <1>1, ConcatRange
<1>3. drain' \in [pc : {"idle", "send"}, batch : Seq(staged'), failed : Seq(staged')]
  <2>1. /\ drain \in [pc : {"idle", "send"}, batch : Seq(staged), failed : Seq(staged)]
        /\ drain.batch \in Seq(staged') /\ drain.failed \in Seq(staged')
    BY SeqGrows DEF QueueInv
  <2> QED
    BY <2>1
<1> QED
  BY <1>2, <1>3 DEF QueueInv, RepairsKept

-----------------------------------------------------------------------------
\* The course of a read

\* A read asks finitely many replicas, and waits for a number of them.
LEMMA ScopeTypes ==
    ASSUME NEW level \in ReadLevel
    PROVE  /\ Scope(level) \subseteq Replica /\ IsFiniteSet(Scope(level))
           /\ RequiredReads(level) \in Nat
<1>1. Scope(level) \subseteq Replica
  BY DEF Scope, InDc
<1>2. IsFiniteSet(Scope(level)) /\ Cardinality(Scope(level)) \in Nat
  BY <1>1, ReplicaAssumption, FS_Subset, FS_CardinalityType
<1> QED
  BY SMT, <1>1, <1>2 DEF RequiredReads, ReadLevel, BlockFor

\* The next candidate is one that was not tried yet.
LEMMA FirstIsNew == \A done, s : FirstNotIn(done, s) \subseteq Range(s) \ done
BY DEF FirstNotIn, Range

\* A replica that has not been heard from can be added to those that have.
LEMMA ContactNew ==
    ASSUME NEW S, NEW s \in Seq(S), IsInjective(s), NEW r \in S, r \notin Range(s)
    PROVE  /\ Append(s, r) \in Seq(S) /\ Append(s, r) # <<>> /\ IsInjective(Append(s, r))
           /\ Append(s, r)[1] = IF s = <<>> THEN r ELSE s[1]
<1>1. /\ Append(s, r) \in Seq(S) /\ Len(Append(s, r)) = Len(s) + 1 /\ Len(s) \in Nat
      /\ \A i \in 1..Len(s) : Append(s, r)[i] = s[i]
      /\ Append(s, r)[Len(s) + 1] = r
  BY SMT
<1>2. DOMAIN Append(s, r) = 1..(Len(s) + 1) /\ DOMAIN s = 1..Len(s)
  BY SMT, <1>1
<1>3. s # <<>> => 1 \in 1..Len(s)
  BY SMT
<1>4. s = <<>> => Len(s) = 0
  BY SMT
<1>5. \A i \in 1..Len(s) : s[i] # r
  BY <1>2 DEF Range
<1>6. \A i \in 1..(Len(s) + 1) : i \in 1..Len(s) \/ i = Len(s) + 1
  BY SMT, <1>1
<1>7. IsInjective(Append(s, r))
  BY <1>1, <1>2, <1>5, <1>6 DEF IsInjective
<1>8. Append(s, r) # <<>>
  <2>1. Len(Append(s, r)) # 0 /\ Len(<<>>) = 0
    BY SMT, <1>1
  <2> QED
    BY <2>1
<1>9. Append(s, r)[1] = IF s = <<>> THEN r ELSE s[1]
  BY SMT, <1>1, <1>3, <1>4
<1> QED
  BY <1>1, <1>7, <1>8, <1>9

\* Steps of one read leave the others alone.
LEMMA OneRead ==
    ASSUME DOMAIN read = Reader, NEW c \in Reader, NEW e, read' = [read EXCEPT ![c] = e]
    PROVE  DOMAIN read' = Reader /\ read'[c] = e /\ \A d \in Reader \ {c} : read'[d] = read[d]
OBVIOUS

\* A read that does not move keeps its shape.
LEMMA ShapeOfOthers ==
    ASSUME NEW d \in Reader, ShapeInv(d), read'[d] = read[d]
    PROVE  ShapeInv(d)'
BY DEF ShapeInv, Asking

\* A read that returns is no longer bound by anything.
LEMMA FinishShape ==
    ASSUME KeptInv, NEW c \in Reader, NEW outcome, NEW cell, Finish(c, outcome, cell)
    PROVE  /\ DOMAIN read' = Reader /\ \A d \in Reader : ShapeInv(d)'
           /\ read'[c].pc = "done" /\ read'[c].data = cell /\ read'[c].result = outcome
           /\ read'[c].written = read[c].written /\ read'[c].level = read[c].level
           /\ \A d \in Reader \ {c} : read'[d] = read[d]
<1>1. read' = [read EXCEPT ![c] = Returned(read[c], outcome, cell)]
  BY DEF Finish
<1>2. /\ DOMAIN read' = Reader /\ read'[c] = Returned(read[c], outcome, cell)
      /\ \A d \in Reader \ {c} : read'[d] = read[d]
  BY <1>1, OneRead DEF KeptInv
<1>3. /\ read'[c].pc = "done" /\ read'[c].data = cell /\ read'[c].result = outcome
      /\ read'[c].written = read[c].written /\ read'[c].level = read[c].level
  BY SMT, <1>2 DEF Returned
<1>4. ShapeInv(c)'
  BY <1>3 DEF ShapeInv, Asking
<1> QED
  BY <1>2, <1>3, <1>4, ShapeOfOthers DEF KeptInv

\* What a failed request changes.
LEMMA FailsShape ==
    ASSUME KeptInv, NEW c \in Reader, Asking(c), NEW r, Fails(c, r)
    PROVE  /\ DOMAIN read' = Reader /\ \A d \in Reader \ {c} : read'[d] = read[d]
           /\ DOMAIN read'[c] = ReadField
           /\ \A f \in ReadField \ {"failed"} : read'[c][f] = read[c][f]
<1>1. read' = [read EXCEPT ![c] = [read[c] EXCEPT !.failed = @ \cup {r}]]
  BY DEF Fails
<1>2. DOMAIN read[c] = ReadField
  BY DEF KeptInv, ShapeInv
<1> QED
  BY <1>1, <1>2, OneRead DEF KeptInv, ReadField

\* The fields of a read that its steps may change.
Course == {"pc", "failed", "contacted", "mismatch", "digest", "data", "versions"}

\* A read's plan stands while the read goes on.
SamePlan(c) ==
    /\ DOMAIN read' = Reader /\ \A d \in Reader \ {c} : read'[d] = read[d]
    /\ DOMAIN read'[c] = ReadField
    /\ \A f \in ReadField \ Course : read'[c][f] = read[c][f]

\* What a request leaves of the plan.
LEMMA PlanFields ==
    ASSUME NEW c, SamePlan(c)
    PROVE  /\ read'[c].level = read[c].level /\ read'[c].required = read[c].required
           /\ read'[c].candidates = read[c].candidates /\ read'[c].speculative = read[c].speculative
           /\ read'[c].written = read[c].written
BY DEF SamePlan, ReadField, Course

\* The first data response.
LEMMA ReadDataShape ==
    ASSUME KeptInv, NEW c \in Reader, read[c].pc = "data", NEW r \in Scope(read[c].level),
           read' = [read EXCEPT ![c].pc = "digest", ![c].contacted = <<r>>,
                                ![c].digest = cells[r], ![c].data = Live(cells[r])]
    PROVE  /\ SamePlan(c) /\ \A d \in Reader : ShapeInv(d)'
           /\ read'[c].pc = "digest" /\ read'[c].contacted = <<r>>
           /\ read'[c].digest = cells[r] /\ read'[c].data = Live(cells[r])
           /\ read'[c].mismatch = read[c].mismatch
<1>1. DOMAIN read = Reader /\ DOMAIN read[c] = ReadField /\ ShapeInv(c)
  BY DEF KeptInv, ShapeInv, Asking
<1>2. read' = [read EXCEPT ![c] = [read[c] EXCEPT !.pc = "digest", !.contacted = <<r>>,
                                                  !.digest = cells[r], !.data = Live(cells[r])]]
  BY <1>1
<1>3. /\ SamePlan(c)
      /\ read'[c].pc = "digest" /\ read'[c].contacted = <<r>>
      /\ read'[c].digest = cells[r] /\ read'[c].data = Live(cells[r])
      /\ read'[c].mismatch = read[c].mismatch
  BY SMT, <1>1, <1>2 DEF SamePlan, ReadField, Course
<1>4. <<r>> \in Seq(Scope(read[c].level)) /\ IsInjective(<<r>>) /\ <<r>> # <<>>
  BY SMT DEF IsInjective
<1>5. ShapeInv(c)'
  BY SMT, <1>1, <1>3, <1>4, PlanFields DEF ShapeInv, Asking, SamePlan
<1>6. \A d \in Reader \ {c} : ShapeInv(d)'
  BY <1>3, ShapeOfOthers DEF KeptInv, SamePlan
<1> QED
  BY <1>3, <1>5, <1>6

\* A request that failed.
LEMMA FailsKeeps ==
    ASSUME KeptInv, NEW c \in Reader, Asking(c), NEW r, Fails(c, r)
    PROVE  /\ SamePlan(c) /\ \A d \in Reader : ShapeInv(d)'
           /\ \A f \in ReadField \ {"failed"} : read'[c][f] = read[c][f]
<1>1. /\ DOMAIN read' = Reader /\ \A d \in Reader \ {c} : read'[d] = read[d]
      /\ DOMAIN read'[c] = ReadField
      /\ \A f \in ReadField \ {"failed"} : read'[c][f] = read[c][f]
  BY FailsShape
<1>2. SamePlan(c)
  BY <1>1 DEF SamePlan, Course
<1>3. /\ read'[c].pc = read[c].pc /\ read'[c].contacted = read[c].contacted
      /\ read'[c].versions = read[c].versions
  BY <1>1 DEF ReadField
<1>4. ShapeInv(c)'
  <2>1. ShapeInv(c)
    BY DEF KeptInv
  <2> QED
    BY <1>1, <1>2, <1>3, <2>1, PlanFields DEF ShapeInv, Asking
<1>5. \A d \in Reader \ {c} : ShapeInv(d)'
  BY <1>1, ShapeOfOthers DEF KeptInv
<1> QED
  BY <1>1, <1>2, <1>4, <1>5

\* A digest response.
LEMMA ReadDigestShape ==
    ASSUME KeptInv, NEW c \in Reader, read[c].pc = "digest", NEW r \in Scope(read[c].level),
           r \notin Range(read[c].contacted),
           read' = [read EXCEPT ![c].contacted = Append(@, r),
                                ![c].mismatch = @ \/ cells[r] # read[c].digest]
    PROVE  /\ SamePlan(c) /\ \A d \in Reader : ShapeInv(d)'
           /\ read'[c].pc = "digest" /\ read'[c].contacted = Append(read[c].contacted, r)
           /\ read'[c].mismatch = (read[c].mismatch \/ cells[r] # read[c].digest)
           /\ read'[c].digest = read[c].digest /\ read'[c].data = read[c].data
<1>1. DOMAIN read = Reader /\ DOMAIN read[c] = ReadField /\ ShapeInv(c)
  BY DEF KeptInv, ShapeInv, Asking
<1>2. read' = [read EXCEPT ![c] = [read[c] EXCEPT !.contacted = Append(@, r),
                                                  !.mismatch = @ \/ cells[r] # read[c].digest]]
  BY <1>1
<1>3. /\ SamePlan(c)
      /\ read'[c].pc = "digest" /\ read'[c].contacted = Append(read[c].contacted, r)
      /\ read'[c].mismatch = (read[c].mismatch \/ cells[r] # read[c].digest)
      /\ read'[c].digest = read[c].digest /\ read'[c].data = read[c].data
  BY SMT, <1>1, <1>2 DEF SamePlan, ReadField, Course
<1>4. /\ read[c].contacted \in Seq(Scope(read[c].level)) /\ IsInjective(read[c].contacted)
  BY <1>1 DEF ShapeInv, Asking
<1>5. /\ Append(read[c].contacted, r) \in Seq(Scope(read[c].level))
      /\ IsInjective(Append(read[c].contacted, r)) /\ Append(read[c].contacted, r) # <<>>
  BY SMT, <1>4, ContactNew
<1>6. ShapeInv(c)'
  BY <1>1, <1>3, <1>5, PlanFields DEF ShapeInv, Asking, SamePlan
<1>7. \A d \in Reader \ {c} : ShapeInv(d)'
  BY <1>3, ShapeOfOthers DEF KeptInv, SamePlan
<1> QED
  BY <1>3, <1>6, <1>7

\* The digests differ: the full versions are read.
LEMMA MismatchShape ==
    ASSUME KeptInv, NEW c \in Reader, read[c].pc = "digest", Enough(c),
           read' = [read EXCEPT ![c].pc = "full",
                                ![c].versions = [r \in {read[c].contacted[1]} |-> read[c].data]]
    PROVE  /\ SamePlan(c) /\ \A d \in Reader : ShapeInv(d)'
           /\ read'[c].pc = "full" /\ read'[c].contacted = read[c].contacted
           /\ DOMAIN read'[c].versions = {read[c].contacted[1]}
           /\ read'[c].versions[read[c].contacted[1]] = read[c].data
           /\ read'[c].digest = read[c].digest /\ read'[c].data = read[c].data
           /\ read'[c].mismatch = read[c].mismatch
<1>1. DOMAIN read = Reader /\ DOMAIN read[c] = ReadField /\ ShapeInv(c)
  BY DEF KeptInv, ShapeInv, Asking
<1>2. read' = [read EXCEPT ![c] = [read[c] EXCEPT !.pc = "full",
                                     !.versions = [r \in {read[c].contacted[1]} |-> read[c].data]]]
  BY <1>1
<1>3. /\ SamePlan(c)
      /\ read'[c].pc = "full" /\ read'[c].contacted = read[c].contacted
      /\ read'[c].versions = [r \in {read[c].contacted[1]} |-> read[c].data]
      /\ read'[c].digest = read[c].digest /\ read'[c].data = read[c].data
      /\ read'[c].mismatch = read[c].mismatch
  BY SMT, <1>1, <1>2 DEF SamePlan, ReadField, Course
<1>4. /\ DOMAIN read'[c].versions = {read[c].contacted[1]}
      /\ read'[c].versions[read[c].contacted[1]] = read[c].data
  BY SMT, <1>3
<1>5. read[c].contacted[1] \in Range(read[c].contacted)
  <2>1. read[c].contacted \in Seq(Scope(read[c].level)) /\ read[c].contacted # <<>>
    BY <1>1 DEF ShapeInv, Asking
  <2>2. 1 \in DOMAIN read[c].contacted
    BY SMT, <2>1
  <2> QED
    BY <2>2 DEF Range
<1>6. ShapeInv(c)'
  BY <1>1, <1>3, <1>4, <1>5, PlanFields DEF ShapeInv, Asking, SamePlan, Enough
<1>7. \A d \in Reader \ {c} : ShapeInv(d)'
  BY <1>3, ShapeOfOthers DEF KeptInv, SamePlan
<1> QED
  BY <1>3, <1>4, <1>6, <1>7

\* A full data response.
LEMMA FullShape ==
    ASSUME KeptInv, NEW c \in Reader, read[c].pc = "full",
           NEW r \in Range(read[c].contacted), r \notin DOMAIN read[c].versions,
           read' = [read EXCEPT ![c].versions =
                      [s \in DOMAIN @ \cup {r} |-> IF s = r THEN Live(cells[r]) ELSE @[s]]]
    PROVE  /\ SamePlan(c) /\ \A d \in Reader : ShapeInv(d)'
           /\ read'[c].pc = "full" /\ read'[c].contacted = read[c].contacted
           /\ DOMAIN read'[c].versions = DOMAIN read[c].versions \cup {r}
           /\ read'[c].versions[r] = Live(cells[r])
           /\ \A s \in DOMAIN read[c].versions : read'[c].versions[s] = read[c].versions[s]
           /\ read'[c].digest = read[c].digest /\ read'[c].data = read[c].data
           /\ read'[c].mismatch = read[c].mismatch
<1>1. DOMAIN read = Reader /\ DOMAIN read[c] = ReadField /\ ShapeInv(c)
  BY DEF KeptInv, ShapeInv, Asking
<1>2. read' = [read EXCEPT ![c] = [read[c] EXCEPT !.versions =
                      [s \in DOMAIN @ \cup {r} |-> IF s = r THEN Live(cells[r]) ELSE @[s]]]]
  BY <1>1
<1>3. /\ SamePlan(c)
      /\ read'[c].pc = "full" /\ read'[c].contacted = read[c].contacted
      /\ read'[c].versions =
           [s \in DOMAIN read[c].versions \cup {r} |->
              IF s = r THEN Live(cells[r]) ELSE read[c].versions[s]]
      /\ read'[c].digest = read[c].digest /\ read'[c].data = read[c].data
      /\ read'[c].mismatch = read[c].mismatch
  BY <1>1, <1>2 DEF SamePlan, ReadField, Course
<1>4. /\ DOMAIN read'[c].versions = DOMAIN read[c].versions \cup {r}
      /\ read'[c].versions[r] = Live(cells[r])
      /\ \A s \in DOMAIN read[c].versions : read'[c].versions[s] = read[c].versions[s]
  BY <1>3
<1>5. ShapeInv(c)'
  BY <1>1, <1>3, <1>4, PlanFields DEF ShapeInv, Asking, SamePlan
<1>6. \A d \in Reader \ {c} : ShapeInv(d)'
  BY <1>3, ShapeOfOthers DEF KeptInv, SamePlan
<1> QED
  BY <1>3, <1>4, <1>5, <1>6

\* A new read.
LEMMA PlanShape ==
    ASSUME KeptInv, NEW c \in Reader, NEW q \in Reads, NEW n \in {0, 1},
           NEW order \in [1 .. RequiredReads(q.level) + n -> Scope(q.level)],
           read' = [read EXCEPT ![c] = Plan(q, order)]
    PROVE  /\ DOMAIN read' = Reader /\ \A d \in Reader : ShapeInv(d)'
           /\ \A d \in Reader \ {c} : read'[d] = read[d]
           /\ read'[c].pc = "data" /\ read'[c].written = (result = "Ok")
           /\ read'[c].digest = NoCell /\ read'[c].data = NoCell /\ read'[c].mismatch = FALSE
<1>1. q.level \in ReadLevel
  BY ReadAssumption DEF ReadRequest, ReadLevel
<1>2. RequiredReads(q.level) \in Nat
  BY <1>1, ScopeTypes
<1>3. order \in Seq(Scope(q.level)) /\ Len(order) = RequiredReads(q.level) + n
  BY SMT, <1>2
<1>4. SubSeq(order, 1, RequiredReads(q.level)) \in Seq(Scope(q.level))
  BY SMT, <1>2, <1>3
<1>5. Len(order) > RequiredReads(q.level) => order[Len(order)] \in Scope(q.level)
  BY SMT, <1>2, <1>3
<1>6. /\ DOMAIN read' = Reader /\ read'[c] = Plan(q, order)
      /\ \A d \in Reader \ {c} : read'[d] = read[d]
  BY OneRead DEF KeptInv
<1>7. /\ read'[c].pc = "data" /\ read'[c].written = (result = "Ok") /\ read'[c].contacted = <<>>
      /\ read'[c].digest = NoCell /\ read'[c].data = NoCell /\ read'[c].mismatch = FALSE
      /\ DOMAIN read'[c] = ReadField /\ read'[c].level = q.level
      /\ read'[c].required = RequiredReads(q.level)
      /\ read'[c].candidates \in {order, SubSeq(order, 1, RequiredReads(q.level))}
      /\ read'[c].speculative \in {{}, {order[Len(order)]}}
      /\ read'[c].speculative # {} => Len(order) > RequiredReads(q.level)
  BY <1>6 DEF Plan, Begin, ReadField
<1>8. <<>> \in Seq(Scope(q.level)) /\ IsInjective(<<>>)
  BY SMT DEF IsInjective
<1>9. ShapeInv(c)'
  BY <1>1, <1>3, <1>4, <1>5, <1>7, <1>8 DEF ShapeInv, Asking
<1>10. \A d \in Reader \ {c} : ShapeInv(d)'
  BY <1>6, ShapeOfOthers DEF KeptInv
<1> QED
  BY <1>6, <1>7, <1>9, <1>10

\* Who is asked: a replica of the read's scope that has not answered yet.
LEMMA AskedAreNew ==
    ASSUME KeptInv, NEW c \in Reader, Asking(c)
    PROVE  /\ Untried(c) \subseteq Scope(read[c].level) \ Range(read[c].contacted)
           /\ Spare(c) \subseteq Scope(read[c].level) \ Range(read[c].contacted)
           /\ read[c].speculative \subseteq Scope(read[c].level)
<1>1. /\ read[c].candidates \in Seq(Scope(read[c].level))
      /\ read[c].speculative \subseteq Scope(read[c].level)
  BY DEF KeptInv, ShapeInv
<1>2. Range(read[c].candidates) \subseteq Scope(read[c].level)
  BY <1>1, RangeIn
<1>3. Untried(c) \subseteq Range(read[c].candidates) \ (read[c].failed \cup Range(read[c].contacted))
  BY FirstIsNew DEF Untried
<1> QED
  BY <1>1, <1>2, <1>3 DEF Spare

\* The outcomes of the data request.
LEMMA DataSteps ==
    ASSUME KeptInv, NEW c \in Reader, DataRequest(c)
    PROVE  /\ read[c].pc = "data" /\ UNCHANGED <<vars, store, scheduler>>
           /\ \/ \E r \in Scope(read[c].level) :
                   read' = [read EXCEPT ![c].pc = "digest", ![c].contacted = <<r>>,
                                        ![c].digest = cells[r], ![c].data = Live(cells[r])]
              \/ \E r : Fails(c, r)
              \/ Finish(c, "ReadFailure", NoCell)
<1>1. Asking(c) /\ read[c].pc = "data" /\ UNCHANGED <<vars, store, scheduler>>
  BY DEF DataRequest, Asking
<1>2. /\ Untried(c) \subseteq Scope(read[c].level)
      /\ read[c].speculative \ read[c].failed \subseteq Scope(read[c].level)
  BY <1>1, AskedAreNew
<1> QED
  BY <1>1, <1>2 DEF DataRequest, ReadData

\* The outcomes of a digest request.
LEMMA DigestSteps ==
    ASSUME KeptInv, NEW c \in Reader, DigestRequest(c)
    PROVE  /\ read[c].pc = "digest" /\ UNCHANGED <<vars, store, scheduler>>
           /\ \/ \E r \in Scope(read[c].level) \ Range(read[c].contacted) :
                   read' = [read EXCEPT ![c].contacted = Append(@, r),
                                        ![c].mismatch = @ \/ cells[r] # read[c].digest]
              \/ \E r : Fails(c, r)
<1>1. Asking(c) /\ read[c].pc = "digest" /\ UNCHANGED <<vars, store, scheduler>>
  BY DEF DigestRequest, Asking
<1>2. Untried(c) \cup Spare(c) \subseteq Scope(read[c].level) \ Range(read[c].contacted)
  BY <1>1, AskedAreNew
<1>3. PICK r \in Untried(c) \cup Spare(c) : ReadDigest(c, r)
  BY DEF DigestRequest
<1> QED
  BY <1>1, <1>2, <1>3 DEF ReadDigest

\* The outcomes of a full data request.
LEMMA FullSteps ==
    ASSUME KeptInv, NEW c \in Reader, FullRequest(c)
    PROVE  /\ read[c].pc = "full" /\ UNCHANGED <<vars, store, scheduler>>
           /\ \/ \E r \in Range(read[c].contacted) \ DOMAIN read[c].versions :
                   read' = [read EXCEPT ![c].versions =
                              [s \in DOMAIN @ \cup {r} |-> IF s = r THEN Live(cells[r]) ELSE @[s]]]
              \/ Finish(c, "Internal", NoCell)
<1>1. read[c].pc = "full" /\ UNCHANGED <<vars, store, scheduler>>
  BY DEF FullRequest
<1>2. FirstNotIn(DOMAIN read[c].versions, read[c].contacted)
        \subseteq Range(read[c].contacted) \ DOMAIN read[c].versions
  BY FirstIsNew
<1> QED
  BY <1>1, <1>2 DEF FullRequest

\* The repairs a read stages.
LEMMA ResolveSteps ==
    ASSUME KeptInv, NEW c \in Reader, ResolveResponses(c)
    PROVE  /\ Finish(c, "Ok", Merged(c)) /\ UNCHANGED drain /\ UNCHANGED acknowledged
           /\ \E new : /\ new \in Seq(Range(new)) /\ repairs' = repairs \o new
                       /\ staged' = staged \cup Range(new)
<1> DEFINE stale == {i \in DOMAIN read[c].contacted :
                        read[c].versions[read[c].contacted[i]] # Merged(c)}
           n == Cardinality(stale)
           new == [k \in 1..n |->
                     [from |-> c, target |-> Chosen(read[c].contacted, stale)[k], cell |-> Merged(c)]]
<1>1. /\ Finish(c, "Ok", Merged(c)) /\ UNCHANGED drain /\ UNCHANGED acknowledged
      /\ repairs' = repairs \o new /\ staged' = staged \cup Range(new)
  BY DEF ResolveResponses
<1>2. n \in Nat
  <2>1. DOMAIN read[c].contacted = 1..Len(read[c].contacted) /\ Len(read[c].contacted) \in Nat
    <3>1. read[c].contacted \in Seq(Scope(read[c].level))
      BY DEF ResolveResponses, KeptInv, ShapeInv, Asking
    <3> QED
      BY SMT, <3>1
  <2>2. IsFiniteSet(DOMAIN read[c].contacted)
    BY SMT, <2>1, FS_Interval
  <2> QED
    BY <2>2, FS_Subset, FS_CardinalityType
<1>3. DOMAIN new = 1..n /\ new = [k \in 1..n |-> new[k]]
  OBVIOUS
<1> HIDE DEF new, n
<1>4. new \in Seq(Range(new))
  BY SMT, <1>2, <1>3 DEF Range
<1> QED
  BY <1>1, <1>4

\* Before the first read the invariant holds.
LEMMA KeptInvInit == ReadInit => KeptInv
<1> SUFFICES ASSUME ReadInit PROVE KeptInv
  OBVIOUS
<1>1. QueueInv
  BY SMT DEF ReadInit, QueueInv, IdleDrain, RepairsKept
<1>2. DOMAIN read = Reader /\ \A c \in Reader : ShapeInv(c)
  BY DEF ReadInit, IdleRead, ShapeInv, Asking
<1> QED
  BY <1>1, <1>2 DEF KeptInv

\* Every step of a write, a read or the drain keeps the shape of the reads and the queue.
LEMMA KeptInvNext == KeptInv /\ [ReadNext]_allVars => KeptInv'
<1> SUFFICES ASSUME KeptInv, [ReadNext]_allVars PROVE KeptInv'
  OBVIOUS
<1>1. ASSUME UNCHANGED scheduler PROVE QueueInv'
  BY <1>1 DEF KeptInv, scheduler, QueueInv, RepairsKept
<1>2. ASSUME UNCHANGED read PROVE DOMAIN read' = Reader /\ \A c \in Reader : ShapeInv(c)'
  BY <1>2, ShapeOfOthers DEF KeptInv
<1>3. CASE UNCHANGED allVars
  BY <1>1, <1>2, <1>3 DEF allVars, KeptInv
<1>4. CASE WriteStep
  BY <1>1, <1>2, <1>4 DEF WriteStep, KeptInv
<1>5. ASSUME NEW r \in Replica, ApplyUnanswered(r) PROVE KeptInv'
  BY <1>1, <1>2, <1>5 DEF ApplyUnanswered, KeptInv
<1>6. CASE DrainTake
  BY <1>2, <1>6, DrainTakeKeeps DEF DrainTake, KeptInv
<1>7. CASE SendRepair
  BY <1>2, <1>7, SendRepairKeeps DEF SendRepair, KeptInv
<1>8. CASE DrainEnd
  BY <1>2, <1>8, DrainEndKeeps DEF DrainEnd, KeptInv
<1>9. ASSUME NEW c \in Reader, PlanRead(c) PROVE KeptInv'
  <2>1. QueueInv'
    BY <1>1, <1>9 DEF PlanRead
  <2>2. ASSUME NEW q \in Reads, NEW n \in {0, 1},
               NEW order \in [1 .. RequiredReads(q.level) + n -> Scope(q.level)],
               read' = [read EXCEPT ![c] = Plan(q, order)]
        PROVE  KeptInv'
    BY <2>1, <2>2, PlanShape DEF KeptInv
  <2>3. ASSUME NEW q, read' = [read EXCEPT ![c] = Returned(Begin(q), "Unavailable", NoCell)]
        PROVE  KeptInv'
    <3>1. /\ DOMAIN read' = Reader /\ read'[c] = Returned(Begin(q), "Unavailable", NoCell)
          /\ \A d \in Reader \ {c} : read'[d] = read[d]
      BY <2>3, OneRead DEF KeptInv
    <3>2. ShapeInv(c)'
      BY SMT, <3>1 DEF ShapeInv, Asking, Returned
    <3> QED
      BY <2>1, <3>1, <3>2, ShapeOfOthers DEF KeptInv
  <2> QED
    BY <1>9, <2>2, <2>3 DEF PlanRead
<1>10. ASSUME NEW c \in Reader, DataRequest(c) PROVE KeptInv'
  BY <1>1, <1>10, DataSteps, ReadDataShape, FailsKeeps, FinishShape DEF KeptInv, Asking, SamePlan
<1>11. ASSUME NEW c \in Reader, DigestRequest(c) PROVE KeptInv'
  BY <1>1, <1>11, DigestSteps, ReadDigestShape, FailsKeeps DEF KeptInv, Asking, SamePlan
<1>12. ASSUME NEW c \in Reader, CompareDigests(c) PROVE KeptInv'
  BY <1>1, <1>12, MismatchShape, FinishShape DEF KeptInv, SamePlan, CompareDigests
<1>13. ASSUME NEW c \in Reader, FullRequest(c) PROVE KeptInv'
  BY <1>1, <1>13, FullSteps, FullShape, FinishShape DEF KeptInv, SamePlan
<1>14. ASSUME NEW c \in Reader, ResolveResponses(c) PROVE KeptInv'
  BY <1>14, ResolveSteps, StageKeeps, FinishShape DEF KeptInv
<1> QED
  BY <1>3, <1>4, <1>5, <1>6, <1>7, <1>8, <1>9, <1>10, <1>11, <1>12, <1>13, <1>14
     DEF ReadNext, Fetch

\* No repair is lost, for any number of reads and replicas and any length of the queue: a drain
\* that fails, or runs while reads stage more, discards none (enqueue_from_handler, drain_once).
THEOREM RepairsStay == ReadSpec => []RepairsKept
<1>1. ReadInit => KeptInv
  BY KeptInvInit
<1>2. KeptInv /\ [ReadNext]_allVars => KeptInv'
  BY KeptInvNext
<1>3. KeptInv => RepairsKept
  BY DEF KeptInv, QueueInv
<1> QED
  BY <1>1, <1>2, <1>3, PTL DEF ReadSpec
=============================================================================
