---------------------------- MODULE ClusterProofs ----------------------------
(***************************************************************************)
(* What the cluster's parts guarantee for any number of nodes.  Gossip: no *)
(* node and no message is ever ahead of the endpoint it speaks of, and a   *)
(* running node never goes back.  Metadata: the locks of topology          *)
(* operations never overlap, as long as nobody locks the full ring, which  *)
(* ranges_overlap takes for an empty range; and because of them a token    *)
(* has one owner, or a node and its replacement.                           *)
(***************************************************************************)
EXTENDS Gossip, ClusterMetadata, TLAPS

\* A leaf is for Zenon, unless it names another prover.
USE Zenon

\* What a node may know: states of some of the endpoints.
Knowledge == UNION {[D -> EndpointState] : D \in SUBSET Node}

\* The part of the type invariant that the proofs need.
Typed ==
    /\ endpoint_states \in [Node -> Knowledge] /\ version_counter \in [Node -> Nat]
    /\ \A n \in Node : n \in Knows(n)
    /\ \A m \in packets :
         /\ m.task \in Node
         /\ m.type \in {"Syn", "Ack", "Ack2"} => m.peer \in Node
         /\ m.type \in {"Ack", "Ack2"} => m.updated \in Knowledge

\* No application state of a node is newer than its counter.
CounterIsAhead ==
    \A n \in Node : \A k \in App : endpoint_states[n][n].app[k] <= version_counter[n]

\* The inductive invariant.
GossipInv == Typed /\ NobodyAhead /\ CounterIsAhead

-----------------------------------------------------------------------------
\* States of one endpoint

\* What it takes to be something a node may know.
LEMMA KnowledgeDef ==
    ASSUME NEW s
    PROVE  s \in Knowledge <=>
             /\ s = [e \in DOMAIN s |-> s[e]] /\ DOMAIN s \subseteq Node
             /\ \A e \in DOMAIN s : s[e] \in EndpointState
<1>1. ASSUME s \in Knowledge
      PROVE  /\ s = [e \in DOMAIN s |-> s[e]] /\ DOMAIN s \subseteq Node
             /\ \A e \in DOMAIN s : s[e] \in EndpointState
  <2>1. PICK D \in SUBSET Node : s \in [D -> EndpointState]
    BY <1>1 DEF Knowledge
  <2>. QED
    BY <2>1
<1>2. ASSUME s = [e \in DOMAIN s |-> s[e]], DOMAIN s \subseteq Node,
             \A e \in DOMAIN s : s[e] \in EndpointState
      PROVE  s \in Knowledge
  <2>1. s \in [DOMAIN s -> EndpointState]
    BY <1>2
  <2>2. DOMAIN s \in SUBSET Node
    BY <1>2
  <2>. QED
    BY <2>1, <2>2 DEF Knowledge
<1>. QED
  BY <1>1, <1>2

\* A state is not ahead of itself.
LEMMA NotAheadReflexive ==
    ASSUME NEW s \in EndpointState
    PROVE  NotAhead(s, s)
BY SMT DEF NotAhead, EndpointState

\* A state behind one that is behind a third is behind the third.
LEMMA NotAheadTransitive ==
    ASSUME NEW s \in EndpointState, NEW t \in EndpointState, NEW u \in EndpointState,
           NotAhead(s, t), NotAhead(t, u)
    PROVE  NotAhead(s, u)
<1>. USE DEF EndpointState
<1>1. CASE s.generation < u.generation
  BY <1>1 DEF NotAhead
<1>2. CASE ~(s.generation < u.generation)
  <2>1. s.generation = t.generation /\ t.generation = u.generation
    BY SMT, <1>2 DEF NotAhead
  <2>2. s.version <= u.version
    BY SMT, <2>1 DEF NotAhead
  <2>3. ASSUME NEW k \in App PROVE s.app[k] <= u.app[k]
    <3>1. s.app[k] <= t.app[k] /\ t.app[k] <= u.app[k]
      BY SMT, <2>1 DEF NotAhead
    <3>2. s.app[k] \in Nat /\ t.app[k] \in Nat /\ u.app[k] \in Nat
      OBVIOUS
    <3>. QED
      BY SMT, <3>1, <3>2
  <2>. QED
    BY <2>1, <2>2, <2>3 DEF NotAhead
<1>. QED
  BY <1>1, <1>2

\* A delta says nothing new.
LEMMA DeltaNotAhead ==
    ASSUME NEW s \in EndpointState, NEW since
    PROVE  Delta(s, since) \in EndpointState /\ NotAhead(Delta(s, since), s)
<1>. DEFINE app == [k \in App |-> IF s.app[k] > since THEN s.app[k] ELSE 0]
            d == Delta(s, since)
<1>1. s.generation \in Nat /\ s.version \in Nat /\ \A k \in App : s.app[k] \in Nat
  BY DEF EndpointState
<1>2. app \in [App -> Nat]
  BY <1>1
<1>3. d = [s EXCEPT !.app = app]
  BY DEF Delta
<1>4. d \in EndpointState
  BY <1>2, <1>3 DEF EndpointState
<1>5. d.generation = s.generation /\ d.version = s.version /\ d.app = app
  BY <1>3 DEF EndpointState
<1>6. \A k \in App : app[k] <= s.app[k]
  BY SMT, <1>1
<1>. HIDE DEF d, app
<1>7. NotAhead(d, s)
  BY SMT, <1>1, <1>5, <1>6 DEF NotAhead
<1>. QED
  BY <1>4, <1>7 DEF d

\* What is made of two states is no older than the one known, and no newer than both.
LEMMA MergeBetween ==
    ASSUME NEW l \in EndpointState, NEW r \in EndpointState
    PROVE  /\ Merge(l, r) \in EndpointState /\ NotAhead(l, Merge(l, r))
           /\ \A own \in EndpointState :
                NotAhead(l, own) /\ NotAhead(r, own) => NotAhead(Merge(l, r), own)
<1>1. /\ l.generation \in Nat /\ l.version \in Nat /\ \A k \in App : l.app[k] \in Nat
      /\ r.generation \in Nat /\ r.version \in Nat /\ \A k \in App : r.app[k] \in Nat
  BY DEF EndpointState
<1>2. CASE r.generation > l.generation
  <2>1. Merge(l, r) = r
    BY <1>2 DEF Merge
  <2>. QED
    BY <1>1, <1>2, <2>1 DEF NotAhead
<1>3. CASE r.generation < l.generation
  <2>1. Merge(l, r) = l
    BY SMT, <1>1, <1>3 DEF Merge
  <2>. QED
    BY <2>1, NotAheadReflexive
<1>4. CASE r.generation = l.generation
  <2>. DEFINE app == [k \in App |-> Larger(l.app[k], r.app[k])]
              mm == [generation |-> l.generation, version |-> Larger(l.version, r.version), app |-> app]
  <2>1. Merge(l, r) = mm
    BY SMT, <1>1, <1>4 DEF Merge
  <2>2. /\ Larger(l.version, r.version) \in {l.version, r.version}
        /\ Larger(l.version, r.version) \in Nat /\ l.version <= Larger(l.version, r.version)
    BY SMT, <1>1 DEF Larger
  <2>3. \A k \in App : /\ app[k] \in {l.app[k], r.app[k]} /\ app[k] \in Nat
                       /\ l.app[k] <= app[k]
    BY SMT, <1>1 DEF Larger
  <2>4. app \in [App -> Nat]
    BY <2>3
  <2>. HIDE DEF app
  <2>5. /\ mm \in EndpointState /\ mm.generation = l.generation
        /\ mm.version = Larger(l.version, r.version) /\ mm.app = app
    BY <2>2, <2>4 DEF EndpointState
  <2>. HIDE DEF mm
  <2>6. NotAhead(l, mm)
    BY <1>1, <2>2, <2>3, <2>5 DEF NotAhead
  <2>7. ASSUME NEW own \in EndpointState, NotAhead(l, own), NotAhead(r, own)
        PROVE  NotAhead(mm, own)
    <3>1. own.generation \in Nat
      BY DEF EndpointState
    <3>2. CASE l.generation < own.generation
      BY <2>5, <3>2 DEF NotAhead
    <3>3. CASE l.generation = own.generation
      <4>1. /\ l.version <= own.version /\ r.version <= own.version
            /\ \A k \in App : l.app[k] <= own.app[k] /\ r.app[k] <= own.app[k]
        BY SMT, <1>1, <1>4, <2>7, <3>1, <3>3 DEF NotAhead
      <4>. QED
        BY <2>2, <2>3, <2>5, <3>3, <4>1 DEF NotAhead
    <3>. QED
      BY <1>1, <2>7, <3>1, <3>2, <3>3 DEF NotAhead
  <2>. QED
    BY <2>1, <2>5, <2>6, <2>7
<1>. QED
  BY SMT, <1>1, <1>2, <1>3, <1>4
-----------------------------------------------------------------------------
\* What a step does to the states

\* The body of KnowledgeGrows.
Grows ==
    \A n \in Node :
      endpoint_states'[n][n].generation = endpoint_states[n][n].generation =>
        \A e \in Knows(n) :
          e \in DOMAIN endpoint_states'[n] /\ NotAhead(endpoint_states[n][e], endpoint_states'[n][e])

\* The states stay typed, no endpoint goes back, nobody is ahead, knowledge grows.
GoodStates ==
    /\ endpoint_states' \in [Node -> Knowledge]
    /\ \A n \in Node : n \in DOMAIN endpoint_states'[n]
    /\ \A e \in Node : NotAhead(endpoint_states[e][e], endpoint_states'[e][e])
    /\ \A n \in Node : \A e \in DOMAIN endpoint_states'[n] :
         NotAhead(endpoint_states'[n][e], endpoint_states'[e][e])
    /\ Grows

\* What a step does to the counters
Counters ==
    /\ version_counter' \in [Node -> Nat]
    /\ \A n \in Node : \A k \in App : endpoint_states'[n][n].app[k] <= version_counter'[n]

\* A node's states are a function on endpoints, itself among them.
LEMMA StateOf ==
    ASSUME Typed
    PROVE  \A n \in Node : /\ endpoint_states[n] = [e \in Knows(n) |-> endpoint_states[n][e]]
                           /\ Knows(n) \subseteq Node /\ n \in Knows(n)
                           /\ \A e \in Knows(n) : endpoint_states[n][e] \in EndpointState
BY KnowledgeDef DEF Typed, Knows

\* What an update of one place of a function leaves.
LEMMA Updated ==
    ASSUME NEW f, f = [e \in DOMAIN f |-> f[e]], NEW x \in DOMAIN f, NEW v, NEW g,
           g = [f EXCEPT ![x] = v]
    PROVE  /\ DOMAIN g = DOMAIN f /\ g[x] = v /\ \A e \in DOMAIN f \ {x} : g[e] = f[e]
           /\ g = [e \in DOMAIN g |-> g[e]]
OBVIOUS

\* A step that leaves the states alone keeps what is to be shown of them.
LEMMA UnchangedStates ==
    ASSUME GossipInv, UNCHANGED endpoint_states
    PROVE  GoodStates
<1>1. \A n \in Node : NotAhead(endpoint_states[n][n], endpoint_states[n][n])
  BY StateOf, NotAheadReflexive DEF GossipInv
<1>2. Grows
  BY StateOf, NotAheadReflexive DEF GossipInv, Grows, Knows
<1>. QED
  BY <1>1, <1>2 DEF GossipInv, Typed, NobodyAhead, GoodStates, Knows

\* An endpoint that moves on by itself
LEMMA LocalStep ==
    ASSUME GossipInv, NEW n \in Node, NEW s \in EndpointState,
           NotAhead(endpoint_states[n][n], s),
           endpoint_states' = [endpoint_states EXCEPT ![n][n] = s]
    PROVE  GoodStates
<1>. DEFINE old == endpoint_states
            new == endpoint_states'
<1>1. /\ \A p \in Node : /\ old[p] = [e \in DOMAIN old[p] |-> old[p][e]]
                         /\ DOMAIN old[p] \subseteq Node /\ p \in DOMAIN old[p]
                         /\ \A e \in DOMAIN old[p] : old[p][e] \in EndpointState
      /\ \A p \in Node : \A e \in DOMAIN old[p] : NotAhead(old[p][e], old[e][e])
      /\ \A p \in Node : old[p] \in Knowledge
  BY StateOf DEF GossipInv, Typed, NobodyAhead, Knows
<1>2. /\ DOMAIN new = Node /\ new = [p \in Node |-> new[p]]
      /\ new[n] = [old[n] EXCEPT ![n] = s]
      /\ \A p \in Node \ {n} : new[p] = old[p]
  BY DEF GossipInv, Typed
<1>3. /\ DOMAIN new[n] = DOMAIN old[n] /\ new[n][n] = s
      /\ \A e \in DOMAIN old[n] \ {n} : new[n][e] = old[n][e]
      /\ new[n] = [e \in DOMAIN new[n] |-> new[n][e]]
  <2>. HIDE DEF old, new
  <2>. QED
    BY SMT, <1>1, <1>2, Updated
<1>. HIDE DEF old, new
<1>4. \A p \in Node : new[p] \in Knowledge /\ p \in DOMAIN new[p]
  <2>1. new[n] \in Knowledge
    BY SMT, <1>1, <1>3, KnowledgeDef
  <2>2. n \in DOMAIN new[n]
    BY <1>1, <1>3
  <2>3. ASSUME NEW p \in Node \ {n} PROVE new[p] \in Knowledge /\ p \in DOMAIN new[p]
    <3>1. new[p] = old[p]
      BY <1>2
    <3>. QED
      BY <1>1, <3>1
  <2>. QED
    BY <2>1, <2>2, <2>3
<1>5. \A e \in Node : NotAhead(old[e][e], new[e][e])
  BY <1>1, <1>2, <1>3, NotAheadReflexive DEF old
<1>6. \A p \in Node : \A e \in DOMAIN new[p] : NotAhead(new[p][e], new[e][e])
  <2>. SUFFICES ASSUME NEW p \in Node, NEW e \in DOMAIN new[p]
                PROVE  NotAhead(new[p][e], new[e][e])
    OBVIOUS
  <2>1. CASE p = n /\ e = n
    BY <1>3, <2>1, NotAheadReflexive
  <2>2. CASE ~(p = n /\ e = n)
    <3>1. e \in DOMAIN old[p] /\ new[p][e] = old[p][e] /\ e \in Node
      BY <1>1, <1>2, <1>3, <2>2
    <3>2. NotAhead(old[p][e], old[e][e]) /\ NotAhead(old[e][e], new[e][e])
      BY <1>1, <1>5, <3>1
    <3>3. new[e][e] \in EndpointState
      BY <1>1, <1>2, <1>3, <3>1
    <3>. QED
      BY <1>1, <3>1, <3>2, <3>3, NotAheadTransitive
  <2>. QED
    BY <2>1, <2>2
<1>7. Grows
  <2>1. ASSUME NEW p \in Node, NEW e \in DOMAIN old[p]
        PROVE  e \in DOMAIN new[p] /\ NotAhead(old[p][e], new[p][e])
    <3>1. CASE p = n /\ e = n
      BY <1>1, <1>3, <1>5, <3>1
    <3>2. CASE ~(p = n /\ e = n)
      <4>1. e \in DOMAIN new[p] /\ new[p][e] = old[p][e]
        BY <1>2, <1>3, <2>1, <3>2
      <4>. QED
        BY <1>1, <4>1, NotAheadReflexive
    <3>. QED
      BY <3>1, <3>2
  <2>. QED
    BY <2>1 DEF Grows, Knows, old, new
<1>. QED
  BY <1>2, <1>4, <1>5, <1>6, <1>7 DEF GoodStates, old, new

\* The process of a node starts again.
LEMMA RestartStep ==
    ASSUME GossipInv, NEW n \in Node, Restart(n)
    PROVE  GoodStates
<1>. DEFINE old == endpoint_states
            new == endpoint_states'
            s == NewState(old[n][n].generation + 1)
<1>1. /\ \A p \in Node : /\ old[p] = [e \in DOMAIN old[p] |-> old[p][e]]
                         /\ DOMAIN old[p] \subseteq Node /\ p \in DOMAIN old[p]
                         /\ \A e \in DOMAIN old[p] : old[p][e] \in EndpointState
      /\ \A p \in Node : \A e \in DOMAIN old[p] : NotAhead(old[p][e], old[e][e])
      /\ \A p \in Node : old[p] \in Knowledge
  BY StateOf DEF GossipInv, Typed, NobodyAhead, Knows
<1>2. /\ DOMAIN new = Node /\ new = [p \in Node |-> new[p]]
      /\ new[n] = [e \in {n} |-> s]
      /\ \A p \in Node \ {n} : new[p] = old[p]
  BY DEF GossipInv, Typed, Restart, NextGeneration
<1>3. old[n][n].generation \in Nat
  BY <1>1 DEF EndpointState
<1>4. s \in EndpointState /\ s.generation = old[n][n].generation + 1
  BY SMT, <1>3 DEF NewState, EndpointState
<1>5. NotAhead(old[n][n], s) /\ s.generation # old[n][n].generation
  BY SMT, <1>3, <1>4 DEF NotAhead
<1>6. DOMAIN new[n] = {n} /\ new[n][n] = s
  BY <1>2
<1>. HIDE DEF old, new, s
<1>7. \A p \in Node : new[p] \in Knowledge /\ p \in DOMAIN new[p]
  <2>1. new[n] \in Knowledge
    BY SMT, <1>2, <1>4, <1>6, KnowledgeDef
  <2>2. n \in DOMAIN new[n]
    BY <1>1, <1>6
  <2>3. ASSUME NEW p \in Node \ {n} PROVE new[p] \in Knowledge /\ p \in DOMAIN new[p]
    <3>1. new[p] = old[p]
      BY <1>2
    <3>. QED
      BY <1>1, <3>1
  <2>. QED
    BY <2>1, <2>2, <2>3
<1>8. \A e \in Node : NotAhead(old[e][e], new[e][e])
  BY <1>1, <1>2, <1>5, <1>6, NotAheadReflexive
<1>9. \A p \in Node : \A e \in DOMAIN new[p] : NotAhead(new[p][e], new[e][e])
  <2>. SUFFICES ASSUME NEW p \in Node, NEW e \in DOMAIN new[p]
                PROVE  NotAhead(new[p][e], new[e][e])
    OBVIOUS
  <2>1. CASE p = n
    BY <1>4, <1>6, <2>1, NotAheadReflexive
  <2>2. CASE p # n
    <3>1. e \in DOMAIN old[p] /\ new[p][e] = old[p][e] /\ e \in Node
      BY <1>1, <1>2, <2>2
    <3>2. NotAhead(old[p][e], old[e][e]) /\ NotAhead(old[e][e], new[e][e])
      BY <1>1, <1>8, <3>1
    <3>3. new[e][e] \in EndpointState
      BY <1>1, <1>2, <1>4, <1>6, <3>1
    <3>. QED
      BY <1>1, <3>1, <3>2, <3>3, NotAheadTransitive
  <2>. QED
    BY <2>1, <2>2
<1>10. Grows
  <2>1. ASSUME NEW p \in Node, new[p][p].generation = old[p][p].generation,
               NEW e \in DOMAIN old[p]
        PROVE  e \in DOMAIN new[p] /\ NotAhead(old[p][e], new[p][e])
    <3>1. p # n
      BY <1>5, <1>6, <2>1
    <3>2. new[p] = old[p]
      BY <1>2, <3>1
    <3>. QED
      BY <1>1, <2>1, <3>2, NotAheadReflexive
  <2>. QED
    BY <2>1 DEF Grows, Knows, old, new
<1>. QED
  BY <1>2, <1>7, <1>8, <1>9, <1>10 DEF GoodStates, old, new

\* A node applies what a message says.
LEMMA ApplyStep ==
    ASSUME GossipInv, NEW n \in Node, NEW u \in Knowledge,
           \A e \in DOMAIN u : NotAhead(u[e], endpoint_states[e][e]),
           endpoint_states' = [endpoint_states EXCEPT ![n] = Applied(n, u)]
    PROVE  GoodStates
<1>. DEFINE old == endpoint_states
            new == endpoint_states'
            news == DOMAIN u \ ({n} \cup quarantined[n])
<1>1. /\ \A p \in Node : /\ old[p] = [e \in DOMAIN old[p] |-> old[p][e]]
                         /\ DOMAIN old[p] \subseteq Node /\ p \in DOMAIN old[p]
                         /\ \A e \in DOMAIN old[p] : old[p][e] \in EndpointState
      /\ \A p \in Node : \A e \in DOMAIN old[p] : NotAhead(old[p][e], old[e][e])
      /\ \A p \in Node : old[p] \in Knowledge
  BY StateOf DEF GossipInv, Typed, NobodyAhead, Knows
<1>2. DOMAIN u \subseteq Node /\ \A e \in DOMAIN u : u[e] \in EndpointState
  BY KnowledgeDef
<1>3. /\ DOMAIN new = Node /\ new = [p \in Node |-> new[p]]
      /\ new[n] = Applied(n, u)
      /\ \A p \in Node \ {n} : new[p] = old[p]
  BY DEF GossipInv, Typed
<1>4. Applied(n, u) = [e \in DOMAIN old[n] \cup news |->
         IF e \notin news THEN old[n][e]
         ELSE IF e \in DOMAIN old[n] THEN Merge(old[n][e], u[e])
         ELSE u[e]]
  BY DEF Applied, Knows
<1>5. /\ DOMAIN new[n] = DOMAIN old[n] \cup news /\ n \notin news /\ news \subseteq DOMAIN u
      /\ new[n] = [e \in DOMAIN new[n] |-> new[n][e]]
      /\ \A e \in DOMAIN old[n] \ news : new[n][e] = old[n][e]
      /\ \A e \in DOMAIN old[n] \cap news : new[n][e] = Merge(old[n][e], u[e])
      /\ \A e \in news \ DOMAIN old[n] : new[n][e] = u[e]
  <2>. HIDE DEF old, new
  <2>. QED
    BY SMT, <1>3, <1>4
<1>6. \A e \in DOMAIN u : NotAhead(u[e], old[e][e])
  OBVIOUS
<1>. HIDE DEF old, new, news
<1>7. ASSUME NEW e \in DOMAIN new[n]
      PROVE  /\ e \in Node /\ new[n][e] \in EndpointState /\ NotAhead(new[n][e], old[e][e])
             /\ e \in DOMAIN old[n] => NotAhead(old[n][e], new[n][e])
  <2>1. CASE e \in DOMAIN old[n] \ news
    <3>1. e \in Node /\ new[n][e] = old[n][e] /\ old[n][e] \in EndpointState
      BY <1>1, <1>5, <2>1
    <3>. QED
      BY <1>1, <2>1, <3>1, NotAheadReflexive
  <2>2. CASE e \in DOMAIN old[n] \cap news
    <3>1. /\ e \in Node /\ new[n][e] = Merge(old[n][e], u[e])
          /\ old[n][e] \in EndpointState /\ u[e] \in EndpointState
          /\ old[e][e] \in EndpointState
          /\ NotAhead(old[n][e], old[e][e]) /\ NotAhead(u[e], old[e][e])
      BY <1>1, <1>2, <1>5, <1>6, <2>2
    <3>. QED
      BY <3>1, MergeBetween
  <2>3. CASE e \in news \ DOMAIN old[n]
    BY <1>2, <1>5, <1>6, <2>3
  <2>. QED
    BY <1>5, <2>1, <2>2, <2>3
<1>8. \A p \in Node : new[p] \in Knowledge /\ p \in DOMAIN new[p]
  <2>1. new[n] \in Knowledge
    <3>1. DOMAIN new[n] \subseteq Node /\ \A e \in DOMAIN new[n] : new[n][e] \in EndpointState
      BY <1>7
    <3>. QED
      BY <1>5, <3>1, KnowledgeDef
  <2>2. n \in DOMAIN new[n]
    BY <1>1, <1>5
  <2>3. ASSUME NEW p \in Node \ {n} PROVE new[p] \in Knowledge /\ p \in DOMAIN new[p]
    <3>1. new[p] = old[p]
      BY <1>3
    <3>. QED
      BY <1>1, <3>1
  <2>. QED
    BY <2>1, <2>2, <2>3
<1>9. \A e \in Node : new[e][e] = old[e][e]
  BY <1>1, <1>3, <1>5
<1>10. \A e \in Node : NotAhead(old[e][e], new[e][e])
  BY <1>1, <1>9, NotAheadReflexive
<1>11. \A p \in Node : \A e \in DOMAIN new[p] : NotAhead(new[p][e], new[e][e])
  <2>1. ASSUME NEW p \in Node \ {n}, NEW e \in DOMAIN new[p]
        PROVE  NotAhead(new[p][e], new[e][e])
    <3>1. new[p] = old[p]
      BY <1>3
    <3>. QED
      BY <1>1, <1>9, <3>1
  <2>2. \A e \in DOMAIN new[n] : NotAhead(new[n][e], new[e][e])
    BY <1>7, <1>9
  <2>. QED
    BY <2>1, <2>2
<1>12. Grows
  <2>1. ASSUME NEW p \in Node, NEW e \in DOMAIN old[p]
        PROVE  e \in DOMAIN new[p] /\ NotAhead(old[p][e], new[p][e])
    <3>1. CASE p = n
      BY <1>5, <1>7, <2>1, <3>1
    <3>2. CASE p # n
      <4>1. new[p] = old[p]
        BY <1>3, <3>2
      <4>. QED
        BY <1>1, <2>1, <4>1, NotAheadReflexive
    <3>. QED
      BY <3>1, <3>2
  <2>. QED
    BY <2>1 DEF Grows, Knows, old, new
<1>. QED
  BY <1>3, <1>8, <1>10, <1>11, <1>12 DEF GoodStates, old, new

\* set_local_state makes a newer state.
LEMMA WithLocalStateStep ==
    ASSUME GossipInv, NEW n \in Node, NEW k \in App, WithLocalState(n, k)
    PROVE  GoodStates /\ Counters
<1>. DEFINE l == endpoint_states[n][n]
            app == [l.app EXCEPT ![k] = version_counter'[n]]
            s == [generation |-> l.generation, version |-> l.version + 1, app |-> app]
<1>1. l \in EndpointState
  BY StateOf DEF GossipInv
<1>2. l.generation \in Nat /\ l.version \in Nat /\ l.app \in [App -> Nat]
  BY <1>1 DEF EndpointState
<1>3. version_counter'[n] = version_counter[n] + 1 /\ version_counter[n] \in Nat
  BY DEF WithLocalState, GossipInv, Typed
<1>4. endpoint_states' = [endpoint_states EXCEPT ![n][n] = s]
  BY DEF WithLocalState
<1>. HIDE DEF l
<1>5. app \in [App -> Nat] /\ \A j \in App : l.app[j] <= app[j]
  BY SMT, <1>2, <1>3 DEF GossipInv, CounterIsAhead, l
<1>. HIDE DEF app
<1>6. s \in EndpointState /\ s.generation = l.generation /\ s.version = l.version + 1 /\ s.app = app
  BY SMT, <1>2, <1>5 DEF EndpointState
<1>. HIDE DEF s
<1>7. NotAhead(l, s)
  BY SMT, <1>2, <1>5, <1>6 DEF NotAhead
<1>8. GoodStates
  BY <1>4, <1>6, <1>7, LocalStep DEF l
<1>9. version_counter' \in [Node -> Nat] /\ \A p \in Node \ {n} : version_counter'[p] = version_counter[p]
  BY SMT DEF WithLocalState, GossipInv, Typed
<1>10. /\ endpoint_states'[n][n] = s
       /\ \A p \in Node \ {n} : endpoint_states'[p][p] = endpoint_states[p][p]
  BY <1>4, StateOf DEF GossipInv, Typed
<1>11. \A j \in App : app[j] <= version_counter'[n]
  BY SMT, <1>2, <1>3 DEF app, GossipInv, CounterIsAhead, l
<1>12. Counters
  BY <1>6, <1>9, <1>10, <1>11 DEF Counters, GossipInv, CounterIsAhead
<1>. QED
  BY <1>8, <1>12

\* increment_heartbeat too
LEMMA HeartbeatStep ==
    ASSUME GossipInv, NEW n \in Node, Heartbeat(n), UNCHANGED version_counter
    PROVE  GoodStates /\ Counters
<1>. DEFINE l == endpoint_states[n][n]
            v == IF l.version < cluster.versions[n] THEN l.version + 1 ELSE l.version
            s == [l EXCEPT !.version = v]
<1>1. l \in EndpointState
  BY StateOf DEF GossipInv
<1>2. l.generation \in Nat /\ l.version \in Nat /\ l.app \in [App -> Nat]
  BY <1>1 DEF EndpointState
<1>3. v \in Nat /\ l.version <= v
  BY SMT, <1>2
<1>4. endpoint_states' = [endpoint_states EXCEPT ![n][n] = s]
  BY DEF Heartbeat
<1>. HIDE DEF v, l
<1>5. s \in EndpointState /\ s.generation = l.generation /\ s.version = v /\ s.app = l.app
  BY <1>1, <1>3 DEF EndpointState
<1>. HIDE DEF s
<1>6. NotAhead(l, s)
  BY SMT, <1>2, <1>3, <1>5 DEF NotAhead
<1>7. GoodStates
  BY <1>4, <1>5, <1>6, LocalStep DEF l
<1>8. /\ endpoint_states'[n][n] = s
      /\ \A p \in Node \ {n} : endpoint_states'[p][p] = endpoint_states[p][p]
  BY <1>4, StateOf DEF GossipInv, Typed
<1>9. Counters
  BY <1>5, <1>8 DEF Counters, GossipInv, Typed, CounterIsAhead, l
<1>. QED
  BY <1>7, <1>9

\* A restart leaves the counter ahead of the own application states.
LEMMA RestartCounters ==
    ASSUME GossipInv, NEW n \in Node, Restart(n)
    PROVE  Counters
<1>1. /\ version_counter' = [version_counter EXCEPT ![n] = 0]
      /\ endpoint_states'[n] = [e \in {n} |-> NewState(NextGeneration(n))]
      /\ \A p \in Node \ {n} : endpoint_states'[p] = endpoint_states[p]
  BY DEF Restart, GossipInv, Typed
<1>2. \A k \in App : endpoint_states'[n][n].app[k] = 0
  BY SMT, <1>1 DEF NewState
<1>. QED
  BY SMT, <1>1, <1>2 DEF Counters, GossipInv, Typed, CounterIsAhead

\* A node applies nothing that others say of itself, so its counter stays ahead.
LEMMA ApplyCounters ==
    ASSUME GossipInv, NEW n \in Node, NEW u,
           endpoint_states' = [endpoint_states EXCEPT ![n] = Applied(n, u)],
           UNCHANGED version_counter
    PROVE  Counters
<1>1. n \in Knows(n)
  BY DEF GossipInv, Typed
<1>2. Applied(n, u)[n] = endpoint_states[n][n]
  BY <1>1 DEF Applied
<1>3. \A p \in Node : endpoint_states'[p][p] = endpoint_states[p][p]
  BY <1>2 DEF GossipInv, Typed
<1>. QED
  BY <1>3 DEF Counters, GossipInv, Typed, CounterIsAhead

\* What a step does to the messages: those that are left, and those that it sends.
Sends(new) ==
    /\ packets' \subseteq packets \cup new
    /\ \A m \in new :
         /\ m.task \in Node
         /\ m.type \in {"Syn", "Ack", "Ack2"} => m.peer \in Node
         /\ m.type \in {"Ack", "Ack2"} =>
              /\ m.updated \in Knowledge
              /\ \A e \in DOMAIN m.updated : NotAhead(m.updated[e], endpoint_states'[e][e])

\* Messages are as little ahead after the step as before it.
LEMMA MessagesStep ==
    ASSUME GossipInv, GoodStates, Counters, NEW new, Sends(new)
    PROVE  GossipInv'
<1>1. ASSUME NEW m \in packets, m.type \in {"Ack", "Ack2"}, NEW e \in DOMAIN m.updated
      PROVE  NotAhead(m.updated[e], endpoint_states'[e][e])
  <2>1. e \in Node /\ m.updated[e] \in EndpointState
    BY <1>1, KnowledgeDef DEF GossipInv, Typed
  <2>2. NotAhead(m.updated[e], endpoint_states[e][e])
    BY <1>1 DEF GossipInv, NobodyAhead
  <2>3. NotAhead(endpoint_states[e][e], endpoint_states'[e][e])
    BY <2>1 DEF GoodStates
  <2>4. endpoint_states[e][e] \in EndpointState
    BY <2>1, StateOf DEF GossipInv
  <2>5. endpoint_states'[e][e] \in EndpointState
    BY <2>1, KnowledgeDef DEF GoodStates
  <2>. QED
    BY <2>1, <2>2, <2>3, <2>4, <2>5, NotAheadTransitive
<1>2. ASSUME NEW m \in packets'
      PROVE  /\ m.task \in Node
             /\ m.type \in {"Syn", "Ack", "Ack2"} => m.peer \in Node
             /\ m.type \in {"Ack", "Ack2"} =>
                  /\ m.updated \in Knowledge
                  /\ \A e \in DOMAIN m.updated : NotAhead(m.updated[e], endpoint_states'[e][e])
  <2>1. CASE m \in packets
    BY <1>1, <2>1 DEF GossipInv, Typed
  <2>2. CASE m \in new
    BY <2>2 DEF Sends
  <2>. QED
    BY <1>2, <2>1, <2>2 DEF Sends
<1>3. Typed'
  BY <1>2 DEF Typed, GoodStates, Counters, Knows, Knowledge, EndpointState
<1>4. NobodyAhead'
  BY <1>2 DEF NobodyAhead, GoodStates, Knows, NotAhead
<1>5. CounterIsAhead'
  BY DEF CounterIsAhead, Counters
<1>. QED
  BY <1>3, <1>4, <1>5 DEF GossipInv
-----------------------------------------------------------------------------
\* The actions

Good == GoodStates /\ Counters /\ \E new : Sends(new)

\* A step that leaves the states alone and sends nothing
LEMMA QuietStep ==
    ASSUME GossipInv, UNCHANGED <<endpoint_states, version_counter>>, packets' \subseteq packets
    PROVE  Good
<1>1. GoodStates
  BY UnchangedStates
<1>2. Counters
  BY DEF Counters, GossipInv, Typed, CounterIsAhead
<1>3. Sends({})
  BY DEF Sends
<1>. QED
  BY <1>1, <1>2, <1>3 DEF Good

\* handle_syn puts only its own knowledge into the answer.
LEMMA HandleSynStep ==
    ASSUME GossipInv, NEW m \in packets, HandleSyn(m)
    PROVE  Good
<1>. DEFINE p == m.peer
            u == Updates(p, m.digests)
            new == {IF Encodes(u)
                      THEN [type |-> "Ack", task |-> m.task, peer |-> p,
                            stale |-> Requests(p, m.digests), updated |-> u]
                      ELSE [type |-> "Failure", task |-> m.task, peer |-> p]}
<1>1. m.task \in Node /\ p \in Node
  BY DEF GossipInv, Typed, HandleSyn
<1>2. packets' \subseteq packets \cup new /\ UNCHANGED <<endpoint_states, version_counter>>
  BY DEF HandleSyn
<1>3. DOMAIN u \subseteq Knows(p) /\ u = [e \in DOMAIN u |-> u[e]]
  BY DEF Updates
<1>4. \A e \in DOMAIN u : \E since : u[e] = Delta(endpoint_states[p][e], since)
  BY DEF Updates
<1>. HIDE DEF u, p
<1>5. ASSUME NEW e \in DOMAIN u
      PROVE  e \in Node /\ u[e] \in EndpointState /\ NotAhead(u[e], endpoint_states[e][e])
  <2>1. PICK since : u[e] = Delta(endpoint_states[p][e], since)
    BY <1>4
  <2>2. e \in Node /\ endpoint_states[p][e] \in EndpointState /\ endpoint_states[e][e] \in EndpointState
    BY <1>1, <1>3, <1>5, StateOf DEF GossipInv
  <2>3. NotAhead(endpoint_states[p][e], endpoint_states[e][e])
    BY <1>1, <1>3, <1>5 DEF GossipInv, NobodyAhead
  <2>4. u[e] \in EndpointState /\ NotAhead(u[e], endpoint_states[p][e])
    BY <2>1, <2>2, DeltaNotAhead
  <2>. QED
    BY <2>2, <2>3, <2>4, NotAheadTransitive
<1>6. u \in Knowledge
  <2>1. DOMAIN u \subseteq Node /\ \A e \in DOMAIN u : u[e] \in EndpointState
    BY <1>5
  <2>. QED
    BY <1>3, <2>1, KnowledgeDef
<1>7. \A a \in new :
        /\ a.task = m.task /\ a.peer = p /\ a.type \in {"Ack", "Failure"}
        /\ a.type = "Ack" => a.updated = u
  <2>1. CASE Encodes(u)
    BY SMT, <2>1
  <2>2. CASE ~Encodes(u)
    BY SMT, <2>2
  <2>. QED
    BY <2>1, <2>2
<1>. HIDE DEF new
<1>8. Sends(new)
  BY <1>1, <1>2, <1>5, <1>6, <1>7 DEF Sends
<1>9. GoodStates
  BY <1>2, UnchangedStates
<1>10. Counters
  BY <1>2 DEF Counters, GossipInv, Typed, CounterIsAhead
<1>. QED
  BY <1>8, <1>9, <1>10 DEF Good

\* handle_ack applies and answers with nothing ahead of its endpoint.
LEMMA HandleAckStep ==
    ASSUME GossipInv, NEW m \in packets, HandleAck(m)
    PROVE  Good
<1>. DEFINE n == m.task
            states == endpoint_states'[n]
            u == [e \in DOMAIN m.stale \cap DOMAIN states |-> Delta(states[e], m.stale[e])]
            new == {[type |-> "Ack2", task |-> n, peer |-> m.peer, updated |-> u]}
<1>1. n \in Node /\ m.peer \in Node /\ m.updated \in Knowledge
  BY DEF GossipInv, Typed, HandleAck
<1>2. /\ endpoint_states' = [endpoint_states EXCEPT ![n] = Applied(n, m.updated)]
      /\ packets' \subseteq packets \cup new /\ UNCHANGED version_counter
  BY DEF HandleAck
<1>3. \A e \in DOMAIN m.updated : NotAhead(m.updated[e], endpoint_states[e][e])
  BY DEF GossipInv, NobodyAhead, HandleAck
<1>. HIDE DEF n
<1>4. GoodStates
  BY <1>1, <1>2, <1>3, ApplyStep
<1>5. Counters
  BY <1>1, <1>2, ApplyCounters
<1>6. /\ DOMAIN states \subseteq Node /\ \A e \in DOMAIN states : states[e] \in EndpointState
      /\ \A e \in Node : endpoint_states'[e][e] \in EndpointState
      /\ \A e \in DOMAIN states : NotAhead(states[e], endpoint_states'[e][e])
  BY <1>1, <1>4, KnowledgeDef DEF GoodStates
<1>. HIDE DEF states
<1>7. /\ DOMAIN u \subseteq DOMAIN states /\ u = [e \in DOMAIN u |-> u[e]]
      /\ \A e \in DOMAIN u : u[e] = Delta(states[e], m.stale[e])
  OBVIOUS
<1>. HIDE DEF u
<1>8. ASSUME NEW e \in DOMAIN u
      PROVE  e \in Node /\ u[e] \in EndpointState /\ NotAhead(u[e], endpoint_states'[e][e])
  <2>1. e \in Node /\ states[e] \in EndpointState /\ endpoint_states'[e][e] \in EndpointState
    BY <1>6, <1>7, <1>8
  <2>2. u[e] \in EndpointState /\ NotAhead(u[e], states[e])
    BY <1>7, <2>1, DeltaNotAhead
  <2>3. NotAhead(states[e], endpoint_states'[e][e])
    BY <1>6, <1>7, <1>8
  <2>. QED
    BY <2>1, <2>2, <2>3, NotAheadTransitive
<1>9. u \in Knowledge
  <2>1. DOMAIN u \subseteq Node /\ \A e \in DOMAIN u : u[e] \in EndpointState
    BY <1>8
  <2>. QED
    BY <1>7, <2>1, KnowledgeDef
<1>10. \A a \in new : a.task = n /\ a.peer = m.peer /\ a.type = "Ack2" /\ a.updated = u
  BY SMT
<1>. HIDE DEF new
<1>11. Sends(new)
  BY <1>1, <1>2, <1>8, <1>9, <1>10 DEF Sends
<1>. QED
  BY <1>4, <1>5, <1>11 DEF Good

\* handle_ack2 applies nothing ahead of its endpoint.
LEMMA HandleAck2Step ==
    ASSUME GossipInv, NEW m \in packets, HandleAck2(m)
    PROVE  Good
<1>1. /\ m.peer \in Node /\ m.updated \in Knowledge
      /\ \A e \in DOMAIN m.updated : NotAhead(m.updated[e], endpoint_states[e][e])
  BY DEF GossipInv, Typed, NobodyAhead, HandleAck2
<1>2. /\ endpoint_states' = [endpoint_states EXCEPT ![m.peer] = Applied(m.peer, m.updated)]
      /\ packets' \subseteq packets /\ UNCHANGED version_counter
  BY DEF HandleAck2
<1>3. GoodStates
  BY <1>1, <1>2, ApplyStep
<1>4. Counters
  BY <1>1, <1>2, ApplyCounters
<1>5. Sends({})
  BY <1>2 DEF Sends
<1>. QED
  BY <1>3, <1>4, <1>5 DEF Good

\* One action of a node
LEMMA NodeStep ==
    ASSUME GossipInv, NEW n \in Node,
           \/ \E k \in App : SetLocalState(n, k)
           \/ \E t \in Node : BeginRound(n, t)
           \/ \E e \in Node : QuarantineExpires(n, e)
           \/ Restart(n) \/ BeginRoundAlone(n) \/ RequestTimeout(n) \/ AnnounceShutdown(n) \/ Finish(n)
    PROVE  Good
<1>1. ASSUME NEW k \in App, SetLocalState(n, k) PROVE Good
  <2>1. WithLocalState(n, k) /\ Sends({})
    BY <1>1 DEF SetLocalState, Sends
  <2>. QED
    BY <2>1, WithLocalStateStep DEF Good
<1>2. ASSUME NEW t \in Node, BeginRound(n, t) PROVE Good
  <2>. DEFINE syn == [type |-> "Syn", task |-> n, peer |-> t,
                      digests |-> Digests(endpoint_states'[n])]
  <2>1. Heartbeat(n) /\ UNCHANGED version_counter /\ packets' = packets \cup {syn}
    BY <1>2 DEF BeginRound
  <2>2. syn.task = n /\ syn.peer = t /\ syn.type = "Syn"
    OBVIOUS
  <2>. HIDE DEF syn
  <2>3. Sends({syn})
    BY <2>1, <2>2 DEF Sends
  <2>. QED
    BY <2>1, <2>3, HeartbeatStep DEF Good
<1>3. ASSUME NEW e \in Node, QuarantineExpires(n, e) PROVE Good
  BY <1>3, QuietStep DEF QuarantineExpires
<1>4. CASE Restart(n)
  <2>1. Sends({})
    BY <1>4 DEF Restart, Unwaited, Sends
  <2>. QED
    BY <1>4, <2>1, RestartStep, RestartCounters DEF Good
<1>5. CASE BeginRoundAlone(n)
  <2>1. Heartbeat(n) /\ UNCHANGED version_counter /\ Sends({})
    BY <1>5 DEF BeginRoundAlone, Sends
  <2>. QED
    BY <2>1, HeartbeatStep DEF Good
<1>6. CASE RequestTimeout(n)
  BY <1>6, QuietStep DEF RequestTimeout, Unwaited
<1>7. CASE AnnounceShutdown(n)
  <2>. DEFINE new == {[type |-> "Shutdown", task |-> n, peer |-> p] : p \in live_endpoints[n]}
  <2>1. WithLocalState(n, Status) /\ packets' = packets \cup new
    BY <1>7 DEF AnnounceShutdown
  <2>2. ASSUME NEW m \in new PROVE m.task = n /\ m.type = "Shutdown"
    <3>1. PICK p \in live_endpoints[n] : m = [type |-> "Shutdown", task |-> n, peer |-> p]
      BY <2>2
    <3>. QED
      BY <3>1
  <2>. HIDE DEF new
  <2>3. Sends(new)
    BY <2>1, <2>2 DEF Sends
  <2>. QED
    BY <2>1, <2>3, WithLocalStateStep, GossipAssumption DEF Good
<1>8. CASE Assess(n)
  BY <1>8, QuietStep DEF Assess
<1>9. CASE StoreVerdict(n)
  BY <1>9, QuietStep DEF StoreVerdict
<1>10. CASE StopGossiper(n)
  <2>1. WithLocalState(n, Status) /\ Sends({})
    BY <1>10 DEF StopGossiper, Sends
  <2>. QED
    BY <2>1, WithLocalStateStep, GossipAssumption DEF Good
<1>. QED
  BY <1>1, <1>2, <1>3, <1>4, <1>5, <1>6, <1>7, <1>8, <1>9, <1>10 DEF Finish

\* The same for every step of gossip.
LEMMA GoodStep ==
    ASSUME GossipInv, [GossipNext]_gossipVars
    PROVE  Good
<1>1. CASE UNCHANGED gossipVars
  BY <1>1, QuietStep DEF gossipVars
<1>2. ASSUME NEW m \in packets, Deliver(m) PROVE Good
  <2>1. CASE HandleFailure(m)
    BY <2>1, QuietStep DEF HandleFailure
  <2>2. CASE HandleShutdown(m)
    BY <2>2, QuietStep DEF HandleShutdown
  <2>. QED
    BY <1>2, <2>1, <2>2, HandleSynStep, HandleAckStep, HandleAck2Step DEF Deliver, Answer
<1>3. ASSUME NEW m \in packets, LosePacket(m) PROVE Good
  BY <1>3, QuietStep DEF LosePacket
<1>. QED
  BY <1>1, <1>2, <1>3, NodeStep DEF GossipNext

\* A node that has just started knows only itself.
LEMMA GossipInvInit == GossipInit => GossipInv
<1>. SUFFICES ASSUME GossipInit PROVE GossipInv
  OBVIOUS
<1>1. NewState(1) \in EndpointState /\ \A k \in App : NewState(1).app[k] = 0
  BY DEF NewState, EndpointState
<1>2. ASSUME NEW n \in Node
      PROVE  /\ endpoint_states[n] = [e \in {n} |-> NewState(1)]
             /\ endpoint_states[n] \in Knowledge /\ DOMAIN endpoint_states[n] = {n}
             /\ endpoint_states[n][n] = NewState(1)
  <2>1. endpoint_states[n] = [e \in {n} |-> NewState(1)]
    BY DEF GossipInit
  <2>. QED
    BY <1>1, <2>1, KnowledgeDef
<1>3. Typed
  BY <1>2 DEF GossipInit, Typed, Knows
<1>4. NobodyAhead
  BY <1>1, <1>2, NotAheadReflexive DEF GossipInit, NobodyAhead, Knows
<1>5. CounterIsAhead
  BY SMT, <1>1, <1>2 DEF GossipInit, CounterIsAhead
<1>. QED
  BY <1>3, <1>4, <1>5 DEF GossipInv

\* Every step of gossip keeps the invariant.
LEMMA GossipInvNext == GossipInv /\ [GossipNext]_gossipVars => GossipInv'
BY GoodStep, MessagesStep DEF Good

\* The invariant of gossip holds at all times.
LEMMA GossipInvAlways == GossipSpec => []GossipInv
BY GossipInvInit, GossipInvNext, PTL DEF GossipSpec

-----------------------------------------------------------------------------
\* In every cluster, whatever is lost or late and whoever restarts, nobody is ahead of
\* an endpoint in what it holds or has sent about it (handle_syn, handle_ack,
\* apply_remote_states, extract_delta).
THEOREM NobodyIsAhead == GossipSpec => []NobodyAhead
<1>1. GossipInv => NobodyAhead
  BY DEF GossipInv
<1>. QED
  BY <1>1, GossipInvAlways, PTL

\* In every cluster, a node that goes on running never forgets an endpoint and never
\* goes back to an older state of it (apply_remote_states).
THEOREM KnowledgeOnlyGrows == GossipSpec => KnowledgeGrows
<1>1. GossipInv /\ [GossipNext]_gossipVars => Grows
  BY GoodStep DEF Good, GoodStates
<1>2. GossipInv /\ [GossipNext]_gossipVars => [Grows]_gossipVars
  BY <1>1
<1>. QED
  BY <1>2, GossipInvAlways, PTL DEF GossipSpec, KnowledgeGrows, Grows

-----------------------------------------------------------------------------
\* Locks

Proper == {r \in Token \X Token : r # FullRing}

Field == {"epoch", "nodes", "endpoint_to_id", "locks", "schema"}

\* The inductive invariant.  What is locked are ranges other than the full ring, because
\* that is all a caller asks for, because the tokens of nodes are above the smallest.
LockInv ==
    /\ topology \in Topologies
    /\ DOMAIN metadata = Field
    /\ \A n \in DOMAIN metadata.nodes : metadata.nodes[n].tokens \subseteq (MinToken + 1)..MaxToken
    /\ DOMAIN caller = topology.sequences
    /\ \A s \in topology.sequences :
         /\ caller[s].pc = "lock" => caller[s].ranges \subseteq Proper
         /\ caller[s].pc = "step" => caller[s].step \in 1..Len(Steps(s))
    /\ \A o \in DOMAIN metadata.locks : metadata.locks[o] \subseteq Proper
    /\ LocksAreDisjoint

\* Two ranges that ranges_overlap tells apart have no token in common.
LEMMA ApartIsDisjoint ==
    ASSUME NEW a \in Proper, NEW b \in Proper, ~RangesOverlap(a, b), NEW t \in Token
    PROVE  ~(Contains(a, t) /\ Contains(b, t))
BY SMT, TcmAssumption DEF Proper, RangesOverlap, Contains, WrapsAround, Token

\* No step of an operation touches the locks, and the tokens it assigns are the
\* operation's.
LEMMA StepsAreTopology ==
    ASSUME NEW s, s.kind \in {"Bootstrap", "Replace", "Decommission", "Move"}, 
           NEW i \in 1..Len(Steps(s))
    PROVE  /\ Steps(s)[i].type \in {"Register", "Unregister", "AssignTokens", "UpdateNodeState"}
           /\ Steps(s)[i].type = "AssignTokens" => Steps(s)[i].tokens = s.tokens
<1>1. CASE s.kind = "Bootstrap"
  <2>1. Steps(s) = <<Register(s.node, s.endpoint), AssignTokens(s.node, s.tokens),
                     UpdateNodeState(s.node, "Normal")>>
    BY <1>1 DEF Steps
  <2>2. i \in {1, 2, 3}
    BY SMT, <2>1
  <2> QED
    BY SMT, <2>1, <2>2 DEF Register, AssignTokens, UpdateNodeState
<1>2. CASE s.kind = "Replace"
  <2>1. Steps(s) = <<Register(s.node, s.endpoint), AssignTokens(s.node, s.tokens),
                     Unregister(s.replacing)>>
    BY <1>2 DEF Steps
  <2>2. i \in {1, 2, 3}
    BY SMT, <2>1
  <2> QED
    BY SMT, <2>1, <2>2 DEF Register, AssignTokens, Unregister
<1>3. CASE s.kind = "Decommission"
  <2>1. Steps(s) = <<UpdateNodeState(s.node, "Leaving"), Unregister(s.node)>>
    BY <1>3 DEF Steps
  <2>2. i \in {1, 2}
    BY SMT, <2>1
  <2> QED
    BY SMT, <2>1, <2>2 DEF UpdateNodeState, Unregister
<1>4. CASE s.kind = "Move"
  <2>1. Steps(s) = <<UpdateNodeState(s.node, "Moving"), AssignTokens(s.node, s.tokens)>>
    BY <1>4 DEF Steps
  <2>2. i \in {1, 2}
    BY SMT, <2>1
  <2> QED
    BY SMT, <2>1, <2>2 DEF UpdateNodeState, AssignTokens
<1> QED
  BY <1>1, <1>2, <1>3, <1>4

\* The ranges a caller asks for: none is the full ring.
LEMMA AffectedAreProper ==
    ASSUME LockInv, ~topology.full, NEW s \in topology.sequences, Possible(metadata, s)
    PROVE  AffectedRanges(metadata, s) \subseteq Proper
<1>1. CASE s.kind = "Decommission"
  <2>1. AffectedRanges(metadata, s) = OwnedRanges(metadata, s.node)
    BY <1>1 DEF AffectedRanges
  <2>2. s.node \in DOMAIN metadata.nodes
    BY <1>1 DEF Possible
  <2>3. Tokens(metadata) \subseteq (MinToken + 1)..MaxToken
    BY DEF Tokens, LockInv
  <2>4. OwnedRanges(metadata, s.node) \subseteq
          ((MinToken + 1)..MaxToken) \X ((MinToken + 1)..MaxToken)
    BY <2>2, <2>3 DEF OwnedRanges, LockInv
  <2>5. ((MinToken + 1)..MaxToken) \X ((MinToken + 1)..MaxToken) \subseteq Proper
    BY SMT, TcmAssumption DEF Proper, Token, FullRing
  <2> QED
    BY <2>1, <2>4, <2>5
<1>2. CASE s.kind # "Decommission"
  <2>1. AffectedRanges(metadata, s) = {<<t - 1, t>> : t \in s.tokens}
    BY <1>2 DEF AffectedRanges
  <2>2. s.tokens \subseteq (MinToken + 1)..MaxToken
    BY TcmAssumption DEF LockInv
  <2>3. \A t \in (MinToken + 1)..MaxToken : <<t - 1, t>> \in Proper
    BY SMT, TcmAssumption DEF Proper, Token, FullRing
  <2> QED
    BY <2>1, <2>2, <2>3
<1> QED
  BY <1>1, <1>2

\* A step of an operation leaves the locks alone and gives nodes tokens of its own.
LEMMA TransformedByStep ==
    ASSUME LockInv, NEW t, Accepts(metadata, t),
           t.type \in {"Register", "Unregister", "AssignTokens", "UpdateNodeState"},
           t.type = "AssignTokens" => t.tokens \subseteq (MinToken + 1)..MaxToken
    PROVE  LET m == Transformed(metadata, t) IN
             /\ DOMAIN m = Field /\ m.locks = metadata.locks
             /\ \A n \in DOMAIN m.nodes : m.nodes[n].tokens \subseteq (MinToken + 1)..MaxToken
<1> DEFINE m == Transformed(metadata, t)
<1>1. CASE t.type = "Register"
  <2> DEFINE info == [endpoint |-> t.endpoint, tokens |-> {}, state |-> "Normal"]
  <2>1. m = Registered(metadata, t.node, info)
    BY <1>1 DEF Transformed
  <2>2. m.nodes = Insert(metadata.nodes, t.node, info) /\ m.locks = metadata.locks /\ DOMAIN m = Field
    BY <2>1 DEF Registered, LockInv, Field
  <2> QED
    BY SMT, <2>2 DEF Insert, LockInv
<1>2. CASE t.type = "Unregister"
  <2>1. m = Unregistered(metadata, t.node)
    BY <1>2 DEF Transformed
  <2>2. /\ m.nodes \in {metadata.nodes, Remove(metadata.nodes, t.node)}
        /\ m.locks = metadata.locks /\ DOMAIN m = Field
    BY <2>1 DEF Unregistered, LockInv, Field
  <2> QED
    BY <2>2 DEF Remove, LockInv
<1>3. CASE t.type = "AssignTokens"
  <2> DEFINE info == [endpoint |-> metadata.nodes[t.node].endpoint, tokens |-> t.tokens, state |-> "Normal"]
  <2>1. m = [metadata EXCEPT !.nodes = Insert(metadata.nodes, t.node, info)]
    BY <1>3 DEF Transformed
  <2>2. m.nodes = Insert(metadata.nodes, t.node, info) /\ m.locks = metadata.locks /\ DOMAIN m = Field
    BY <2>1 DEF LockInv, Field
  <2> QED
    BY SMT, <1>3, <2>2 DEF Insert, LockInv
<1>4. CASE t.type = "UpdateNodeState"
  <2> DEFINE info == [endpoint |-> metadata.nodes[t.node].endpoint,
                      tokens |-> metadata.nodes[t.node].tokens, state |-> t.state]
  <2>1. m = [metadata EXCEPT !.nodes = Insert(metadata.nodes, t.node, info)]
    BY <1>4 DEF Transformed
  <2>2. m.nodes = Insert(metadata.nodes, t.node, info) /\ m.locks = metadata.locks /\ DOMAIN m = Field
    BY <2>1 DEF LockInv, Field
  <2>3. t.node \in DOMAIN metadata.nodes
    BY <1>4 DEF Accepts
  <2> QED
    BY SMT, <2>2, <2>3 DEF Insert, LockInv
<1> QED
  BY <1>1, <1>2, <1>3, <1>4

\* LockedRanges::lock: what is locked next to the locks there are overlaps with none.
LEMMA LockedApart ==
    ASSUME LockInv, NEW s \in topology.sequences, NEW ranges \in SUBSET Proper,
           \A r \in ranges : ~Conflicts(metadata.locks, r)
    PROVE  LET locks == Insert(metadata.locks, s, ranges) IN
             /\ \A o \in DOMAIN locks : locks[o] \subseteq Proper
             /\ \A o, p \in DOMAIN locks : \A a \in locks[o], b \in locks[p] :
                  o # p => \A t \in Token : ~(Contains(a, t) /\ Contains(b, t))
<1> DEFINE locks == Insert(metadata.locks, s, ranges)
<1>1. DOMAIN locks = DOMAIN metadata.locks \cup {s} /\ locks[s] = ranges
  BY DEF Insert
<1>2. \A o \in DOMAIN metadata.locks : o # s => locks[o] = metadata.locks[o]
  BY DEF Insert
<1>3. \A o \in DOMAIN locks : locks[o] \subseteq Proper
  BY <1>1, <1>2 DEF LockInv
<1>4. \A o \in DOMAIN metadata.locks : \A a \in metadata.locks[o], b \in ranges :
        ~RangesOverlap(a, b)
  BY DEF Conflicts
<1>5. SUFFICES ASSUME NEW o \in DOMAIN locks, NEW p \in DOMAIN locks,
                      NEW a \in locks[o], NEW b \in locks[p], o # p, NEW t \in Token
               PROVE  ~(Contains(a, t) /\ Contains(b, t))
  BY <1>3
<1>6. a \in Proper /\ b \in Proper
  BY <1>3
<1>7. CASE o # s /\ p # s
  <2>1. a \in metadata.locks[o] /\ b \in metadata.locks[p]
    BY <1>1, <1>2, <1>7
  <2> QED
    BY <1>1, <1>5, <1>7, <2>1 DEF LockInv, LocksAreDisjoint
<1>8. CASE o = s
  <2>1. a \in ranges /\ b \in metadata.locks[p] /\ p \in DOMAIN metadata.locks
    BY <1>1, <1>2, <1>5, <1>8
  <2>2. ~RangesOverlap(b, a)
    BY <1>4, <2>1
  <2> QED
    BY <1>6, <2>2, ApartIsDisjoint
<1>9. CASE p = s
  <2>1. b \in ranges /\ a \in metadata.locks[o] /\ o \in DOMAIN metadata.locks
    BY <1>1, <1>2, <1>5, <1>9
  <2>2. ~RangesOverlap(a, b)
    BY <1>4, <2>1
  <2> QED
    BY <1>6, <2>2, ApartIsDisjoint
<1> QED
  BY <1>7, <1>8, <1>9

\* There is a first step.
LEMMA StepsBegin ==
    ASSUME NEW s, s.kind \in {"Bootstrap", "Replace", "Decommission", "Move"}
    PROVE  Len(Steps(s)) \in {2, 3}
<1>1. CASE s.kind = "Bootstrap"
  BY <1>1 DEF Steps
<1>2. CASE s.kind = "Replace"
  BY <1>2 DEF Steps
<1>3. CASE s.kind = "Decommission"
  BY <1>3 DEF Steps
<1>4. CASE s.kind = "Move"
  BY <1>4 DEF Steps
<1> QED
  BY <1>1, <1>2, <1>3, <1>4

\* Nothing is locked before the first operation.
LEMMA LockInvInit == TcmInit => LockInv
<1> SUFFICES ASSUME TcmInit PROVE LockInv
  OBVIOUS
<1> USE DEF TcmInit
<1> DEFINE e == 2 * Cardinality(DOMAIN topology.members)
           s0 == [epoch |-> e, nodes |-> topology.members, schema |-> 0]
<1>1. metadata = Restored(s0)
  OBVIOUS
<1>2. DOMAIN metadata = Field
  BY <1>1 DEF Restored, NewMetadata, Field
<1>3. metadata.nodes = topology.members /\ metadata.locks = NoNodes
  BY <1>1 DEF Restored, NewMetadata
<1>4. \A n \in DOMAIN metadata.nodes : metadata.nodes[n].tokens \subseteq (MinToken + 1)..MaxToken
  BY <1>3, TcmAssumption
<1>5. DOMAIN metadata.locks = {}
  BY <1>3 DEF NoNodes
<1>6. DOMAIN caller = topology.sequences /\ \A s \in topology.sequences : caller[s].pc = "look"
  OBVIOUS
<1> QED
  BY <1>2, <1>4, <1>5, <1>6 DEF LockInv, LocksAreDisjoint

\* A step that changes neither locks nor nodes, and of the callers one, keeps the invariant.
LEMMA OnlyCaller ==
    ASSUME LockInv, NEW s \in topology.sequences, NEW request, Becomes(s, request),
           topology' = topology,
           DOMAIN metadata' = Field,
           \A n \in DOMAIN metadata'.nodes : metadata'.nodes[n].tokens \subseteq (MinToken + 1)..MaxToken,
           \A o \in DOMAIN metadata'.locks : metadata'.locks[o] \subseteq Proper,
           LocksAreDisjoint',
           request.pc = "lock" => request.ranges \subseteq Proper,
           request.pc = "step" => request.step \in 1..Len(Steps(s))
    PROVE  LockInv'
<1>1. DOMAIN caller' = topology'.sequences
  BY DEF Becomes, LockInv
<1>2. ASSUME NEW q \in topology'.sequences
      PROVE  /\ caller'[q].pc = "lock" => caller'[q].ranges \subseteq Proper
             /\ caller'[q].pc = "step" => caller'[q].step \in 1..Len(Steps(q))
  <2>1. CASE q = s
    <3>1. caller'[q] = request
      BY <2>1 DEF Becomes, LockInv
    <3> QED
      BY <2>1, <3>1
  <2>2. CASE q # s
    <3>1. caller'[q] = caller[q]
      BY <2>2 DEF Becomes, LockInv
    <3> QED
      BY <1>2, <3>1 DEF LockInv
  <2> QED
    BY <2>1, <2>2
<1>3. topology' \in Topologies
  BY DEF LockInv
<1> QED
  BY <1>1, <1>2, <1>3 DEF LockInv

\* Every commit and every other step keeps the locks apart.
LEMMA LockInvStep ==
    ASSUME \A t \in Topologies : ~t.full, LockInv, [TcmNext]_tcmVars
    PROVE  LockInv'
<1>0. ~topology.full
  BY DEF LockInv
<1>a. ASSUME metadata' = metadata
      PROVE  /\ DOMAIN metadata' = Field
             /\ \A n \in DOMAIN metadata'.nodes :
                  metadata'.nodes[n].tokens \subseteq (MinToken + 1)..MaxToken
             /\ \A o \in DOMAIN metadata'.locks : metadata'.locks[o] \subseteq Proper
             /\ LocksAreDisjoint'
  BY SMT, <1>a DEF LockInv, LocksAreDisjoint
<1>1. ASSUME NEW s \in topology.sequences, Look(s) PROVE LockInv'
  <2> DEFINE request == IF Possible(metadata, s)
                          THEN [pc |-> "lock", expected |-> metadata.epoch,
                                ranges |-> AffectedRanges(metadata, s)]
                          ELSE [pc |-> "done"]
  <2>1. Becomes(s, request) /\ topology' = topology /\ metadata' = metadata
    BY <1>1 DEF Look
  <2>2. request.pc = "lock" => request.ranges \subseteq Proper
    BY <1>0, AffectedAreProper
  <2>3. request.pc # "step"
    OBVIOUS
  <2> HIDE DEF request
  <2> QED
    BY <1>a, <2>1, <2>2, <2>3, OnlyCaller
<1>2. ASSUME NEW s \in topology.sequences, Lock(s) PROVE LockInv'
  <2> DEFINE t == [type |-> "LockRanges", operation |-> s, ranges |-> caller[s].ranges]
  <2>0. topology' = topology
    BY <1>2 DEF Lock
  <2>1. CASE Expects(caller[s].expected) /\ Accepts(metadata, t)
    <3>1. Commit(t) /\ Becomes(s, [pc |-> "step", step |-> 1])
      BY <1>2, <2>1 DEF Lock
    <3>2. caller[s].ranges \in SUBSET Proper
      BY <1>2 DEF Lock, LockInv
    <3>3. \A r \in caller[s].ranges : ~Conflicts(metadata.locks, r)
      BY <2>1 DEF Accepts
    <3>4. Transformed(metadata, t) =
            [metadata EXCEPT !.locks = Insert(metadata.locks, s, caller[s].ranges)]
      BY DEF Transformed
    <3>5. /\ metadata'.locks = Insert(metadata.locks, s, caller[s].ranges)
          /\ metadata'.nodes = metadata.nodes /\ DOMAIN metadata' = Field
      BY <3>1, <3>4 DEF Commit, LockInv, Field
    <3>6. /\ \A o \in DOMAIN metadata'.locks : metadata'.locks[o] \subseteq Proper
          /\ LocksAreDisjoint'
      BY <3>2, <3>3, <3>5, LockedApart DEF LocksAreDisjoint
    <3>7. \A n \in DOMAIN metadata'.nodes :
            metadata'.nodes[n].tokens \subseteq (MinToken + 1)..MaxToken
      BY <3>5 DEF LockInv
    <3>8. s.kind \in {"Bootstrap", "Replace", "Decommission", "Move"}
      BY TcmAssumption DEF LockInv
    <3>9. 1 \in 1..Len(Steps(s))
      BY SMT, <3>8, StepsBegin
    <3> DEFINE request == [pc |-> "step", step |-> 1]
    <3>10. request.pc = "step" /\ request.step = 1
      OBVIOUS
    <3> HIDE DEF request
    <3>11. Becomes(s, request)
      BY <3>1 DEF request
    <3> QED
      BY <2>0, <3>5, <3>6, <3>7, <3>9, <3>10, <3>11, OnlyCaller
  <2>2. CASE ~(Expects(caller[s].expected) /\ Accepts(metadata, t))
    <3> DEFINE request == [pc |-> "look"]
    <3>1. Becomes(s, request) /\ metadata' = metadata
      BY <1>2, <2>2 DEF Lock
    <3>2. request.pc = "look"
      OBVIOUS
    <3> HIDE DEF request
    <3> QED
      BY <1>a, <2>0, <3>1, <3>2, OnlyCaller
  <2> QED
    BY <2>1, <2>2
<1>3. ASSUME NEW s \in topology.sequences, Step(s) PROVE LockInv'
  <2> DEFINE i == caller[s].step
             t == Steps(s)[i]
             next == IF i = Len(Steps(s)) THEN [pc |-> "unlock"] ELSE [pc |-> "step", step |-> i + 1]
  <2>0. topology' = topology
    BY <1>3 DEF Step
  <2>1. s.kind \in {"Bootstrap", "Replace", "Decommission", "Move"} /\ i \in 1..Len(Steps(s))
    BY <1>3, TcmAssumption DEF Step, LockInv
  <2>2. CASE Accepts(metadata, t)
    <3>1. Commit(t) /\ Becomes(s, next)
      BY <1>3, <2>2 DEF Step
    <3>2. /\ t.type \in {"Register", "Unregister", "AssignTokens", "UpdateNodeState"}
          /\ t.type = "AssignTokens" => t.tokens = s.tokens
      BY SMT, <2>1, StepsAreTopology
    <3>3. s.tokens \subseteq (MinToken + 1)..MaxToken
      BY TcmAssumption DEF LockInv
    <3> DEFINE m == Transformed(metadata, t)
    <3>4. /\ DOMAIN m = Field /\ m.locks = metadata.locks
          /\ \A n \in DOMAIN m.nodes : m.nodes[n].tokens \subseteq (MinToken + 1)..MaxToken
      BY <2>2, <3>2, <3>3, TransformedByStep
    <3>5. metadata' = [m EXCEPT !.epoch = metadata.epoch + 1]
      BY <3>1 DEF Commit
    <3> HIDE DEF m
    <3>6. DOMAIN metadata' = Field /\ metadata'.locks = metadata.locks /\ metadata'.nodes = m.nodes
      BY <3>4, <3>5 DEF Field
    <3>7. /\ \A n \in DOMAIN metadata'.nodes :
               metadata'.nodes[n].tokens \subseteq (MinToken + 1)..MaxToken
          /\ \A o \in DOMAIN metadata'.locks : metadata'.locks[o] \subseteq Proper
          /\ LocksAreDisjoint'
      BY <3>4, <3>6 DEF LockInv, LocksAreDisjoint
    <3>8. next.pc # "lock" /\ (next.pc = "step" => next.step \in 1..Len(Steps(s)))
      BY SMT, <2>1, StepsBegin
    <3> HIDE DEF next
    <3> QED
      BY <2>0, <3>1, <3>6, <3>7, <3>8, OnlyCaller
  <2>3. CASE ~Accepts(metadata, t)
    <3> DEFINE request == [pc |-> "unlock"]
    <3>1. Becomes(s, request) /\ metadata' = metadata
      BY <1>3, <2>3 DEF Step
    <3>2. request.pc = "unlock"
      OBVIOUS
    <3> HIDE DEF request
    <3> QED
      BY <1>a, <2>0, <3>1, <3>2, OnlyCaller
  <2> QED
    BY <2>2, <2>3
<1>4. ASSUME NEW s \in topology.sequences, Unlock(s) PROVE LockInv'
  <2> DEFINE t == [type |-> "UnlockRanges", operation |-> s]
             request == [pc |-> "done"]
  <2>1. Commit(t) /\ Becomes(s, request) /\ topology' = topology
    BY <1>4 DEF Unlock
  <2>2. Transformed(metadata, t) = [metadata EXCEPT !.locks = Remove(metadata.locks, s)]
    BY DEF Transformed
  <2>3. /\ metadata'.locks = Remove(metadata.locks, s)
        /\ metadata'.nodes = metadata.nodes /\ DOMAIN metadata' = Field
    BY <2>1, <2>2 DEF Commit, LockInv, Field
  <2>4. /\ DOMAIN metadata'.locks \subseteq DOMAIN metadata.locks
        /\ \A o \in DOMAIN metadata'.locks : metadata'.locks[o] = metadata.locks[o]
    BY <2>3 DEF Remove
  <2>5. /\ \A o \in DOMAIN metadata'.locks : metadata'.locks[o] \subseteq Proper
        /\ LocksAreDisjoint'
    BY <2>4 DEF LockInv, LocksAreDisjoint
  <2>6. request.pc = "done"
    OBVIOUS
  <2> HIDE DEF request
  <2>7. \A n \in DOMAIN metadata'.nodes :
          metadata'.nodes[n].tokens \subseteq (MinToken + 1)..MaxToken
    BY <2>3 DEF LockInv
  <2> QED
    BY <2>1, <2>3, <2>5, <2>6, <2>7, OnlyCaller
<1>5. ASSUME NEW s \in topology.sequences, Abandon(s) PROVE LockInv'
  <2>1. PICK pc \in {"unlock", "done"} : Becomes(s, [pc |-> pc])
    BY <1>5 DEF Abandon
  <2> DEFINE request == [pc |-> pc]
  <2>2. request.pc \in {"unlock", "done"} /\ Becomes(s, request)
    BY <2>1
  <2>3. topology' = topology /\ metadata' = metadata
    BY <1>5 DEF Abandon
  <2> HIDE DEF request
  <2> QED
    BY <1>a, <2>2, <2>3, OnlyCaller
<1>6. CASE ClientCommit
  <2>1. PICK t \in {[type |-> "SchemaChange", schema |-> metadata.epoch + 1], [type |-> "ForceSnapshot"]} :
          Commit(t)
    BY <1>6 DEF ClientCommit
  <2>2. UNCHANGED <<topology, caller>>
    BY <1>6 DEF ClientCommit
  <2>3. Transformed(metadata, t) \in {metadata, [metadata EXCEPT !.schema = metadata.epoch + 1]}
    BY SMT, <2>1 DEF Transformed
  <2>4. /\ metadata'.locks = metadata.locks
        /\ metadata'.nodes = metadata.nodes /\ DOMAIN metadata' = Field
    BY <2>1, <2>3 DEF Commit, LockInv, Field
  <2> QED
    BY <2>2, <2>4 DEF LockInv, LocksAreDisjoint
<1>7. CASE Compact
  BY SMT, <1>7 DEF Compact, LockInv, LocksAreDisjoint
<1>8. CASE UNCHANGED tcmVars
  BY SMT, <1>8 DEF tcmVars, LockInv, LocksAreDisjoint
<1> QED
  BY <1>1, <1>2, <1>3, <1>4, <1>5, <1>6, <1>7, <1>8 DEF TcmNext

\* However many operations run at a time, abandoned or not, and whatever the tokens are,
\* no token is in ranges that two of them have locked, unless the full ring is locked
\* (LockedRanges::lock, ranges_overlap).
THEOREM LocksStayApart ==
    ASSUME \A t \in Topologies : ~t.full
    PROVE  TcmSpec => []LocksAreDisjoint
<1>1. LockInv => LocksAreDisjoint
  BY DEF LockInv
<1> QED
  BY <1>1, LockInvInit, LockInvStep, PTL DEF TcmSpec
-----------------------------------------------------------------------------
\* Owners

\* The ranges that an operation with tokens of its own locks.
Narrow(s) == {<<t - 1, t>> : t \in s.tokens}

\* Nobody has the tokens that the operation is about to assign, but the node it replaces.
Free(s) ==
    \A n \in DOMAIN metadata.nodes : \A t \in metadata.nodes[n].tokens \cap s.tokens :
      s.kind = "Replace" /\ n = s.replacing

\* The tokens have been assigned, or will not be any more.
Tried(s) ==
    caller[s].pc \in {"unlock", "done"} \/ (caller[s].pc = "step" /\ caller[s].step = 3)

\* What a caller has found holds while the epoch is the one it has seen, and then under its
\* locks until the tokens are assigned.
OperationInv(s) ==
    s.kind # "Decommission" =>
      /\ caller[s].pc = "lock" =>
           /\ caller[s].ranges = Narrow(s) /\ caller[s].expected \in 0..metadata.epoch
           /\ caller[s].expected = metadata.epoch => Free(s)
      /\ caller[s].pc = "step" =>
           /\ s \in DOMAIN metadata.locks /\ metadata.locks[s] = Narrow(s)
           /\ caller[s].step \in {1, 2} => Free(s)

\* A token that two nodes have is one of a replacement that has got that far.
SharedInv ==
    \A n, q \in DOMAIN metadata.nodes :
      \A t \in metadata.nodes[n].tokens \cap metadata.nodes[q].tokens :
        n # q => \E s \in topology.sequences :
                   s.kind = "Replace" /\ {s.node, s.replacing} = {n, q} /\ t \in s.tokens /\ Tried(s)

OwnerInv ==
    /\ LockInv /\ metadata.epoch \in Nat /\ SharedInv
    /\ \A s \in topology.sequences : OperationInv(s)

\* From one state to the next no node gets a token.
NobodyGains(before, after) ==
    \A n \in DOMAIN after : \A t \in after[n].tokens : n \in DOMAIN before /\ t \in before[n].tokens

\* Tokens are assigned by the second step, to the operation's node.
LEMMA StepsAssignOnce ==
    ASSUME NEW s, s.kind \in {"Bootstrap", "Replace", "Decommission", "Move"},
           NEW i \in 1..Len(Steps(s)), Steps(s)[i].type = "AssignTokens"
    PROVE  i = 2 /\ Steps(s)[i].node = s.node /\ Steps(s)[i].tokens = s.tokens /\ s.kind # "Decommission"
<1>1. CASE s.kind = "Bootstrap"
  <2>1. Steps(s) = <<Register(s.node, s.endpoint), AssignTokens(s.node, s.tokens),
                     UpdateNodeState(s.node, "Normal")>>
    BY <1>1 DEF Steps
  <2>2. i \in {1, 2, 3}
    BY SMT, <2>1
  <2> QED
    BY SMT, <1>1, <2>1, <2>2 DEF Register, AssignTokens, UpdateNodeState
<1>2. CASE s.kind = "Replace"
  <2>1. Steps(s) = <<Register(s.node, s.endpoint), AssignTokens(s.node, s.tokens),
                     Unregister(s.replacing)>>
    BY <1>2 DEF Steps
  <2>2. i \in {1, 2, 3}
    BY SMT, <2>1
  <2> QED
    BY SMT, <1>2, <2>1, <2>2 DEF Register, AssignTokens, Unregister
<1>3. CASE s.kind = "Decommission"
  <2>1. Steps(s) = <<UpdateNodeState(s.node, "Leaving"), Unregister(s.node)>>
    BY <1>3 DEF Steps
  <2>2. i \in {1, 2}
    BY SMT, <2>1
  <2> QED
    BY SMT, <2>1, <2>2 DEF UpdateNodeState, Unregister
<1>4. CASE s.kind = "Move"
  <2>1. Steps(s) = <<UpdateNodeState(s.node, "Moving"), AssignTokens(s.node, s.tokens)>>
    BY <1>4 DEF Steps
  <2>2. i \in {1, 2}
    BY SMT, <2>1
  <2> QED
    BY SMT, <1>4, <2>1, <2>2 DEF UpdateNodeState, AssignTokens
<1> QED
  BY <1>1, <1>2, <1>3, <1>4

\* Only the assignment of tokens gives a node any.
LEMMA WhoGains ==
    ASSUME LockInv, NEW t, Accepts(metadata, t),
           t.type \in {"Register", "Unregister", "AssignTokens", "UpdateNodeState"}
    PROVE  LET m == Transformed(metadata, t) IN
             /\ t.type # "AssignTokens" => NobodyGains(metadata.nodes, m.nodes)
             /\ t.type = "AssignTokens" =>
                  /\ DOMAIN m.nodes = DOMAIN metadata.nodes
                  /\ m.nodes[t.node].tokens = t.tokens
                  /\ \A n \in DOMAIN m.nodes : n # t.node => m.nodes[n].tokens = metadata.nodes[n].tokens
<1> DEFINE m == Transformed(metadata, t)
<1>1. CASE t.type = "Register"
  <2> DEFINE info == [endpoint |-> t.endpoint, tokens |-> {}, state |-> "Normal"]
  <2>1. m = Registered(metadata, t.node, info)
    BY <1>1 DEF Transformed
  <2>2. m.nodes = Insert(metadata.nodes, t.node, info)
    BY <2>1 DEF Registered, LockInv, Field
  <2>3. info.tokens = {}
    OBVIOUS
  <2> HIDE DEF m, info
  <2>4. NobodyGains(metadata.nodes, m.nodes)
    BY <2>2, <2>3 DEF Insert, NobodyGains
  <2> QED
    BY <1>1, <2>4 DEF m
<1>2. CASE t.type = "Unregister"
  <2>1. m = Unregistered(metadata, t.node)
    BY <1>2 DEF Transformed
  <2>2. m.nodes \in {metadata.nodes, Remove(metadata.nodes, t.node)}
    BY <2>1 DEF Unregistered, LockInv, Field
  <2> HIDE DEF m
  <2>3. NobodyGains(metadata.nodes, m.nodes)
    BY <2>2 DEF Remove, NobodyGains
  <2> QED
    BY <1>2, <2>3 DEF m
<1>3. CASE t.type = "AssignTokens"
  <2> DEFINE info == [endpoint |-> metadata.nodes[t.node].endpoint, tokens |-> t.tokens, state |-> "Normal"]
  <2>1. m = [metadata EXCEPT !.nodes = Insert(metadata.nodes, t.node, info)]
    BY <1>3 DEF Transformed
  <2>2. m.nodes = Insert(metadata.nodes, t.node, info)
    BY <2>1 DEF LockInv, Field
  <2>3. info.tokens = t.tokens
    OBVIOUS
  <2>4. t.node \in DOMAIN metadata.nodes
    BY <1>3 DEF Accepts
  <2> HIDE DEF m, info
  <2>5. DOMAIN m.nodes = DOMAIN metadata.nodes
    BY <2>2, <2>4 DEF Insert
  <2>6. m.nodes[t.node] = info
    BY <2>2, <2>4 DEF Insert
  <2>7. \A n \in DOMAIN metadata.nodes : n # t.node => m.nodes[n] = metadata.nodes[n]
    BY <2>2 DEF Insert
  <2> QED
    BY <1>3, <2>3, <2>5, <2>6, <2>7 DEF m
<1>4. CASE t.type = "UpdateNodeState"
  <2> DEFINE info == [endpoint |-> metadata.nodes[t.node].endpoint,
                      tokens |-> metadata.nodes[t.node].tokens, state |-> t.state]
  <2>1. m = [metadata EXCEPT !.nodes = Insert(metadata.nodes, t.node, info)]
    BY <1>4 DEF Transformed
  <2>2. m.nodes = Insert(metadata.nodes, t.node, info)
    BY <2>1 DEF LockInv, Field
  <2>3. t.node \in DOMAIN metadata.nodes
    BY <1>4 DEF Accepts
  <2>4. info.tokens = metadata.nodes[t.node].tokens
    OBVIOUS
  <2> HIDE DEF m, info
  <2>5. NobodyGains(metadata.nodes, m.nodes)
    BY <2>2, <2>3, <2>4 DEF Insert, NobodyGains
  <2> QED
    BY <1>4, <2>5 DEF m
<1> QED
  BY <1>1, <1>2, <1>3, <1>4

\* Who has tried stays one who has.
LEMMA TriedStays ==
    ASSUME LockInv, [TcmNext]_tcmVars, NEW x \in topology.sequences, Tried(x)
    PROVE  Tried(x)'
<1>1. CASE caller'[x] = caller[x]
  BY <1>1 DEF Tried
<1>2. ASSUME NEW s \in topology.sequences, NEW request, Becomes(s, request), s # x
      PROVE  caller'[x] = caller[x]
  BY <1>2 DEF Becomes, LockInv
<1>3. ASSUME NEW request, Becomes(x, request), request.pc \in {"unlock", "done"}
      PROVE  Tried(x)'
  <2>1. caller'[x] = request
    BY <1>3 DEF Becomes, LockInv
  <2> QED
    BY <1>3, <2>1 DEF Tried
<1>4. ASSUME NEW s \in topology.sequences, Look(s) PROVE Tried(x)'
  <2>1. \E request : Becomes(s, request)
    BY <1>4 DEF Look
  <2>2. s # x
    BY <1>4 DEF Look, Tried
  <2> QED
    BY <1>1, <1>2, <2>1, <2>2
<1>5. ASSUME NEW s \in topology.sequences, Lock(s) PROVE Tried(x)'
  <2>1. \E request : Becomes(s, request)
    BY <1>5 DEF Lock
  <2>2. s # x
    BY <1>5 DEF Lock, Tried
  <2> QED
    BY <1>1, <1>2, <2>1, <2>2
<1>6. ASSUME NEW s \in topology.sequences, Step(s) PROVE Tried(x)'
  <2>1. \E request : Becomes(s, request)
    BY <1>6 DEF Step
  <2>2. CASE s = x
    <3>1. caller[x].step = 3
      BY <1>6, <2>2 DEF Step, Tried
    <3>2. x.kind \in {"Bootstrap", "Replace", "Decommission", "Move"} /\ 3 \in 1..Len(Steps(x))
      BY <1>6, <2>2, <3>1, TcmAssumption DEF Step, LockInv
    <3>c. x.kind \in {"Bootstrap", "Replace", "Decommission", "Move"}
      BY <3>2
    <3>a. Len(Steps(x)) = 2 \/ Len(Steps(x)) = 3
      BY SMT, <3>c, StepsBegin
    <3>b. 3 \notin 1..2
      BY SMT
    <3>3. Len(Steps(x)) = 3
      BY <3>2, <3>a, <3>b
    <3>4. Becomes(x, [pc |-> "unlock"])
      BY <1>6, <2>2, <3>1, <3>3 DEF Step
    <3> QED
      BY <1>3, <3>4
  <2> QED
    BY <1>1, <1>2, <2>1, <2>2
<1>7. ASSUME NEW s \in topology.sequences, Unlock(s) PROVE Tried(x)'
  <2>1. Becomes(s, [pc |-> "done"])
    BY <1>7 DEF Unlock
  <2> QED
    BY <1>1, <1>2, <1>3, <2>1
<1>8. ASSUME NEW s \in topology.sequences, Abandon(s) PROVE Tried(x)'
  <2>1. PICK pc \in {"unlock", "done"} : Becomes(s, [pc |-> pc])
    BY <1>8 DEF Abandon
  <2> QED
    BY <1>1, <1>2, <1>3, <2>1
<1>9. CASE ClientCommit \/ Compact \/ UNCHANGED tcmVars
  BY <1>1, <1>9 DEF ClientCommit, Compact, tcmVars
<1> QED
  BY <1>4, <1>5, <1>6, <1>7, <1>8, <1>9 DEF TcmNext

\* When nobody gains a token, what was free stays free, and every shared token was shared.
LEMMA FreeStays ==
    ASSUME NobodyGains(metadata.nodes, metadata'.nodes), NEW s, Free(s)
    PROVE  Free(s)'
BY DEF Free, NobodyGains

\* As long as no node gains a token, a token is shared only by a node and its replacement.
LEMMA SharedStays ==
    ASSUME LockInv, SharedInv, [TcmNext]_tcmVars, topology' = topology,
           NobodyGains(metadata.nodes, metadata'.nodes)
    PROVE  SharedInv'
<1> SUFFICES ASSUME NEW n \in DOMAIN metadata'.nodes, NEW q \in DOMAIN metadata'.nodes,
                    NEW t \in metadata'.nodes[n].tokens \cap metadata'.nodes[q].tokens, n # q
             PROVE  \E s \in topology'.sequences :
                      s.kind = "Replace" /\ {s.node, s.replacing} = {n, q} /\ t \in s.tokens /\ Tried(s)'
  BY DEF SharedInv
<1>1. /\ n \in DOMAIN metadata.nodes /\ q \in DOMAIN metadata.nodes
      /\ t \in metadata.nodes[n].tokens \cap metadata.nodes[q].tokens
  BY DEF NobodyGains
<1>2. PICK s \in topology.sequences :
        s.kind = "Replace" /\ {s.node, s.replacing} = {n, q} /\ t \in s.tokens /\ Tried(s)
  BY <1>1 DEF SharedInv
<1>3. Tried(s)'
  BY <1>2, TriedStays
<1> QED
  BY <1>2, <1>3

\* An operation whose caller does not move, and whose locks stay, when nobody gains a token.
LEMMA OperationStays ==
    ASSUME NEW x, OperationInv(x), caller'[x] = caller[x],
           metadata.epoch \in Nat, metadata'.epoch \in {metadata.epoch, metadata.epoch + 1},
           x \in DOMAIN metadata.locks =>
             x \in DOMAIN metadata'.locks /\ metadata'.locks[x] = metadata.locks[x],
           NobodyGains(metadata.nodes, metadata'.nodes)
    PROVE  OperationInv(x)'
<1>1. Free(x) => Free(x)'
  BY FreeStays
<1>2. \A e \in 0..metadata.epoch : /\ e \in 0..metadata'.epoch
                                   /\ e = metadata'.epoch => e = metadata.epoch
  BY SMT
<1>3. ASSUME x.kind # "Decommission", caller'[x].pc = "lock"
      PROVE  /\ caller'[x].ranges = Narrow(x) /\ caller'[x].expected \in 0..metadata'.epoch
             /\ caller'[x].expected = metadata'.epoch => Free(x)'
  <2>1. /\ caller[x].ranges = Narrow(x) /\ caller[x].expected \in 0..metadata.epoch
        /\ caller[x].expected = metadata.epoch => Free(x)
    BY <1>3 DEF OperationInv
  <2> QED
    BY <1>1, <1>2, <2>1
<1>4. ASSUME x.kind # "Decommission", caller'[x].pc = "step"
      PROVE  /\ x \in DOMAIN metadata'.locks /\ metadata'.locks[x] = Narrow(x)
             /\ caller'[x].step \in {1, 2} => Free(x)'
  <2>1. /\ x \in DOMAIN metadata.locks /\ metadata.locks[x] = Narrow(x)
        /\ caller[x].step \in {1, 2} => Free(x)
    BY <1>4 DEF OperationInv
  <2> QED
    BY <1>1, <2>1
<1> QED
  BY <1>3, <1>4 DEF OperationInv

\* A caller that has looked: nobody has the tokens, or the replaced node has them alone.
LEMMA PossibleIsFree ==
    ASSUME OwnerInv, NEW s \in topology.sequences, s.kind # "Decommission",
           \A x \in topology.sequences :
             x.kind = "Replace" /\ s.kind = "Replace" /\ x.tokens \cap s.tokens # {} => x = s,
           ~Tried(s), Possible(metadata, s)
    PROVE  Free(s)
<1>1. s.kind \in {"Bootstrap", "Replace", "Move"}
  BY TcmAssumption DEF OwnerInv, LockInv
<1>2. CASE s.kind # "Replace"
  <2>1. s.tokens \cap Tokens(metadata) = {}
    BY <1>1, <1>2 DEF Possible
  <2> QED
    BY <2>1 DEF Tokens, Free
<1>3. CASE s.kind = "Replace"
  <2>1. s.replacing \in DOMAIN metadata.nodes /\ s.tokens = metadata.nodes[s.replacing].tokens
    BY <1>3 DEF Possible
  <2> SUFFICES ASSUME NEW n \in DOMAIN metadata.nodes, NEW t \in metadata.nodes[n].tokens \cap s.tokens,
                      n # s.replacing
               PROVE  FALSE
    BY <1>3 DEF Free
  <2>2. PICK x \in topology.sequences :
          x.kind = "Replace" /\ {x.node, x.replacing} = {n, s.replacing} /\ t \in x.tokens /\ Tried(x)
    BY <2>1 DEF OwnerInv, SharedInv
  <2>3. x = s
    BY <1>3, <2>2
  <2> QED
    BY <2>2, <2>3
<1> QED
  BY <1>2, <1>3

\* Two replacements that are for the same token are one.
OneReplacement ==
    \A t \in Topologies : \A x, s \in t.sequences :
      x.kind = "Replace" /\ s.kind = "Replace" /\ x.tokens \cap s.tokens # {} => x = s

\* A step by which nobody gains a token, and by which the caller of s alone moves.
LEMMA OwnerByCaller ==
    ASSUME OwnerInv, LockInv', [TcmNext]_tcmVars, topology' = topology,
           NEW s \in topology.sequences, NEW request, Becomes(s, request),
           metadata'.epoch \in {metadata.epoch, metadata.epoch + 1},
           NobodyGains(metadata.nodes, metadata'.nodes),
           \A x \in DOMAIN metadata.locks : x # s =>
             x \in DOMAIN metadata'.locks /\ metadata'.locks[x] = metadata.locks[x],
           OperationInv(s)'
    PROVE  OwnerInv'
<1>1. SharedInv'
  BY SharedStays DEF OwnerInv
<1>2. metadata.epoch \in Nat /\ metadata'.epoch \in Nat
  BY SMT DEF OwnerInv
<1>3. ASSUME NEW x \in topology'.sequences PROVE OperationInv(x)'
  <2>1. CASE x = s
    BY <2>1
  <2>2. CASE x # s
    <3>1. caller'[x] = caller[x]
      BY <1>3, <2>2 DEF Becomes, OwnerInv, LockInv
    <3>2. OperationInv(x)
      BY <1>3 DEF OwnerInv
    <3> QED
      BY <1>2, <2>2, <3>1, <3>2, OperationStays
  <2> QED
    BY <2>1, <2>2
<1> QED
  BY <1>1, <1>2, <1>3 DEF OwnerInv

\* The tokens of two operations that hold their locks are not the same.
LEMMA LockedTokensDiffer ==
    ASSUME LockInv, NEW s \in topology.sequences, NEW x \in topology.sequences, s # x,
           s \in DOMAIN metadata.locks, metadata.locks[s] = Narrow(s),
           x \in DOMAIN metadata.locks, metadata.locks[x] = Narrow(x)
    PROVE  s.tokens \cap x.tokens = {}
<1> SUFFICES ASSUME NEW t \in s.tokens \cap x.tokens PROVE FALSE
  OBVIOUS
<1>1. t \in (MinToken + 1)..MaxToken
  BY TcmAssumption DEF LockInv
<1>2. t \in Token /\ Contains(<<t - 1, t>>, t)
  BY SMT, <1>1, TcmAssumption DEF Token, Contains, WrapsAround, FullRing
<1>3. <<t - 1, t>> \in metadata.locks[s] /\ <<t - 1, t>> \in metadata.locks[x]
  BY DEF Narrow
<1> QED
  BY <1>2, <1>3 DEF LockInv, LocksAreDisjoint

\* The step that assigns the tokens of s.
LEMMA OwnerByAssignment ==
    ASSUME OwnerInv, LockInv', [TcmNext]_tcmVars, topology' = topology,
           NEW s \in topology.sequences, s.kind # "Decommission",
           caller[s].pc = "step", caller[s].step = 2, Tried(s)',
           NEW request, Becomes(s, request), request.pc # "lock",
           request.pc = "step" => request.step = 3,
           metadata'.epoch = metadata.epoch + 1, metadata'.locks = metadata.locks,
           DOMAIN metadata'.nodes = DOMAIN metadata.nodes,
           metadata'.nodes[s.node].tokens = s.tokens,
           \A n \in DOMAIN metadata'.nodes :
             n # s.node => metadata'.nodes[n].tokens = metadata.nodes[n].tokens
    PROVE  OwnerInv'
<1>1. /\ s \in DOMAIN metadata.locks /\ metadata.locks[s] = Narrow(s) /\ Free(s)
      /\ LockInv /\ SharedInv /\ metadata.epoch \in Nat
  BY DEF OwnerInv, OperationInv
<1>2. caller'[s] = request /\ \A x \in topology.sequences : x # s => caller'[x] = caller[x]
  BY <1>1 DEF Becomes, LockInv
<1>3. OperationInv(s)'
  <2>1. caller'[s].pc = "step" => caller'[s].step = 3
    BY <1>2
  <2>2. 3 \notin {1, 2}
    BY SMT
  <2> QED
    BY <1>1, <1>2, <2>1, <2>2 DEF OperationInv, Narrow
<1>4. ASSUME NEW x \in topology.sequences, x # s PROVE OperationInv(x)'
  <2>0. OperationInv(x) /\ caller'[x] = caller[x]
    BY <1>2, <1>4 DEF OwnerInv
  <2>1. ASSUME x.kind # "Decommission", caller'[x].pc = "lock"
        PROVE  /\ caller'[x].ranges = Narrow(x) /\ caller'[x].expected \in 0..metadata'.epoch
               /\ caller'[x].expected # metadata'.epoch
    <3>1. caller[x].ranges = Narrow(x) /\ caller[x].expected \in 0..metadata.epoch
      BY <2>0, <2>1 DEF OperationInv
    <3>2. \A e \in 0..metadata.epoch : e \in 0..metadata'.epoch /\ e # metadata'.epoch
      BY SMT, <1>1
    <3> QED
      BY <2>0, <3>1, <3>2
  <2>2. ASSUME x.kind # "Decommission", caller'[x].pc = "step"
        PROVE  /\ x \in DOMAIN metadata'.locks /\ metadata'.locks[x] = Narrow(x)
               /\ caller'[x].step \in {1, 2} => Free(x)'
    <3>1. /\ x \in DOMAIN metadata.locks /\ metadata.locks[x] = Narrow(x)
          /\ caller[x].step \in {1, 2} => Free(x)
      BY <2>0, <2>2 DEF OperationInv
    <3>2. s.tokens \cap x.tokens = {}
      BY <1>1, <1>4, <3>1, LockedTokensDiffer
    <3>3. Free(x) => Free(x)'
      BY <3>2 DEF Free
    <3> QED
      BY <2>0, <3>1, <3>3
  <2> QED
    BY <2>1, <2>2 DEF OperationInv
<1>5. SharedInv'
  <2> SUFFICES ASSUME NEW n \in DOMAIN metadata'.nodes, NEW q \in DOMAIN metadata'.nodes,
                      NEW t \in metadata'.nodes[n].tokens \cap metadata'.nodes[q].tokens, n # q
               PROVE  \E x \in topology'.sequences :
                        x.kind = "Replace" /\ {x.node, x.replacing} = {n, q} /\ t \in x.tokens /\ Tried(x)'
    BY DEF SharedInv
  <2>1. CASE n # s.node /\ q # s.node
    <3>1. /\ n \in DOMAIN metadata.nodes /\ q \in DOMAIN metadata.nodes
          /\ t \in metadata.nodes[n].tokens \cap metadata.nodes[q].tokens
      BY <2>1
    <3>2. PICK x \in topology.sequences :
            x.kind = "Replace" /\ {x.node, x.replacing} = {n, q} /\ t \in x.tokens /\ Tried(x)
      BY <1>1, <3>1 DEF SharedInv
    <3>3. Tried(x)'
      BY <1>1, <3>2, TriedStays
    <3> QED
      BY <3>2, <3>3
  <2>2. CASE n = s.node
    <3>1. t \in s.tokens /\ t \in metadata.nodes[q].tokens
      BY <2>2
    <3>2. s.kind = "Replace" /\ q = s.replacing
      BY <1>1, <3>1 DEF Free
    <3> QED
      BY <2>2, <3>1, <3>2
  <2>3. CASE q = s.node
    <3>1. t \in s.tokens /\ t \in metadata.nodes[n].tokens
      BY <2>3
    <3>2. s.kind = "Replace" /\ n = s.replacing
      BY <1>1, <3>1 DEF Free
    <3>3. {s.node, s.replacing} = {n, q}
      BY <2>3, <3>2
    <3> QED
      BY <3>1, <3>2, <3>3
  <2> QED
    BY <2>1, <2>2, <2>3
<1>6. metadata'.epoch \in Nat
  BY SMT, <1>1
<1> QED
  BY <1>3, <1>4, <1>5, <1>6 DEF OwnerInv

\* The members begin with tokens of their own.
DistinctTokens ==
    \A t \in Topologies : \A n, q \in DOMAIN t.members :
      n # q => t.members[n].tokens \cap t.members[q].tokens = {}

\* The members begin with tokens of their own.
LEMMA OwnerInvInit ==
    ASSUME DistinctTokens, TcmInit PROVE OwnerInv
<1>0. LockInv
  BY LockInvInit
<1> USE DEF TcmInit
<1> DEFINE e == 2 * Cardinality(DOMAIN topology.members)
           s0 == [epoch |-> e, nodes |-> topology.members, schema |-> 0]
<1>1. metadata = Restored(s0)
  OBVIOUS
<1>2. metadata.nodes = topology.members /\ metadata.epoch = e
  BY <1>1 DEF Restored, NewMetadata
<1>3. Cardinality(DOMAIN topology.members) \in Nat
  BY TcmAssumption
<1>4. e \in Nat
  BY SMT, <1>3
<1>5. \A s \in topology.sequences : caller[s].pc = "look"
  OBVIOUS
<1>6. SharedInv
  <2>1. topology \in Topologies
    OBVIOUS
  <2>2. \A n, q \in DOMAIN metadata.nodes :
          n # q => metadata.nodes[n].tokens \cap metadata.nodes[q].tokens = {}
    BY <1>2, <2>1 DEF DistinctTokens
  <2>3. ASSUME NEW n \in DOMAIN metadata.nodes, NEW q \in DOMAIN metadata.nodes,
               NEW t \in metadata.nodes[n].tokens \cap metadata.nodes[q].tokens, n # q
        PROVE  FALSE
    BY <2>2, <2>3
  <2> HIDE DEF TcmInit
  <2> QED
    BY <2>3 DEF SharedInv
<1> QED
  BY <1>0, <1>2, <1>4, <1>5, <1>6 DEF OwnerInv, OperationInv

\* A commit, the lock of a caller that is up to date, a step under its locks: each keeps
\* every token with one owner.
LEMMA OwnerInvStep ==
    ASSUME \A t \in Topologies : ~t.full, OneReplacement, OwnerInv, [TcmNext]_tcmVars
    PROVE  OwnerInv'
<1>0. LockInv /\ LockInv' /\ metadata.epoch \in Nat /\ SharedInv
  BY LockInvStep DEF OwnerInv
<1>a. NobodyGains(metadata.nodes, metadata.nodes)
  BY DEF NobodyGains
<1>b. ASSUME NEW s \in topology.sequences, NEW request, Becomes(s, request)
      PROVE  caller'[s] = request
  BY <1>0, <1>b DEF Becomes, LockInv
<1>c. ASSUME NEW s \in topology.sequences, NEW request, Becomes(s, request),
             request.pc = "look" \/ request.pc = "unlock" \/ request.pc = "done"
      PROVE  OperationInv(s)'
  <2>1. caller'[s] = request
    BY <1>b, <1>c
  <2> QED
    BY <1>c, <2>1 DEF OperationInv
<1>1. ASSUME NEW s \in topology.sequences, Look(s) PROVE OwnerInv'
  <2> DEFINE request == IF Possible(metadata, s)
                          THEN [pc |-> "lock", expected |-> metadata.epoch,
                                ranges |-> AffectedRanges(metadata, s)]
                          ELSE [pc |-> "done"]
  <2>1. Becomes(s, request) /\ topology' = topology /\ metadata' = metadata /\ caller[s].pc = "look"
    BY <1>1 DEF Look
  <2>2. ~Tried(s)
    BY <2>1 DEF Tried
  <2>3. OperationInv(s)'
    <3>1. CASE s.kind # "Decommission" /\ Possible(metadata, s)
      <4>1. Free(s)
        BY <1>0, <2>2, <3>1, PossibleIsFree DEF OneReplacement, LockInv
      <4>2. Free(s)'
        BY <2>1, <4>1 DEF Free
      <4>3. AffectedRanges(metadata, s) = Narrow(s)
        BY <3>1 DEF AffectedRanges, Narrow
      <4>5. caller'[s] = request
        BY <1>b, <2>1
      <4>a. request.pc = "lock" /\ request.expected = metadata.epoch /\ request.ranges = Narrow(s)
        BY <3>1, <4>3
      <4> HIDE DEF request
      <4>6. /\ caller'[s].pc = "lock" /\ caller'[s].expected = metadata.epoch
            /\ caller'[s].ranges = Narrow(s)
        BY <4>a, <4>5
      <4>7. metadata.epoch \in 0..metadata'.epoch
        BY SMT, <1>0, <2>1
      <4> QED
        BY <4>2, <4>6, <4>7 DEF OperationInv, Narrow
    <3>2. CASE s.kind = "Decommission"
      BY <3>2 DEF OperationInv
    <3>3. CASE ~Possible(metadata, s)
      <4>1. request.pc = "done"
        BY <3>3
      <4> HIDE DEF request
      <4> QED
        BY <1>c, <2>1, <4>1
    <3> QED
      BY <3>1, <3>2, <3>3
  <2> HIDE DEF request
  <2> QED
    BY <1>0, <1>a, <2>1, <2>3, OwnerByCaller
<1>2. ASSUME NEW s \in topology.sequences, Lock(s) PROVE OwnerInv'
  <2> DEFINE t == [type |-> "LockRanges", operation |-> s, ranges |-> caller[s].ranges]
  <2>0. topology' = topology /\ caller[s].pc = "lock"
    BY <1>2 DEF Lock
  <2>1. CASE Expects(caller[s].expected) /\ Accepts(metadata, t)
    <3> DEFINE request == [pc |-> "step", step |-> 1]
    <3>1. Commit(t) /\ Becomes(s, request)
      BY <1>2, <2>1 DEF Lock
    <3>2. Transformed(metadata, t) =
            [metadata EXCEPT !.locks = Insert(metadata.locks, s, caller[s].ranges)]
      BY DEF Transformed
    <3>3. /\ metadata'.locks = Insert(metadata.locks, s, caller[s].ranges)
          /\ metadata'.nodes = metadata.nodes /\ metadata'.epoch = metadata.epoch + 1
      BY <1>0, <3>1, <3>2 DEF Commit, LockInv, Field
    <3>4. /\ s \in DOMAIN metadata'.locks /\ metadata'.locks[s] = caller[s].ranges
          /\ \A x \in DOMAIN metadata.locks : x # s =>
               x \in DOMAIN metadata'.locks /\ metadata'.locks[x] = metadata.locks[x]
      BY <3>3 DEF Insert
    <3>5. s.kind # "Decommission" => caller[s].ranges = Narrow(s) /\ Free(s)
      BY <2>0, <2>1 DEF OwnerInv, OperationInv, Expects
    <3>6. Free(s) => Free(s)'
      BY <3>3 DEF Free
    <3>a. request.pc = "step"
      OBVIOUS
    <3> HIDE DEF request
    <3>b. caller'[s] = request
      BY <1>b, <3>1
    <3>7. caller'[s].pc = "step"
      BY <3>a, <3>b
    <3>8. OperationInv(s)'
      BY <3>4, <3>5, <3>6, <3>7 DEF OperationInv, Narrow
    <3> QED
      BY <1>0, <1>a, <2>0, <3>1, <3>3, <3>4, <3>8, OwnerByCaller
  <2>2. CASE ~(Expects(caller[s].expected) /\ Accepts(metadata, t))
    <3> DEFINE request == [pc |-> "look"]
    <3>a. request.pc = "look"
      OBVIOUS
    <3>1. Becomes(s, request) /\ metadata' = metadata
      BY <1>2, <2>2 DEF Lock
    <3> HIDE DEF request
    <3>2. OperationInv(s)'
      BY <1>c, <3>a, <3>1
    <3> QED
      BY <1>0, <1>a, <2>0, <3>1, <3>2, OwnerByCaller
  <2> QED
    BY <2>1, <2>2
<1>3. ASSUME NEW s \in topology.sequences, Step(s) PROVE OwnerInv'
  <2> DEFINE i == caller[s].step
             t == Steps(s)[i]
             next == IF i = Len(Steps(s)) THEN [pc |-> "unlock"] ELSE [pc |-> "step", step |-> i + 1]
  <2>0. topology' = topology /\ caller[s].pc = "step"
    BY <1>3 DEF Step
  <2>1. s.kind \in {"Bootstrap", "Replace", "Decommission", "Move"} /\ i \in 1..Len(Steps(s))
    BY <1>0, <2>0, TcmAssumption DEF LockInv
  <2>2. CASE Accepts(metadata, t)
    <3>1. Commit(t) /\ Becomes(s, next)
      BY <1>3, <2>2 DEF Step
    <3>2. /\ t.type \in {"Register", "Unregister", "AssignTokens", "UpdateNodeState"}
          /\ t.type = "AssignTokens" => t.tokens = s.tokens
      BY SMT, <2>1, StepsAreTopology
    <3>3. s.tokens \subseteq (MinToken + 1)..MaxToken
      BY <1>0, TcmAssumption DEF LockInv
    <3> DEFINE m == Transformed(metadata, t)
    <3>4. DOMAIN m = Field /\ m.locks = metadata.locks
      BY <1>0, <2>2, <3>2, <3>3, TransformedByStep
    <3>5. /\ t.type # "AssignTokens" => NobodyGains(metadata.nodes, m.nodes)
          /\ t.type = "AssignTokens" =>
               /\ DOMAIN m.nodes = DOMAIN metadata.nodes
               /\ m.nodes[t.node].tokens = t.tokens
               /\ \A n \in DOMAIN m.nodes : n # t.node => m.nodes[n].tokens = metadata.nodes[n].tokens
      BY <1>0, <2>2, <3>2, WhoGains
    <3>6. metadata' = [m EXCEPT !.epoch = metadata.epoch + 1]
      BY <3>1 DEF Commit
    <3> HIDE DEF m
    <3>7. /\ metadata'.locks = metadata.locks /\ metadata'.nodes = m.nodes
          /\ metadata'.epoch = metadata.epoch + 1
      BY <3>4, <3>6 DEF Field
    <3>8. caller'[s] = next
      BY <1>b, <3>1
    <3>9. /\ next.pc \in {"unlock", "step"} /\ (next.pc = "step" => next.step = i + 1)
      OBVIOUS
    <3> HIDE DEF next
    <3>10. CASE t.type # "AssignTokens"
      <4>1. NobodyGains(metadata.nodes, metadata'.nodes)
        BY <3>5, <3>7, <3>10
      <4>2. CASE s.kind = "Decommission"
        <5>1. OperationInv(s)'
          BY <4>2 DEF OperationInv
        <5> QED
          BY <1>0, <2>0, <3>1, <3>7, <4>1, <5>1, OwnerByCaller
      <4>3. CASE s.kind # "Decommission"
        <5>1. /\ s \in DOMAIN metadata.locks /\ metadata.locks[s] = Narrow(s)
              /\ i \in {1, 2} => Free(s)
          BY <2>0, <4>3 DEF OwnerInv, OperationInv
        <5>2. Free(s) => Free(s)'
          BY <4>1, FreeStays
        <5>3. i + 1 \in {1, 2} => i \in {1, 2}
          BY SMT, <2>1
        <5>4. OperationInv(s)'
          BY <3>7, <3>8, <3>9, <5>1, <5>2, <5>3 DEF OperationInv, Narrow
        <5> QED
          BY <1>0, <2>0, <3>1, <3>7, <4>1, <5>4, OwnerByCaller
      <4> QED
        BY <4>2, <4>3
    <3>11. CASE t.type = "AssignTokens"
      <4>1. i = 2 /\ t.node = s.node /\ t.tokens = s.tokens /\ s.kind # "Decommission"
        BY SMT, <2>1, <3>11, StepsAssignOnce
      <4>2. next.pc = "step" => next.step = 3
        BY SMT, <3>9, <4>1
      <4>3. Tried(s)'
        BY <3>8, <3>9, <4>2 DEF Tried
      <4>4. /\ DOMAIN metadata'.nodes = DOMAIN metadata.nodes
            /\ metadata'.nodes[s.node].tokens = s.tokens
            /\ \A n \in DOMAIN metadata'.nodes :
                 n # s.node => metadata'.nodes[n].tokens = metadata.nodes[n].tokens
        BY <3>5, <3>7, <3>11, <4>1
      <4>5. next.pc # "lock"
        BY <3>9
      <4> QED
        BY <1>0, <2>0, <3>1, <3>7, <4>1, <4>2, <4>3, <4>4, <4>5, OwnerByAssignment
    <3> QED
      BY <3>10, <3>11
  <2>3. CASE ~Accepts(metadata, t)
    <3> DEFINE request == [pc |-> "unlock"]
    <3>a. request.pc = "unlock"
      OBVIOUS
    <3>1. Becomes(s, request) /\ metadata' = metadata
      BY <1>3, <2>3 DEF Step
    <3> HIDE DEF request
    <3>2. OperationInv(s)'
      BY <1>c, <3>a, <3>1
    <3> QED
      BY <1>0, <1>a, <2>0, <3>1, <3>2, OwnerByCaller
  <2> QED
    BY <2>2, <2>3
<1>4. ASSUME NEW s \in topology.sequences, Unlock(s) PROVE OwnerInv'
  <2> DEFINE t == [type |-> "UnlockRanges", operation |-> s]
             request == [pc |-> "done"]
  <2>1. Commit(t) /\ Becomes(s, request) /\ topology' = topology
    BY <1>4 DEF Unlock
  <2>2. Transformed(metadata, t) = [metadata EXCEPT !.locks = Remove(metadata.locks, s)]
    BY DEF Transformed
  <2>3. /\ metadata'.locks = Remove(metadata.locks, s)
        /\ metadata'.nodes = metadata.nodes /\ metadata'.epoch = metadata.epoch + 1
    BY <1>0, <2>1, <2>2 DEF Commit, LockInv, Field
  <2>4. \A x \in DOMAIN metadata.locks : x # s =>
          x \in DOMAIN metadata'.locks /\ metadata'.locks[x] = metadata.locks[x]
    BY <2>3 DEF Remove
  <2>a. request.pc = "done"
    OBVIOUS
  <2> HIDE DEF request
  <2>5. OperationInv(s)'
    BY <1>c, <2>1, <2>a
  <2> QED
    BY <1>0, <1>a, <2>1, <2>3, <2>4, <2>5, OwnerByCaller
<1>5. ASSUME NEW s \in topology.sequences, Abandon(s) PROVE OwnerInv'
  <2>1. PICK pc \in {"unlock", "done"} : Becomes(s, [pc |-> pc])
    BY <1>5 DEF Abandon
  <2> DEFINE request == [pc |-> pc]
  <2>2. topology' = topology /\ metadata' = metadata /\ Becomes(s, request)
    BY <1>5, <2>1 DEF Abandon
  <2>a. request.pc = "unlock" \/ request.pc = "done"
    BY <2>1
  <2> HIDE DEF request
  <2>3. OperationInv(s)'
    BY <1>c, <2>2, <2>a
  <2> QED
    BY <1>0, <1>a, <2>2, <2>3, OwnerByCaller
<1>6. ASSUME UNCHANGED <<topology, caller>>, metadata'.locks = metadata.locks,
             metadata'.nodes = metadata.nodes, metadata'.epoch \in {metadata.epoch, metadata.epoch + 1}
      PROVE  OwnerInv'
  <2>1. SharedInv'
    BY <1>0, <1>a, <1>6, SharedStays
  <2>2. metadata'.epoch \in Nat
    BY SMT, <1>0, <1>6
  <2>3. ASSUME NEW x \in topology'.sequences PROVE OperationInv(x)'
    <3>1. OperationInv(x)
      BY <1>6, <2>3 DEF OwnerInv
    <3> QED
      BY <1>0, <1>a, <1>6, <3>1, OperationStays
  <2> QED
    BY <1>0, <2>1, <2>2, <2>3 DEF OwnerInv
<1>7. CASE ClientCommit
  <2>1. PICK t \in {[type |-> "SchemaChange", schema |-> metadata.epoch + 1], [type |-> "ForceSnapshot"]} :
          Commit(t)
    BY <1>7 DEF ClientCommit
  <2>2. UNCHANGED <<topology, caller>>
    BY <1>7 DEF ClientCommit
  <2>3. Transformed(metadata, t) \in {metadata, [metadata EXCEPT !.schema = metadata.epoch + 1]}
    BY SMT, <2>1 DEF Transformed
  <2>4. /\ metadata'.locks = metadata.locks
        /\ metadata'.nodes = metadata.nodes /\ metadata'.epoch = metadata.epoch + 1
    BY <1>0, <2>1, <2>3 DEF Commit, LockInv, Field
  <2> QED
    BY <1>6, <2>2, <2>4
<1>8. CASE Compact \/ UNCHANGED tcmVars
  BY <1>6, <1>8 DEF Compact, tcmVars
<1> QED
  BY <1>1, <1>2, <1>3, <1>4, <1>5, <1>7, <1>8 DEF TcmNext

\* Whatever operations run at a time, given up or not, whoever commits in between, and
\* however many nodes there are: no token has two owners but a node and its replacement
\* (LocalProcessor::commit, LockedRanges::lock, sequences.rs), when no two operations
\* replace the node of one token.
THEOREM TokensHaveOneOwner ==
    ASSUME \A t \in Topologies : ~t.full, DistinctTokens, OneReplacement
    PROVE  TcmSpec => []OneOwner
<1>1. OwnerInv => OneOwner
  BY DEF OwnerInv, SharedInv, OneOwner
<1> QED
  BY <1>1, OwnerInvInit, OwnerInvStep, PTL DEF TcmSpec
=============================================================================
