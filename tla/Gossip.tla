------------------------------- MODULE Gossip -------------------------------
(***************************************************************************)
(* Cluster membership by gossip: the Gossiper of every node (mod.rs), its  *)
(* periodic task (task.rs), the SYN and ACK2 handlers (handlers.rs) and    *)
(* the shutdown announcement (shutdown.rs).                                *)
(*                                                                         *)
(* The value of an application state is the version it was set at, 0 when  *)
(* it is absent: an endpoint sets no two values at one version of one      *)
(* generation.  The failure detector compares phi, a function of time,     *)
(* with a threshold: here its verdict on an endpoint is any.  The SYN that *)
(* probes a dead endpoint is sent without a reader for its ACK, and a SYN  *)
(* changes nothing where it arrives, so the probe is left out.             *)
(***************************************************************************)
EXTENDS Naturals, FiniteSets

CONSTANTS
    Node,
    Seeds,          \* SeedProvider
    App,            \* application states
    Status,         \* the one that shutdown sets
    Wire,           \* the ones that JavaGossipCodec can encode: all but TcmEpoch
    Clusters        \* what may happen together, a set of records

\* Bounds: the last heartbeat version and the last generation of each node, the messages
\* of a node on their way when it begins a round, and the messages that get lost.  What
\* is set, whose task runs, who may announce a shutdown, and who may be suspected.
Cluster ==
    [versions : [Node -> Nat], generations : [Node -> Nat], window : Nat, losses : Nat,
     sets : SUBSET App, started : SUBSET Node, leaving : SUBSET Node, suspects : SUBSET Node]

ASSUME GossipAssumption ==
    Seeds \subseteq Node /\ Status \in Wire /\ Wire \subseteq App /\ Clusters \subseteq Cluster

VARIABLES
    endpoint_states,   \* [Node -> [the endpoints it knows -> EndpointState]]
    version_counter,   \* [Node -> version of the last local application state]
    live_endpoints, dead_endpoints,
    quarantined,       \* [Node -> endpoints whose quarantine has not expired]
    stage,             \* [Node -> "running", "announced" a shutdown, or "stopped"]
    phase,             \* [Node -> where the round of its task is]
    verdict,           \* [Node -> the live and dead endpoints it has assessed]
    packets,           \* messages on their way
    lost,              \* how many have been lost
    cluster            \* which of Clusters this is

lists == <<live_endpoints, dead_endpoints>>
task == <<phase, verdict>>

gossipVars ==
    <<endpoint_states, version_counter, lists, quarantined, stage, task, packets, lost, cluster>>

EndpointState == [generation : Nat, version : Nat, app : [App -> Nat]]

NewState(generation) == [generation |-> generation, version |-> 0, app |-> [k \in App |-> 0]]

Knows(n) == DOMAIN endpoint_states[n]

\* EndpointState::max_version
Newest(s) ==
    CHOOSE v \in {s.version} \cup {s.app[k] : k \in App} :
        v >= s.version /\ \A k \in App : v >= s.app[k]

NoVerdict == [live |-> {}, dead |-> {}]

GossipInit ==
    /\ endpoint_states = [n \in Node |-> [e \in {n} |-> NewState(1)]]
    /\ version_counter = [n \in Node |-> 0]
    /\ live_endpoints = [n \in Node |-> {}] /\ dead_endpoints = [n \in Node |-> {}]
    /\ quarantined = [n \in Node |-> {}]
    /\ stage = [n \in Node |-> "running"]
    /\ phase = [n \in Node |-> "idle"] /\ verdict = [n \in Node |-> NoVerdict]
    /\ packets = {} /\ lost = 0
    /\ cluster \in Clusters

\* The messages that are not part of the request n is waiting for.
Unwaited(n) == {m \in packets : ~(m.type \in {"Syn", "Ack", "Failure"} /\ m.task = n)}

-----------------------------------------------------------------------------
\* The local state

\* set_local_state: the application state at the next version of its own counter,
\* and one more heartbeat.
WithLocalState(n, k) ==
    /\ version_counter' = [version_counter EXCEPT ![n] = @ + 1]
    /\ LET local == endpoint_states[n][n] IN
         endpoint_states' = [endpoint_states EXCEPT ![n][n] =
           [generation |-> local.generation, version |-> local.version + 1,
            app |-> [local.app EXCEPT ![k] = version_counter'[n]]]]

SetLocalState(n, k) ==
    /\ stage[n] # "stopped" /\ endpoint_states[n][n].version < cluster.versions[n]
    /\ k \in cluster.sets
    /\ WithLocalState(n, k)
    /\ UNCHANGED <<lists, quarantined, stage, task, packets, lost, cluster>>

NextGeneration(n) == endpoint_states[n][n].generation + 1

\* The process dies and a Gossiper is created with a newer generation.
Restart(n) ==
    /\ endpoint_states[n][n].generation < cluster.generations[n]
    /\ endpoint_states' =
         [endpoint_states EXCEPT ![n] = [e \in {n} |-> NewState(NextGeneration(n))]]
    /\ version_counter' = [version_counter EXCEPT ![n] = 0]
    /\ live_endpoints' = [live_endpoints EXCEPT ![n] = {}]
    /\ dead_endpoints' = [dead_endpoints EXCEPT ![n] = {}]
    /\ quarantined' = [quarantined EXCEPT ![n] = {}]
    /\ stage' = [stage EXCEPT ![n] = "running"]
    /\ phase' = [phase EXCEPT ![n] = "idle"] /\ verdict' = [verdict EXCEPT ![n] = NoVerdict]
    /\ packets' = Unwaited(n)
    /\ UNCHANGED <<lost, cluster>>

-----------------------------------------------------------------------------
\* The round of a GossipTask

\* pick_gossip_target
Targets(n) == live_endpoints[n] \cup (Seeds \ {n})

\* increment_heartbeat, up to the bound
Heartbeat(n) ==
    endpoint_states' =
      [endpoint_states EXCEPT ![n][n].version = IF @ < cluster.versions[n] THEN @ + 1 ELSE @]

\* make_gossip_digest_syn.  Nobody reads the generation of a digest.
Digests(states) == [e \in DOMAIN states |-> Newest(states[e])]

BeginRound(n, target) ==
    /\ stage[n] # "stopped" /\ phase[n] = "idle" /\ target \in Targets(n)
    /\ n \in cluster.started
    /\ Cardinality({m \in packets : m.type = "Ack2" /\ m.task = n}) < cluster.window
    /\ Heartbeat(n)
    /\ packets' = packets \cup
         {[type |-> "Syn", task |-> n, peer |-> target, digests |-> Digests(endpoint_states'[n])]}
    /\ phase' = [phase EXCEPT ![n] = "waiting"]
    /\ UNCHANGED <<version_counter, lists, quarantined, stage, verdict, lost, cluster>>

BeginRoundAlone(n) ==
    /\ stage[n] # "stopped" /\ phase[n] = "idle" /\ n \in cluster.started /\ Targets(n) = {}
    /\ Heartbeat(n)
    /\ phase' = [phase EXCEPT ![n] = "assessing"]
    /\ UNCHANGED <<version_counter, lists, quarantined, stage, verdict, packets, lost, cluster>>

\* extract_delta
Delta(s, since) == [s EXCEPT !.app = [k \in App |-> IF s.app[k] > since THEN s.app[k] ELSE 0]]

\* Mutant: no state is asked for that is not known at all.
RequestsKnown(n, digests) ==
    LET states == endpoint_states[n]
        behind == {e \in (DOMAIN digests \cap Knows(n)) \ quarantined[n] :
                     digests[e] > Newest(states[e])} IN
      [e \in behind |-> Newest(states[e])]

\* stale_digests of handle_syn
Requests(n, digests) ==
    LET states == endpoint_states[n]
        behind == {e \in DOMAIN digests \ quarantined[n] :
                     e \in Knows(n) => digests[e] > Newest(states[e])} IN
      [e \in behind |-> IF e \in Knows(n) THEN Newest(states[e]) ELSE 0]

\* updated_states of handle_syn
Updates(n, digests) ==
    LET states == endpoint_states[n]
        ahead == {e \in Knows(n) \ quarantined[n] :
                    e \in DOMAIN digests => digests[e] < Newest(states[e])} IN
      [e \in ahead |-> Delta(states[e], IF e \in DOMAIN digests THEN digests[e] ELSE 0)]

\* encode_ack, encode_ack2: one state that has no ordinal, and nothing is encoded.
Encodes(updated) == \A e \in DOMAIN updated : \A k \in App \ Wire : updated[e].app[k] = 0

\* make_syn_handler: an ACK, or a failure
HandleSyn(m) ==
    /\ m \in packets /\ m.type = "Syn"
    /\ LET updated == Updates(m.peer, m.digests) IN
         packets' = (packets \ {m}) \cup
           {IF Encodes(updated)
              THEN [type |-> "Ack", task |-> m.task, peer |-> m.peer,
                    stale |-> Requests(m.peer, m.digests), updated |-> updated]
              ELSE [type |-> "Failure", task |-> m.task, peer |-> m.peer]}
    /\ UNCHANGED <<endpoint_states, version_counter, lists, quarantined, stage, task, lost, cluster>>

Larger(a, b) == IF a > b THEN a ELSE b

\* Mutant: the states of an older incarnation are merged too.
MergeAny(local, remote) ==
    IF remote.generation > local.generation THEN remote
    ELSE [generation |-> local.generation, version |-> Larger(local.version, remote.version),
          app |-> [k \in App |-> Larger(local.app[k], remote.app[k])]]

\* Mutant: a delta of the same incarnation replaces what is known.
MergeReplaces(local, remote) == IF remote.generation < local.generation THEN local ELSE remote

\* What apply_remote_states makes of an endpoint that is known.
Merge(local, remote) ==
    IF remote.generation > local.generation THEN remote
    ELSE IF remote.generation < local.generation THEN local
    ELSE [generation |-> local.generation, version |-> Larger(local.version, remote.version),
          app |-> [k \in App |-> Larger(local.app[k], remote.app[k])]]

\* apply_remote_states
Applied(n, updated) ==
    LET states == endpoint_states[n]
        news == DOMAIN updated \ ({n} \cup quarantined[n]) IN
      [e \in Knows(n) \cup news |->
         IF e \notin news THEN states[e]
         ELSE IF e \in Knows(n) THEN Merge(states[e], updated[e])
         ELSE updated[e]]

\* handle_ack in the waiting task, and the ACK2 it sends
HandleAck(m) ==
    /\ m \in packets /\ m.type = "Ack"
    /\ endpoint_states' = [endpoint_states EXCEPT ![m.task] = Applied(m.task, m.updated)]
    /\ LET states == endpoint_states'[m.task]
           updated == [e \in DOMAIN m.stale \cap DOMAIN states |-> Delta(states[e], m.stale[e])] IN
         packets' = (packets \ {m}) \cup
           {a \in {[type |-> "Ack2", task |-> m.task, peer |-> m.peer, updated |-> updated]} :
              Encodes(updated)}
    /\ phase' = [phase EXCEPT ![m.task] = "assessing"]
    /\ UNCHANGED <<version_counter, lists, quarantined, stage, verdict, lost, cluster>>

\* An answer that is no ACK
HandleFailure(m) ==
    /\ m \in packets /\ m.type = "Failure"
    /\ packets' = packets \ {m}
    /\ phase' = [phase EXCEPT ![m.task] = "assessing"]
    /\ UNCHANGED <<endpoint_states, version_counter, lists, quarantined, stage, verdict, lost, cluster>>

HandleAck2(m) ==
    /\ m \in packets /\ m.type = "Ack2"
    /\ endpoint_states' = [endpoint_states EXCEPT ![m.peer] = Applied(m.peer, m.updated)]
    /\ packets' = packets \ {m}
    /\ UNCHANGED <<version_counter, lists, quarantined, stage, task, lost, cluster>>

\* send_and_wait fails or times out; the answer has no reader any more.
RequestTimeout(n) ==
    /\ phase[n] = "waiting" /\ lost < cluster.losses
    /\ packets' = Unwaited(n)
    /\ phase' = [phase EXCEPT ![n] = "assessing"]
    /\ lost' = lost + 1
    /\ UNCHANGED <<endpoint_states, version_counter, lists, quarantined, stage, verdict, cluster>>

\* Mutant: an endpoint in quarantine is assessed like any other.
AssessedAll(n) == Knows(n) \ {n}

\* The endpoints that assess_endpoint_health looks at.
Assessed(n) == Knows(n) \ ({n} \cup quarantined[n])

\* assess_endpoint_health up to where it lets its locks go
Assess(n) ==
    /\ phase[n] = "assessing"
    /\ \E dead \in SUBSET (Assessed(n) \cap cluster.suspects) :
         verdict' = [verdict EXCEPT ![n] = [live |-> Assessed(n) \ dead, dead |-> dead]]
    /\ phase' = [phase EXCEPT ![n] = "storing"]
    /\ UNCHANGED <<endpoint_states, version_counter, lists, quarantined, stage, packets, lost, cluster>>

\* The lists are stored, and the round ends.
StoreVerdict(n) ==
    /\ phase[n] = "storing"
    /\ live_endpoints' = [live_endpoints EXCEPT ![n] = verdict[n].live]
    /\ dead_endpoints' = [dead_endpoints EXCEPT ![n] = verdict[n].dead]
    /\ phase' = [phase EXCEPT ![n] = "idle"]
    /\ verdict' = [verdict EXCEPT ![n] = NoVerdict]
    /\ UNCHANGED <<endpoint_states, version_counter, quarantined, stage, packets, lost, cluster>>

-----------------------------------------------------------------------------
\* Shutdown and quarantine

\* announce_shutdown up to its wait
AnnounceShutdown(n) ==
    /\ n \in cluster.leaving
    /\ stage[n] = "running" /\ endpoint_states[n][n].version < cluster.versions[n]
    /\ WithLocalState(n, Status)
    /\ stage' = [stage EXCEPT ![n] = "announced"]
    /\ packets' = packets \cup
         {[type |-> "Shutdown", task |-> n, peer |-> p] : p \in live_endpoints[n]}
    /\ UNCHANGED <<lists, quarantined, task, lost, cluster>>

\* Gossiper::shutdown.  The handlers go on answering.
StopGossiper(n) ==
    /\ stage[n] = "announced"
    /\ WithLocalState(n, Status)
    /\ stage' = [stage EXCEPT ![n] = "stopped"]
    /\ UNCHANGED <<lists, quarantined, task, packets, lost, cluster>>

\* make_shutdown_handler: quarantine and convict
HandleShutdown(m) ==
    /\ m \in packets /\ m.type = "Shutdown"
    /\ quarantined' = [quarantined EXCEPT ![m.peer] = @ \cup {m.task}]
    /\ live_endpoints' = [live_endpoints EXCEPT ![m.peer] = @ \ {m.task}]
    /\ dead_endpoints' = [dead_endpoints EXCEPT ![m.peer] = @ \cup {m.task}]
    /\ packets' = packets \ {m}
    /\ UNCHANGED <<endpoint_states, version_counter, stage, task, lost, cluster>>

\* is_quarantined, once QUARANTINE_DELAY has passed
QuarantineExpires(n, e) ==
    /\ e \in quarantined[n]
    /\ quarantined' = [quarantined EXCEPT ![n] = @ \ {e}]
    /\ UNCHANGED <<endpoint_states, version_counter, lists, stage, task, packets, lost, cluster>>

\* A message that nobody waits for gets lost.
LosePacket(m) ==
    /\ m \in packets /\ m.type \in {"Ack2", "Shutdown"} /\ lost < cluster.losses
    /\ packets' = packets \ {m}
    /\ lost' = lost + 1
    /\ UNCHANGED <<endpoint_states, version_counter, lists, quarantined, stage, task, cluster>>

-----------------------------------------------------------------------------
Answer(m) == HandleSyn(m) \/ HandleAck(m) \/ HandleFailure(m)

Deliver(m) == Answer(m) \/ HandleAck2(m) \/ HandleShutdown(m)

Finish(n) == Assess(n) \/ StoreVerdict(n) \/ StopGossiper(n)

GossipNext ==
    \/ \E n \in Node :
         \/ \E k \in App : SetLocalState(n, k)
         \/ \E t \in Node : BeginRound(n, t)
         \/ \E e \in Node : QuarantineExpires(n, e)
         \/ Restart(n) \/ BeginRoundAlone(n) \/ RequestTimeout(n) \/ AnnounceShutdown(n) \/ Finish(n)
    \/ \E m \in packets : Deliver(m) \/ LosePacket(m)

GossipSpec == GossipInit /\ [][GossipNext]_gossipVars

\* The task runs every second, what is sent and not lost arrives, and a target
\* chosen at random is every seed again and again.
GossipFairness ==
    \A n \in Node :
         /\ WF_gossipVars(Finish(n))
         /\ WF_gossipVars((\E t \in Node : BeginRound(n, t)) \/ BeginRoundAlone(n))
         /\ \A s \in Seeds \ {n} : SF_gossipVars(BeginRound(n, s))
         /\ WF_gossipVars(\E m \in packets : m.task = n /\ Answer(m))
         /\ \A p \in Node \ {n} :
              WF_gossipVars(\E m \in packets : m.task = n /\ m.peer = p /\ HandleAck2(m))

GossipFairSpec == GossipSpec /\ GossipFairness

-----------------------------------------------------------------------------
\* Everybody knows itself, and whatever is said of an endpoint is a state of one.
GossipTypeOK ==
    /\ \A n \in Node :
         /\ n \in Knows(n) /\ Knows(n) \subseteq Node
         /\ \A e \in Knows(n) : endpoint_states[n][e] \in EndpointState
    /\ version_counter \in [Node -> Nat]
    /\ {live_endpoints, dead_endpoints, quarantined} \subseteq [Node -> SUBSET Node]
    /\ stage \in [Node -> {"running", "announced", "stopped"}]
    /\ phase \in [Node -> {"idle", "waiting", "assessing", "storing"}]
    /\ \A n \in Node : phase[n] = "waiting" <=> Unwaited(n) # packets

\* One state of an endpoint is no newer than another.
NotAhead(s, t) ==
    \/ s.generation < t.generation
    \/ s.generation = t.generation /\ s.version <= t.version /\ \A k \in App : s.app[k] <= t.app[k]

\* No node, and no message on its way, is ahead of what the endpoint itself has
\* announced: no relay invents a heartbeat or a state (handle_syn, handle_ack,
\* apply_remote_states).
NobodyAhead ==
    /\ \A n \in Node : \A e \in Knows(n) : NotAhead(endpoint_states[n][e], endpoint_states[e][e])
    /\ \A m \in packets : m.type \in {"Ack", "Ack2"} =>
         \A e \in DOMAIN m.updated : NotAhead(m.updated[e], endpoint_states[e][e])

\* A node that goes on running never forgets an endpoint and never goes back to an
\* older state of it, whatever order the messages arrive in (apply_remote_states).
KnowledgeGrows ==
    [][\A n \in Node :
         endpoint_states'[n][n].generation = endpoint_states[n][n].generation =>
           \A e \in Knows(n) :
             e \in DOMAIN endpoint_states'[n] /\ NotAhead(endpoint_states[n][e], endpoint_states'[n][e])
      ]_gossipVars

\* An endpoint that has announced its shutdown does not stay among the live ones while
\* its quarantine lasts, though a round may have assessed it before and store it after
\* (make_shutdown_handler, assess_endpoint_health).
QuarantinedLeavesLive ==
    \A n \in Node : \A e \in Node \ {n} :
      (e \in quarantined[n] /\ e \in live_endpoints[n]) ~>
        (e \notin quarantined[n] \/ e \notin live_endpoints[n] \/ stage[n] = "stopped")

\* Somebody has published an epoch, which no message can carry.
Published == \E n \in Node : \E k \in App \ Wire : endpoint_states[n][n].app[k] # 0

\* Running nodes that contact nobody but a seed at first end up knowing each other, if
\* nobody publishes an epoch: an ACK or ACK2 with one in it is never sent, and with it
\* the rest of what the peer lacks (pick_gossip_target, handle_syn, encode_ack).
Discovery ==
    \/ <>Published
    \/ <>[](\A n, e \in (cluster.started \cup Seeds) :
             \/ stage[n] = "stopped" \/ stage[e] = "stopped"
             \/ e \in quarantined[n] \/ e \in Knows(n))

\* A peer that has the latest heartbeat of an endpoint has the application states that
\* came before it.
StatesFollowHeartbeat ==
    \A n \in Node : \A e \in Knows(n) :
      LET known == endpoint_states[n][e]
          own == endpoint_states[e][e] IN
        (known.generation = own.generation /\ known.version = own.version) => known.app = own.app
=============================================================================
