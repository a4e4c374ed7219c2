------------------------------ MODULE MCGossip ------------------------------
(***************************************************************************)
(* Three nodes, of which n1 is the seed, and the metadata of a cluster     *)
(* whose topology changes.  In each cluster one thing happens, so that the *)
(* numbers of states add and do not multiply; the gossip is quiet while    *)
(* the topology changes.                                                   *)
(***************************************************************************)
EXTENDS Gossip, ClusterMetadata

Quiet ==
    [versions |-> [n \in Node |-> 0], generations |-> [n \in Node |-> 1], window |-> 1,
     losses |-> 0, sets |-> {}, started |-> {}, leaving |-> {}, suspects |-> {}]

\* n2 restarts while its messages are late or lost.
Restarts ==
    [Quiet EXCEPT !.versions["n2"] = 2, !.generations["n2"] = 2, !.window = 2, !.losses = 1,
                  !.sets = {Status}, !.started = {"n2"}]

\* n2 announces its shutdown, and n1 may suspect it before.
Leaves ==
    [Quiet EXCEPT !.versions["n2"] = 2, !.started = {"n1", "n2"}, !.leaving = {"n2"},
                  !.suspects = {"n2"}]

\* n2 and n3 know nobody but the seed.
Joins ==
    [Quiet EXCEPT !.versions["n3"] = 1, !.sets = {Status}, !.started = {"n2", "n3"}]

\* n2 publishes an epoch.
Publishes ==
    [Quiet EXCEPT !.versions["n2"] = 3, !.sets = App \ Wire, !.started = {"n1", "n2"}]

AllClusters == {Quiet, Restarts, Leaves, Joins, Publishes}

-----------------------------------------------------------------------------
Info(e, t) == [endpoint |-> e, tokens |-> {t}, state |-> "Normal"]

TwoMembers == [n \in {"n1", "n2"} |-> IF n = "n1" THEN Info("e1", 1) ELSE Info("e2", 3)]

Bootstrap(n, e, t) == [kind |-> "Bootstrap", node |-> n, endpoint |-> e, tokens |-> {t}]

Replace(old, n, e, t) ==
    [kind |-> "Replace", replacing |-> old, node |-> n, endpoint |-> e, tokens |-> {t}]

Decommission(n) == [kind |-> "Decommission", node |-> n, tokens |-> {}]

Move(n, t) == [kind |-> "Move", node |-> n, tokens |-> {t}]

Unchanging == [members |-> NoNodes, sequences |-> {}, last |-> 0, full |-> FALSE]

\* Two operations, and the epochs of a client.
Changes(members, sequences, last) ==
    [Unchanging EXCEPT !.members = members, !.sequences = sequences, !.last = last]

\* The first two nodes want the same token.
Founded == Changes(NoNodes, {Bootstrap("n1", "e1", 1), Bootstrap("n2", "e2", 1)}, 1)

\* A node joins at the token that another one moves to, or next to one that leaves; a
\* node is replaced while its neighbour leaves, or moves.
Crowded == Changes(TwoMembers, {Bootstrap("n3", "e3", 2), Move("n1", 2)}, 5)

Emptied == Changes(TwoMembers, {Bootstrap("n3", "e3", 3), Decommission("n2")}, 4)

Replaced == Changes(TwoMembers, {Replace("n1", "n3", "e3", 1), Decommission("n2")}, 4)

\* The locks are on ranges, not on nodes: one moves and leaves at the same time.
Torn == Changes(TwoMembers, {Move("n2", 4), Decommission("n2")}, 4)

AllTopologies == {Unchanging, Founded, Crowded, Emptied, Replaced, Torn}

\* Topologies that a property fails in: the replacement has the endpoint of the node it
\* replaces; a node that leaves locks the full ring; a node is replaced twice.
SameEndpoint ==
    {[Unchanging EXCEPT !.members = TwoMembers, !.sequences = {Replace("n1", "n3", "e1", 1)}]}

LocksFullRing == {[Emptied EXCEPT !.full = TRUE]}

ReplacedTwice ==
    {Changes(TwoMembers, {Replace("n1", "n3", "e3", 1), Replace("n1", "n4", "e4", 1)}, 4)}

-----------------------------------------------------------------------------
MCVars == <<gossipVars, tcmVars>>

\* Either the gossip or the topology stands still.
MCInit ==
    GossipInit /\ TcmInit /\ (cluster = Quiet \/ topology = Unchanging)

\* The operations are over, whoever still wants a range that is locked for good included.
Settled ==
    /\ cluster = Quiet
    /\ \A s \in topology.sequences : caller[s].pc = "done"
    /\ UNCHANGED MCVars

MCNext ==
    \/ GossipNext /\ UNCHANGED tcmVars
    \/ TcmNext /\ UNCHANGED gossipVars
    \/ Settled

MCSpec == MCInit /\ [][MCNext]_MCVars

MCFairSpec == MCSpec /\ GossipFairness
=============================================================================
