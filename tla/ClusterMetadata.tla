--------------------------- MODULE ClusterMetadata ---------------------------
(***************************************************************************)
(* Transactional cluster metadata: TcmMetadata with its log (tcm/mod.rs),  *)
(* behind the LocalProcessor that commits requests one at a time           *)
(* (commit.rs), and the topology operations that are sequences of          *)
(* transformations (sequences.rs).                                         *)
(*                                                                         *)
(* The callers are not part of the crate.  They do what it is made for:    *)
(* look at the metadata, lock the affected ranges on condition that        *)
(* nothing has been committed since, commit the steps, and unlock.  They   *)
(* may give up on the way, and die.                                        *)
(***************************************************************************)
EXTENDS Integers, Sequences, FiniteSets

CONSTANTS
    MinToken, MaxToken,   \* Token::MINIMUM, Token::MAXIMUM
    Topologies            \* what happens together, a set of records

\* The nodes that have joined, with their endpoints and tokens; the operations of
\* sequences.rs that are under way; the epoch that client requests stop at; and
\* whether a node that leaves locks the full ring.
ASSUME TcmAssumption ==
    /\ MinToken \in Int /\ MaxToken \in Int /\ MinToken < MaxToken
    /\ \A t \in Topologies :
         /\ Cardinality(DOMAIN t.members) \in Nat
         /\ \A n \in DOMAIN t.members : t.members[n].tokens \subseteq (MinToken + 1)..MaxToken
         /\ \A s \in t.sequences :
              /\ s.kind \in {"Bootstrap", "Replace", "Decommission", "Move"}
              /\ s.tokens \subseteq (MinToken + 1)..MaxToken

VARIABLES
    topology,    \* which of Topologies this is
    metadata,    \* TcmMetadata without its log
    log,         \* MetadataLog::entries
    snapshot,    \* the last TcmSnapshot; TcmMetadata::new() before there is one
    caller       \* [topology.sequences -> the request it is about to commit]

tcmVars == <<topology, metadata, log, snapshot, caller>>

Token == MinToken..MaxToken

-----------------------------------------------------------------------------
\* Token ranges

FullRing == <<MinToken, MinToken>>

WrapsAround(r) == r[1] >= r[2] /\ r # FullRing

Contains(r, t) ==
    IF WrapsAround(r) THEN t > r[1] \/ t <= r[2] ELSE r = FullRing \/ (t > r[1] /\ t <= r[2])

\* Mutant: the ends of the ranges are compared instead of an end and a start.
RangesOverlapEnds(a, b) == WrapsAround(a) \/ WrapsAround(b) \/ (a[1] < b[1] /\ b[2] < a[2])

RangesOverlap(a, b) == WrapsAround(a) \/ WrapsAround(b) \/ (a[1] < b[2] /\ b[1] < a[2])

-----------------------------------------------------------------------------
\* TcmMetadata

Insert(f, k, v) == [x \in DOMAIN f \cup {k} |-> IF x = k THEN v ELSE f[x]]

Remove(f, k) == [x \in DOMAIN f \ {k} |-> f[x]]

NoNodes == [n \in {} |-> {}]

NewMetadata ==
    [epoch |-> 0, nodes |-> NoNodes, endpoint_to_id |-> NoNodes, locks |-> NoNodes, schema |-> 0]

\* NodeDirectory::register
Registered(m, n, info) ==
    [m EXCEPT !.nodes = Insert(m.nodes, n, info),
              !.endpoint_to_id = Insert(m.endpoint_to_id, info.endpoint, n)]

\* NodeDirectory::unregister
Unregistered(m, n) ==
    IF n \in DOMAIN m.nodes
      THEN [m EXCEPT !.nodes = Remove(m.nodes, n),
                     !.endpoint_to_id = Remove(m.endpoint_to_id, m.nodes[n].endpoint)]
      ELSE m

\* LockedRanges::conflicts_with
Conflicts(locks, r) == \E o \in DOMAIN locks : \E l \in locks[o] : RangesOverlap(l, r)

\* Whether apply() goes through.
Accepts(m, t) ==
    /\ t.type = "Register" => t.node \notin DOMAIN m.nodes
    /\ t.type \in {"AssignTokens", "UpdateNodeState"} => t.node \in DOMAIN m.nodes
    /\ t.type = "LockRanges" => \A r \in t.ranges : ~Conflicts(m.locks, r)

\* What apply() does then.
Transformed(m, t) ==
    CASE t.type = "Register" ->
           Registered(m, t.node, [endpoint |-> t.endpoint, tokens |-> {}, state |-> "Normal"])
      [] t.type = "Unregister" -> Unregistered(m, t.node)
      [] t.type = "AssignTokens" ->
           [m EXCEPT !.nodes = Insert(m.nodes, t.node, [endpoint |-> m.nodes[t.node].endpoint,
                                                        tokens |-> t.tokens, state |-> "Normal"])]
      [] t.type = "UpdateNodeState" ->
           [m EXCEPT !.nodes = Insert(m.nodes, t.node, [endpoint |-> m.nodes[t.node].endpoint,
                                                        tokens |-> m.nodes[t.node].tokens,
                                                        state |-> t.state])]
      [] t.type = "SchemaChange" -> [m EXCEPT !.schema = t.schema]
      [] t.type = "LockRanges" -> [m EXCEPT !.locks = Insert(m.locks, t.operation, t.ranges)]
      [] t.type = "UnlockRanges" -> [m EXCEPT !.locks = Remove(m.locks, t.operation)]
      [] OTHER -> m

\* Mutant: the locks are not replayed.
ReappliedUnlocked(m, t) ==
    IF t.type = "Register" \/ (t.type # "LockRanges" /\ Accepts(m, t)) THEN Transformed(m, t) ELSE m

\* apply_without_logging() registers a node again, and ignores what apply() refuses.
Reapplied(m, t) ==
    IF t.type = "Register" \/ Accepts(m, t) THEN Transformed(m, t) ELSE m

\* MetadataLog::entries_since, entries_for_catch_up
EntriesSince(since) == SelectSeq(log, LAMBDA e : e.epoch > since)

\* Every entry, reapplied: replay_from() starts with TcmMetadata::new().
Replayed(m, entries) ==
    LET after[i \in 0..Len(entries)] ==
          IF i = 0 THEN m
          ELSE [Reapplied(after[i - 1], entries[i].transformation) EXCEPT !.epoch = entries[i].epoch]
    IN after[Len(entries)]

Snapshot(m) == [epoch |-> m.epoch, nodes |-> m.nodes, schema |-> m.schema]

\* restore_from_snapshot()
Restored(s) ==
    [NewMetadata EXCEPT
       !.epoch = s.epoch, !.nodes = s.nodes, !.schema = s.schema,
       !.endpoint_to_id = [e \in {s.nodes[n].endpoint : n \in DOMAIN s.nodes} |->
                             CHOOSE n \in DOMAIN s.nodes : s.nodes[n].endpoint = e]]

-----------------------------------------------------------------------------
\* Topology operations

Register(n, e) == [type |-> "Register", node |-> n, endpoint |-> e]
Unregister(n) == [type |-> "Unregister", node |-> n]
AssignTokens(n, ts) == [type |-> "AssignTokens", node |-> n, tokens |-> ts]
UpdateNodeState(n, s) == [type |-> "UpdateNodeState", node |-> n, state |-> s]

\* The transformations that advance() returns one after the other.
Steps(s) ==
    CASE s.kind = "Bootstrap" ->
           <<Register(s.node, s.endpoint), AssignTokens(s.node, s.tokens),
             UpdateNodeState(s.node, "Normal")>>
      [] s.kind = "Replace" ->
           <<Register(s.node, s.endpoint), AssignTokens(s.node, s.tokens), Unregister(s.replacing)>>
      [] s.kind = "Decommission" -> <<UpdateNodeState(s.node, "Leaving"), Unregister(s.node)>>
      [] s.kind = "Move" -> <<UpdateNodeState(s.node, "Moving"), AssignTokens(s.node, s.tokens)>>

Tokens(m) == UNION {m.nodes[n].tokens : n \in DOMAIN m.nodes}

\* The ranges from the token before to the tokens of n.
OwnedRanges(m, n) ==
    {r \in Tokens(m) \X m.nodes[n].tokens : \A u \in Tokens(m) \ {r[2]} : ~Contains(r, u)}

\* affected_ranges(); for a node that leaves "The caller should compute them from the ring."
AffectedRanges(m, s) ==
    IF s.kind = "Decommission"
      THEN IF topology.full THEN {FullRing} ELSE OwnedRanges(m, s.node)
      ELSE {<<t - 1, t>> : t \in s.tokens}

\* What the caller looks for before it begins: the node is there, or not there yet, and
\* nobody has the tokens, or the node does that is replaced.
Possible(m, s) ==
    CASE s.kind = "Bootstrap" -> s.node \notin DOMAIN m.nodes /\ s.tokens \cap Tokens(m) = {}
      [] s.kind = "Replace" ->
           /\ s.node \notin DOMAIN m.nodes /\ s.replacing \in DOMAIN m.nodes
           /\ s.tokens = m.nodes[s.replacing].tokens
      [] s.kind = "Decommission" -> s.node \in DOMAIN m.nodes
      [] s.kind = "Move" -> s.node \in DOMAIN m.nodes /\ s.tokens \cap Tokens(m) = {}

-----------------------------------------------------------------------------
\* The metadata of a cluster after its members have joined.  The log has been
\* compacted; without members it is empty.
TcmInit ==
    /\ topology \in Topologies
    /\ LET members == topology.members
           s == [epoch |-> 2 * Cardinality(DOMAIN members), nodes |-> members, schema |-> 0] IN
         metadata = Restored(s) /\ snapshot = s
    /\ log = <<>>
    /\ caller = [s \in topology.sequences |-> [pc |-> "look"]]

\* Mutant: the expected epoch is not looked at.
ExpectsAny(epoch) == TRUE

\* A request with an expected epoch is stale at any other.
Expects(epoch) == epoch = metadata.epoch

\* LocalProcessor::commit, when the request is not stale and not refused.
Commit(t) ==
    LET epoch == metadata.epoch + 1 IN
      /\ metadata' = [Transformed(metadata, t) EXCEPT !.epoch = epoch]
      /\ log' = Append(log, [epoch |-> epoch, transformation |-> t])

Becomes(s, request) == caller' = [caller EXCEPT ![s] = request]

\* The caller looks at the metadata, and asks for the ranges at the epoch it has seen.
Look(s) ==
    /\ caller[s].pc = "look"
    /\ Becomes(s, IF Possible(metadata, s)
                    THEN [pc |-> "lock", expected |-> metadata.epoch,
                          ranges |-> AffectedRanges(metadata, s)]
                    ELSE [pc |-> "done"])
    /\ UNCHANGED <<topology, metadata, log, snapshot>>

\* A request that is stale, or refused because of a lock, begins again.
Lock(s) ==
    /\ caller[s].pc = "lock"
    /\ LET t == [type |-> "LockRanges", operation |-> s, ranges |-> caller[s].ranges] IN
         IF Expects(caller[s].expected) /\ Accepts(metadata, t)
           THEN Commit(t) /\ Becomes(s, [pc |-> "step", step |-> 1])
           ELSE Becomes(s, [pc |-> "look"]) /\ UNCHANGED <<metadata, log>>
    /\ UNCHANGED <<topology, snapshot>>

\* advance() has moved on before the result is known: a refused step ends the operation.
Step(s) ==
    /\ caller[s].pc = "step"
    /\ LET i == caller[s].step
           t == Steps(s)[i] IN
         IF Accepts(metadata, t)
           THEN /\ Commit(t)
                /\ Becomes(s, IF i = Len(Steps(s)) THEN [pc |-> "unlock"]
                                                   ELSE [pc |-> "step", step |-> i + 1])
           ELSE Becomes(s, [pc |-> "unlock"]) /\ UNCHANGED <<metadata, log>>
    /\ UNCHANGED <<topology, snapshot>>

Unlock(s) ==
    /\ caller[s].pc = "unlock"
    /\ Commit([type |-> "UnlockRanges", operation |-> s])
    /\ Becomes(s, [pc |-> "done"])
    /\ UNCHANGED <<topology, snapshot>>

\* The caller gives the operation up, or dies with the ranges locked.
Abandon(s) ==
    /\ caller[s].pc = "step"
    /\ \E pc \in {"unlock", "done"} : Becomes(s, [pc |-> pc])
    /\ UNCHANGED <<topology, metadata, log, snapshot>>

\* A client commits something that is refused to nobody.
ClientCommit ==
    /\ metadata.epoch < topology.last
    /\ \/ Commit([type |-> "SchemaChange", schema |-> metadata.epoch + 1])
       \/ Commit([type |-> "ForceSnapshot"])
    /\ UNCHANGED <<topology, snapshot, caller>>

Compact ==
    /\ metadata.epoch > snapshot.epoch
    /\ snapshot' = Snapshot(metadata)
    /\ log' = EntriesSince(metadata.epoch)
    /\ UNCHANGED <<topology, metadata, caller>>

TcmNext ==
    \/ \E s \in topology.sequences : Look(s) \/ Lock(s) \/ Step(s) \/ Unlock(s) \/ Abandon(s)
    \/ ClientCommit \/ Compact

TcmSpec == TcmInit /\ [][TcmNext]_tcmVars

-----------------------------------------------------------------------------
\* Nodes have endpoints and tokens that exist, and the log has no holes and ends at the
\* epoch of the metadata.
TcmTypeOK ==
    /\ \A n \in DOMAIN metadata.nodes :
         metadata.nodes[n].tokens \subseteq Token
    /\ DOMAIN metadata.locks \subseteq topology.sequences
    /\ snapshot.epoch + Len(log) = metadata.epoch
    /\ \A i \in 1..Len(log) : log[i].epoch = snapshot.epoch + i

\* No token is in ranges that two operations have locked (LockedRanges::lock).
LocksAreDisjoint ==
    \A o, p \in DOMAIN metadata.locks : \A a \in metadata.locks[o], b \in metadata.locks[p] :
      o # p => \A t \in Token : ~(Contains(a, t) /\ Contains(b, t))

\* No token has two owners but a node and its replacement: the ranges that are locked at
\* the epoch a caller has looked at keep what it has seen true until its tokens are
\* assigned (LocalProcessor::commit, LockedRanges::lock).
OneOwner ==
    \A n, q \in DOMAIN metadata.nodes :
      \/ n = q \/ metadata.nodes[n].tokens \cap metadata.nodes[q].tokens = {}
      \/ \E s \in topology.sequences : s.kind = "Replace" /\ {s.node, s.replacing} = {n, q}

\* The last snapshot and the entries since then give the nodes and the schema of now;
\* the entries alone give everything, the locks too, as long as none has been truncated
\* ("Nodes can replay the log to reconstruct the current state", tcm/mod.rs:150).
LogRebuilds ==
    LET m == Replayed(Restored(snapshot), EntriesSince(snapshot.epoch)) IN
      /\ Snapshot(m) = Snapshot(metadata)
      /\ snapshot.epoch = 0 => m = metadata

\* The locks come back as well.
LocksAreRebuilt ==
    Replayed(Restored(snapshot), EntriesSince(snapshot.epoch)).locks = metadata.locks

\* A registered node is found by its endpoint (NodeDirectory::get_by_endpoint).
EndpointsResolve ==
    \A n \in DOMAIN metadata.nodes :
      LET e == metadata.nodes[n].endpoint IN
        e \in DOMAIN metadata.endpoint_to_id /\ metadata.endpoint_to_id[e] = n
=============================================================================
