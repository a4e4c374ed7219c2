------------------------------- MODULE MCHints -------------------------------
(***************************************************************************)
(* Scenarios of hinted handoff.                                            *)
(***************************************************************************)
EXTENDS Hints

\* Two threads store while the periodic pass delivers, with no hints on disk.
InMemory ==
    [writers |-> {"w1", "w2"}, deliverers |-> {"periodic"}, hints |-> 3, persist |-> FALSE,
     ops |-> {"topology", "remove", "expire", "shutdown"}]

\* A pass and the delivery to a recovered node, which may find a hint in the
\* queue and on disk.
OnDiskToo ==
    [writers |-> {"w1"}, deliverers |-> {"periodic", "recovered"}, hints |-> 2, persist |-> TRUE,
     ops |-> {"topology", "remove", "shutdown", "io_error"}]

\* The process dies, with a segment that is perhaps torn.
Restarts ==
    [writers |-> {"w1"}, deliverers |-> {"recovered"}, hints |-> 3, persist |-> TRUE,
     ops |-> {"truncate", "crash"}]

\* Scenarios that a property fails in: two deliveries put hints back; a truncation
\* within a topology change; a crash with hints in the writer's buffer.
TwoDeliveries == [OnDiskToo EXCEPT !.persist = FALSE, !.ops = {}]

TruncatedChange == [InMemory EXCEPT !.ops = {"topology", "truncate"}]

Buffered == [Restarts EXCEPT !.ops = {"crash"}]

Unordered == {TwoDeliveries}

Wrapped == {TruncatedChange}

Crashed == {Buffered}

Safety == {InMemory, OnDiskToo, Restarts}
=============================================================================
