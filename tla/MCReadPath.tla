------------------------------ MODULE MCReadPath ------------------------------
(***************************************************************************)
(* A write to four replicas in two datacenters, and reads in the           *)
(* coordinator's datacenter at levels that overlap with the write's.       *)
(***************************************************************************)
EXTENDS ReadPath

Four == {"r1", "r2", "r3", "r4"}

ThreeAndOne == [r \in Four |-> IF r = "r4" THEN "dc2" ELSE "dc1"]

TwoAndTwo == [r \in Four |-> IF r \in {"r1", "r2"} THEN "dc1" ELSE "dc2"]

PlainLevels == {"One", "Two", "Quorum", "All"}

\* Those of the paths and levels that do what the level says.
Sound ==
    ({"mutate", "mutate_async"} \X PlainLevels)
      \cup ({"mutate_async"} \X {"LocalOne", "LocalQuorum"})
      \cup {<<"mutate", "Any">>}

\* Those that do not: the requests of the instances that fail.
LocalSync == {<<"mutate", "LocalQuorum">>}

AnyAsync == {<<"mutate_async", "Any">>}

QuorumAsync == {<<"mutate_async", "Quorum">>}

EachQuorum == {<<"mutate_async", "EachQuorum">>}

Follows(w, level, speculation) ==
    [request |-> <<"mutate", w>>, level |-> level, speculation |-> speculation]

Overlapping ==
    {Follows("Quorum", "LocalQuorum", "delayed"), Follows("All", "LocalOne", "always")}

\* An earlier write that reached one replica.
OldSomewhere == {[r \in Four |-> IF r = "r2" THEN OldCell ELSE NoCell]}

\* An earlier write that reached all, and a delete behind it.
OldEverywhere == {[r \in Four |-> OldCell]}

\* One write and one read.
QuorumWrite == {<<"mutate", "Quorum">>}

QuorumRead == {Follows("Quorum", "LocalQuorum", "none")}
=============================================================================
