------------------------------ MODULE MCRestore ------------------------------
(***************************************************************************)
(* RestoreTransaction for TLC: p1 lies in an existing directory, p2 below  *)
(* the directories of Dirs.  A behaviour is one of bundles in which no     *)
(* path is both entry and tombstone, with every fault (focus "faults"), or *)
(* one of bundles that may contradict themselves, without directories, of  *)
(* complete applications and with failing calls only on the way forward    *)
(* (focus "bundles").                                                      *)
(***************************************************************************)
EXTENDS RestoreTransaction

VARIABLE focus \* the kind of this behaviour

MCAbove == [x \in Entries |-> IF x = "p2" THEN Dirs ELSE {}]
MCChunksOf == [p \in Paths |-> IF p = "p1" THEN {"c1"} ELSE {"c1", "c2"}]

B == INSTANCE RestoreTransaction WITH
    Dirs <- {}, Above <- [p \in Paths |-> {}], Modes <- {TRUE},
    Overlap <- TRUE, Faults <- {"forward"}

MCInit ==
    /\ focus \in {"faults", "bundles"}
    /\ IF focus = "faults" THEN Init ELSE B!Init

MCNext ==
    /\ UNCHANGED focus
    /\ \/ focus = "faults" /\ Next
       \/ focus = "bundles" /\ B!Next

MCSpec == MCInit /\ [][MCNext]_<<vars, focus>>
=============================================================================
