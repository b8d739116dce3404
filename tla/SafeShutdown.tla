---------------------------- MODULE SafeShutdown ----------------------------
(***************************************************************************)
(* What automatic shutdown promises, without processes, ticks or a         *)
(* database: a machine is taken down only after a non-empty selection of   *)
(* applications was fixed and every one of them was verified.  A failure   *)
(* is final until the user re-arms, and re-arming starts from nothing.     *)
(***************************************************************************)
CONSTANT Apps

VARIABLES
    phase,      \* "watching", "backing", "closing", "failed" or "done"
    selected,   \* the applications of the current run
    verified,   \* those of them with a verified backup
    down        \* the machine was stopped or destroyed

vars == <<phase, selected, verified, down>>

TypeOK ==
    /\ phase \in {"watching", "backing", "closing", "failed", "done"}
    /\ selected \in SUBSET Apps
    /\ verified \in SUBSET selected
    /\ down \in BOOLEAN

Init == phase = "watching" /\ selected = {} /\ verified = {} /\ down = FALSE

Select ==
    /\ phase = "watching"
    /\ phase' = "backing"
    /\ selected' \in (SUBSET Apps) \ {{}} /\ verified' = {}
    /\ UNCHANGED down

Verify ==
    /\ phase = "backing"
    /\ \E a \in selected : verified' = verified \cup {a}
    /\ UNCHANGED <<phase, selected, down>>

\* A re-entered closing run is announced again before each provider request.
Close ==
    /\ phase \in {"backing", "closing"} /\ verified = selected /\ selected # {}
    /\ phase' = "closing"
    /\ UNCHANGED <<selected, verified, down>>

PowerOff ==
    /\ phase = "closing"
    /\ down' = TRUE
    /\ UNCHANGED <<phase, selected, verified>>

Finish ==
    /\ phase = "closing" /\ down
    /\ phase' = "done"
    /\ UNCHANGED <<selected, verified, down>>

Fail ==
    /\ phase \in {"watching", "backing", "closing"}
    /\ phase' = "failed"
    /\ UNCHANGED <<selected, verified, down>>

Rearm ==
    /\ phase = "failed"
    /\ phase' = "watching" /\ selected' = {} /\ verified' = {}
    /\ UNCHANGED down

\* A stopped machine is started again by its owner.
Boot == down /\ down' = FALSE /\ UNCHANGED <<phase, selected, verified>>

Next == Select \/ Verify \/ Close \/ PowerOff \/ Finish \/ Fail \/ Rearm \/ Boot

Spec == Init /\ [][Next]_vars
=============================================================================
