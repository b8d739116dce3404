----------------------------- MODULE MCCapture ------------------------------
(***************************************************************************)
(* The capture of changes for TLC: the event queue (EventQueue), which     *)
(* evicts and coalesces, and what becomes of its events in the state agent *)
(* until a backup has the changed files (BackupEvidence), with two files   *)
(* and writes of which the second and the third leave files of the same    *)
(* size.  Each behaviour is one of one component.                          *)
(***************************************************************************)
EXTENDS EventQueue, TLC

CONSTANTS
    Parts  \* the components to check

VARIABLES
    focus, \* the component of this behaviour
    world, fs, clock, running, late, events, db, head, bk, blind

SizeOf == <<1, 2, 2>> @@ (0 :> 0)

\* Backups of all modes with errors and crashes; lost events; seals; everything that
\* may come late or not at all; and what overlaps a backup.
CaptureWorlds ==
    {{"modes", "crash", "parent", "unlink"}, {"modes", "fail", "parent", "rename"},
     {"ring", "unlink", "rename", "crash"},
     {"seal", "crash", "fail", "exit"}, {"seal", "fail", "exit", "rename"},
     {"reorder", "ring", "exit", "backlog"}, {"reorder", "exit", "backlog", "crash"},
     {"overlap"}, {"lanes", "seal"}}

E == INSTANCE BackupEvidence WITH
    QueueCap <- 5, MaxChanges <- 3, MaxRows <- 2, Worlds <- CaptureWorlds,
    queue <- events

evidenceState == <<fs, clock, running, late, events, db, head, bk, blind>>
EvidenceOff ==
    /\ fs = "-" /\ clock = "-" /\ running = "-" /\ late = "-" /\ events = "-"
    /\ db = "-" /\ head = "-" /\ bk = "-" /\ blind = "-"

\* One component is checked at a time; the others do not move.
PartInit ==
    /\ focus \in Parts
    /\ Init
    /\ IF focus = "evidence" THEN E!Init ELSE EvidenceOff
    /\ focus = "queue" => world = {}

Only(p) ==
    /\ focus = p /\ UNCHANGED <<focus, world>>
    /\ p # "queue" => UNCHANGED vars
    /\ p # "evidence" => UNCHANGED evidenceState

PartNext ==
    \/ Only("queue") /\ Next
    \/ Only("evidence") /\ E!Next

partVars ==
    <<focus, vars, evidenceState, world>>

PartSpec == PartInit /\ [][PartNext]_partVars

-----------------------------------------------------------------------------
Symmetry == Permutations(Paths)

(* No change is forgotten: an application the agent holds no evidence      *)
(* against has its files, as they are, in the latest bundle, and a file    *)
(* whose identity matches is the file in the bundle (BackupEvidence).      *)
CleanMeansCaptured ==
    focus = "evidence" => E!CleanMeansCaptured /\ E!FastIdentitySound

(* A journal row is dropped, and a seal names a bundle, only when the      *)
(* bundle has the file as it is (BackupEvidence).                          *)
CaptureKept ==
    [][focus = "evidence" => E!ProcessedMeansCaptured /\ E!SealCovers]_partVars

=============================================================================
