-------------------------- MODULE RestoreTransaction --------------------------
(***************************************************************************)
(* The restore transaction of the state agent (noland-restore/src/lib.rs), *)
(* driven by run_restore_with_session (noland-state-agent/src/restore.rs). *)
(*                                                                         *)
(* A restore publishes the entries of a bundle at their live destinations, *)
(* launch-critical entries first, applies the tombstones and commits.      *)
(* Every destructive step is preceded by a durable journal write in the    *)
(* restore's workspace; dropping an uncommitted transaction, or the next   *)
(* start of the agent, rolls back from that journal.                       *)
(*                                                                         *)
(* Every durable effect (a journal write, a directory, a partial file, a   *)
(* rename, a removal, a step of a rollback, a step of removing a           *)
(* workspace) is a step of its own, so a crash may fall between any two.   *)
(***************************************************************************)
EXTENDS Naturals, FiniteSets

CONSTANTS
    Attempts,    \* restores, each with its own workspace (restore_id)
    Paths,       \* destinations that hold a file or a symlink
    Dirs,        \* directories that may have to be created
    Above,       \* Above[x]: the directories of Dirs on the way to x
    Chunks,      \* content chunks
    ChunksOf,    \* ChunksOf[p]: the chunks file p is put together from
    SteamManifests, \* the appmanifest of a Steam game, if it is among Paths
    Modes,       \* restore modes asked for: TRUE is CompleteApplication
    Overlap,     \* may a manifest list a path and a tombstone for it?
    Faults       \* which calls may return an error; see FaultKinds

Entries == Paths \cup Dirs
Rounds == {1, 2}    \* publish_to(ReadyToLaunch), publish_to(Complete)
Saves == Rounds \X Paths

\* "forward": a call of the restore fails (I/O error, cancellation at an await);
\* "db": the association write fails; "rearm": re-arming the journal after that fails;
\* "cleanup": a call of a rollback or of a workspace removal fails.
FaultKinds == {"forward", "db", "rearm", "cleanup"}

None == "none"

\* Every destination is a path or a directory, and lies below directories that lie below
\* each other; a bundle has finitely many entries.
ASSUME Layout ==
    /\ Above \in [Entries -> SUBSET Dirs]
    /\ \A x \in Entries : \A d \in Above[x] : Above[d] \subseteq Above[x]
    /\ Paths \cap Dirs = {} /\ None \notin Entries /\ SteamManifests \subseteq Paths
ASSUME Content == ChunksOf \in [Paths -> SUBSET Chunks] /\ IsFiniteSet(Paths)
ASSUME Choices == Modes \subseteq BOOLEAN /\ Overlap \in BOOLEAN /\ Faults \subseteq FaultKinds

Absent == "absent"
\* What a path can hold: an earlier regular file or symlink of the user, the bundle's
\* content, a write of the application after a restore, half-written content.
Contents == {Absent, "file", "link", "new", "user", "torn"}

VARIABLES
    fs,         \* content of every path
    dirs,       \* directories that exist
    part,       \* part[a][p]: the partial file of attempt a beside p
    wdir,       \* workspaces that exist
    jstate,     \* state of the journal file of each workspace
    jrn,        \* content of the journal file of each workspace
    art,        \* art[a][s]: rollback artifact for save s of attempt a
    assoc,      \* attempts whose associations SQLite has committed
    pc, att,    \* where the agent is, and for which attempt
    complete,   \* RestoreMode::CompleteApplication
    files,      \* entries of the plan (RestorePlan.priority_plan)
    critical,   \* entries of the Prerequisite and Critical tiers
    tombs,      \* tombstones still to apply
    round,
    todo,       \* planned entries of this publish_to not yet handled
    existed,    \* planned entries that existed at preflight
    cur,        \* the entry being published
    mem,        \* the transaction's own rollback data, journal_snapshot
    published, staged, refs, evict,
    rb,         \* rest of the journal a rollback is working through
    err,        \* first_error is set
    boot,       \* workspaces start-up recovery has still to look at
    booting,
    pre,        \* the last attempt, what it found and what it is to do (history)
    exact       \* nobody else has written since attempt pre.att began (history)

disk == <<fs, dirs, part, wdir, jstate, jrn, art, assoc>>
tx == <<complete, files, critical, tombs, round, todo, existed, cur, mem, published, staged, refs, evict>>
recovery == <<rb, err, boot, booting>>
history == <<pre, exact>>
vars == <<disk, pc, att, tx, recovery, history>>

NoJournal == [maps |-> {}, links |-> {}, created |-> {}, cdirs |-> {}, partials |-> {}]
JournalType == [maps: SUBSET Saves, links: SUBSET Saves, created: SUBSET Paths,
                cdirs: SUBSET Dirs, partials: SUBSET Paths]

NoTransaction ==
    /\ complete' = FALSE /\ files' = {} /\ critical' = {} /\ tombs' = {} /\ round' = 1
    /\ todo' = {} /\ existed' = {}
    /\ cur' = None /\ mem' = NoJournal /\ published' = {} /\ staged' = {}
    /\ refs' = [c \in Chunks |-> 0] /\ evict' = FALSE

\* The end of one workspace: back to start-up recovery, or the operation is over.
Leave == /\ pc' = (IF booting THEN "scan" ELSE "idle")
         /\ NoTransaction

-----------------------------------------------------------------------------
Present(x) == IF x \in Dirs THEN x \in dirs ELSE fs[x] # Absent

\* preflight: the destination already is what the manifest entry asks for.
Identical(x) == IF x \in Dirs THEN x \in dirs ELSE fs[x] = "new"

\* missing_directory_chain, and the directory itself for a directory entry.
Chain(x) == Above[x] \cup (IF x \in Dirs THEN {x} ELSE {})

Target(r) == IF r = 1 THEN critical ELSE files

ChunksFor(S) == UNION {ChunksOf[p] : p \in S \cap Paths}

\* Mutant: tombstones are not captured.
CapturedPlanned == {p \in todo \cap Paths : fs[p] # Absent /\ ~Identical(p)}

\* The destinations prepare_rollback captures: planned, not identical, or a tombstone.
Captured == {p \in Paths : /\ fs[p] # Absent
                           /\ \/ p \in todo /\ ~Identical(p)
                              \/ round = 2 /\ p \in tombs}

\* RestoreTransaction::new: remaining_chunk_refs.
CountRefs(F) == [c \in Chunks |-> Cardinality({p \in F \cap Paths : c \in ChunksOf[p]})]

\* run_restore_with_session up to the first download: prepare_restore makes the
\* workspace, the Steam appmanifest is removed, RestoreTransaction::new counts the
\* references.
Begin(a, F, K, T, mode) ==
    /\ pc = "idle" /\ a \notin wdir /\ a \notin assoc /\ \A p \in Paths : part[a][p] = None
    /\ F \subseteq Entries /\ K \subseteq F /\ T \subseteq Paths
    /\ Overlap \/ F \cap T = {}
    /\ complete' = mode /\ files' = F /\ critical' = K /\ tombs' = T
    /\ refs' = CountRefs(F)
    /\ fs' = [p \in Paths |-> IF p \in SteamManifests THEN Absent ELSE fs[p]]
    /\ wdir' = wdir \cup {a} /\ att' = a /\ pc' = "fetch"
    /\ pre' = [att |-> a, fs |-> fs, dirs |-> dirs, files |-> F, tombs |-> T]
    /\ exact' = \A b \in Attempts : jstate[b] = None
    /\ UNCHANGED <<dirs, part, jstate, jrn, art, assoc, round, todo, existed, cur, mem,
                   published, staged, evict, recovery>>

\* A bundle without restorable files is refused after its workspace was made.
RefuseEmptyBundle(a) ==
    /\ pc = "idle" /\ a \notin wdir /\ a \notin assoc
    /\ wdir' = wdir \cup {a}
    /\ UNCHANGED <<fs, dirs, part, jstate, jrn, art, assoc, pc, att, tx, recovery, history>>

\* download_and_verify_to: ReadyToLaunch before round 1; Soon, then Complete, before
\* round 2. A chunk that is already staged is kept. Round 2 goes on to release and
\* prune the packs and to enable eviction.
Fetch ==
    /\ pc = "fetch"
    /\ IF round = 1
       THEN /\ staged' = staged \cup ChunksFor(Target(1))
            /\ UNCHANGED evict
       ELSE /\ staged' = {c \in staged \cup ChunksFor(files) : refs[c] # 0}
            /\ evict' = TRUE
    /\ pc' = "preflight"
    /\ UNCHANGED <<disk, att, complete, files, critical, tombs, round, todo, existed, cur, mem, published, refs,
                   recovery, history>>

\* Mutant: entries and tombstones are not compared.
PreflightUncompared ==
    /\ pc = "preflight"
    /\ todo' = Target(round) \ published /\ existed' = {x \in todo' : Present(x)}
    /\ pc' = "capture"
    /\ UNCHANGED <<disk, att, complete, files, critical, tombs, round, cur, mem, published, staged, refs, evict,
                   recovery, history>>

\* preflight: entries of earlier rounds are skipped; an entry and a tombstone at one
\* destination are refused, which is only looked for among what this call plans.
Preflight ==
    /\ pc = "preflight"
    /\ LET plan == Target(round) \ published IN
       IF round = 2 /\ plan \cap tombs # {}
       THEN pc' = "abort" /\ UNCHANGED <<todo, existed>>
       ELSE /\ todo' = plan /\ existed' = {x \in plan : Present(x)}
            /\ pc' = "capture"
    /\ UNCHANGED <<disk, att, complete, files, critical, tombs, round, cur, mem, published, staged, refs, evict,
                   recovery, history>>

\* prepare_rollback up to the journal write: regular files are copied into the
\* workspace, symlink targets are remembered.
Capture ==
    /\ pc = "capture"
    /\ LET regular == {p \in Captured : fs[p] # "link"}
           links == Captured \ regular
       IN /\ art' = [art EXCEPT ![att] = [s \in Saves |->
                        IF s[1] = round /\ s[2] \in regular THEN fs[s[2]] ELSE art[att][s]]]
          /\ mem' = [mem EXCEPT !.maps = mem.maps \cup ({round} \X regular),
                                !.links = mem.links \cup ({round} \X links)]
    /\ pc' = "arm"
    /\ UNCHANGED <<fs, dirs, part, wdir, jstate, jrn, assoc, att, complete, files, critical, tombs, round, todo,
                   existed, cur, published, staged, refs, evict, recovery, history>>

\* persist_journal: the journal file is replaced by the transaction's data, atomically.
persist_journal(state) ==
    /\ jrn' = [jrn EXCEPT ![att] = mem]
    /\ jstate' = [jstate EXCEPT ![att] = state]

\* The journal writes of prepare_rollback, create_directory_chain_journaled,
\* track_partial and track_created_path; each then goes on with what it announced.
Armed ==
    \/ pc = "arm" /\ pc' = "publish"
    \/ pc = "armDir" /\ pc' = "mkdir"
    \/ pc = "armPartial" /\ pc' = "create"
    \/ pc = "armCreated" /\ pc' = "rename"

PersistActive ==
    /\ Armed
    /\ persist_journal("active")
    /\ UNCHANGED <<fs, dirs, part, wdir, art, assoc, att, tx, recovery, history>>

\* release_entry_chunks: a count that reaches zero evicts the chunk, once enabled.
release_entry_chunks(x) ==
    LET C == ChunksFor({x}) IN
    /\ refs' = [c \in Chunks |-> IF c \in C THEN refs[c] - 1 ELSE refs[c]]
    /\ staged' = IF evict THEN {c \in staged : c \notin C \/ refs[c] # 1} ELSE staged

PublishIdentical(x) ==
    /\ pc = "publish" /\ x \in todo
    /\ Identical(x)
    /\ release_entry_chunks(x)
    /\ published' = published \cup {x} /\ todo' = todo \ {x}
    /\ UNCHANGED <<disk, pc, att, complete, files, critical, tombs, round, existed, cur, mem, evict, recovery,
                   history>>

PublishBegin(x) ==
    /\ pc = "publish" /\ x \in todo
    /\ ~Identical(x)
    /\ cur' = x /\ todo' = todo \ {x} /\ pc' = "chain"
    /\ UNCHANGED <<disk, att, complete, files, critical, tombs, round, existed, mem, published, staged, refs, evict,
                   recovery, history>>

\* create_directory_chain_journaled: the topmost missing directory is announced first.
AnnounceDirectory(d) ==
    /\ pc = "chain" /\ d \in Chain(cur) \ dirs
    /\ Above[d] \subseteq dirs
    /\ mem' = [mem EXCEPT !.cdirs = mem.cdirs \cup {d}]
    /\ pc' = "armDir"
    /\ UNCHANGED <<disk, att, complete, files, critical, tombs, round, todo, existed, cur, published, staged, refs,
                   evict, recovery, history>>

MakeDirectory(d) ==
    /\ pc = "mkdir" /\ d \in (Chain(cur) \cap mem.cdirs) \ dirs
    /\ dirs' = dirs \cup {d} /\ pc' = "chain"
    /\ UNCHANGED <<fs, part, wdir, jstate, jrn, art, assoc, att, tx, recovery, history>>

\* A directory entry is published by its chain; a file or symlink announces its partial.
TrackPartial ==
    /\ pc = "chain" /\ Chain(cur) \subseteq dirs
    /\ IF cur \in Dirs
       THEN pc' = "release" /\ UNCHANGED mem
       ELSE /\ mem' = [mem EXCEPT !.partials = mem.partials \cup {cur}]
            /\ pc' = "armPartial"
    /\ UNCHANGED <<disk, att, complete, files, critical, tombs, round, todo, existed, cur, published, staged, refs,
                   evict, recovery, history>>

\* publish_file, publish_symlink: a leftover partial is removed, a new one is created.
CreatePartial ==
    /\ pc = "create"
    /\ part' = [part EXCEPT ![att][cur] = "torn"]
    /\ pc' = "fill"
    /\ UNCHANGED <<fs, dirs, wdir, jstate, jrn, art, assoc, att, tx, recovery, history>>

\* publish_file: all chunks are copied, size and hash are verified, and a destination
\* that did not exist is announced as created. A chunk that is not staged is an error.
FillPartial ==
    /\ pc = "fill"
    /\ IF ~(ChunksOf[cur] \subseteq staged)
       THEN pc' = "abort" /\ UNCHANGED <<part, mem>>
       ELSE /\ part' = [part EXCEPT ![att][cur] = "new"]
            /\ IF cur \in existed
               THEN pc' = "rename" /\ UNCHANGED mem
               ELSE /\ mem' = [mem EXCEPT !.created = mem.created \cup {cur}]
                    /\ pc' = "armCreated"
    /\ UNCHANGED <<fs, dirs, wdir, jstate, jrn, art, assoc, att, complete, files, critical, tombs, round, todo,
                   existed, cur, published, staged, refs, evict, recovery, history>>

RenameIntoPlace ==
    /\ pc = "rename"
    /\ fs' = [fs EXCEPT ![cur] = part[att][cur]]
    /\ part' = [part EXCEPT ![att][cur] = None]
    /\ mem' = [mem EXCEPT !.partials = mem.partials \ {cur}]
    /\ pc' = "clear"
    /\ UNCHANGED <<dirs, wdir, jstate, jrn, art, assoc, att, complete, files, critical, tombs, round, todo, existed,
                   cur, published, staged, refs, evict, recovery, history>>

ClearPartial ==
    /\ pc = "clear"
    /\ persist_journal("active")
    /\ pc' = "release"
    /\ UNCHANGED <<fs, dirs, part, wdir, art, assoc, att, tx, recovery, history>>

PublishEnd ==
    /\ pc = "release"
    /\ release_entry_chunks(cur)
    /\ published' = published \cup {cur} /\ cur' = None
    /\ pc' = "publish"
    /\ UNCHANGED <<disk, att, complete, files, critical, tombs, round, todo, existed, mem, evict, recovery, history>>

\* READY_TO_LAUNCH is reported and the remaining tiers are fetched.
ReadyToLaunch ==
    /\ pc = "publish" /\ todo = {} /\ round = 1
    /\ round' = 2 /\ pc' = "fetch"
    /\ UNCHANGED <<disk, att, complete, files, critical, tombs, todo, existed, cur, mem, published, staged, refs,
                   evict, recovery, history>>

ApplyTombstone(p) ==
    /\ pc = "publish" /\ todo = {} /\ round = 2
    /\ p \in tombs
    /\ fs' = [fs EXCEPT ![p] = Absent]
    /\ tombs' = tombs \ {p}
    /\ UNCHANGED <<dirs, part, wdir, jstate, jrn, art, assoc, pc, att, complete, files, critical, round, todo,
                   existed, cur, mem, published, staged, refs, evict, recovery, history>>

-----------------------------------------------------------------------------
\* commit: refused while a reference is left; then the commit decision is persisted.
CommitDecision ==
    /\ pc = "publish" /\ todo = {} /\ round = 2 /\ tombs = {}
    /\ IF \E c \in Chunks : refs[c] # 0
       THEN pc' = "abort" /\ UNCHANGED <<jrn, jstate>>
       ELSE persist_journal("committed") /\ pc' = "db"
    /\ UNCHANGED <<fs, dirs, part, wdir, art, assoc, att, tx, recovery, history>>

CommitAssociations ==
    /\ pc = "db"
    /\ assoc' = assoc \cup {att}
    /\ pc' = "purge"
    /\ UNCHANGED <<fs, dirs, part, wdir, jstate, jrn, art, att, tx, recovery, history>>

\* The database refuses: the journal is re-armed and the drop rolls back, or the
\* restore stays committed, its workspace left for start-up recovery.
AssociationsFail ==
    /\ pc = "db" /\ "db" \in Faults
    /\ \/ persist_journal("active") /\ pc' = "abort"
       \/ "rearm" \in Faults /\ pc' = "stuck" /\ UNCHANGED <<jrn, jstate>>
    /\ UNCHANGED <<fs, dirs, part, wdir, art, assoc, att, tx, recovery, history>>

\* The transaction is dropped in its Committed state.
DropCommitted ==
    /\ pc = "stuck"
    /\ Leave
    /\ UNCHANGED <<disk, att, recovery, history>>

Forward == {"fetch", "preflight", "capture", "arm", "publish", "chain", "armDir", "mkdir",
            "armPartial", "create", "fill", "armCreated", "rename", "clear", "release"}

\* A call of the restore returns an error, or its future is dropped by a cancellation:
\* Drop aborts the transaction.
ForwardFails ==
    /\ pc \in Forward /\ "forward" \in Faults
    /\ pc' = "abort"
    /\ UNCHANGED <<disk, att, tx, recovery, history>>

\* abort: the journal is written once more and the rollback works from memory.
Abort ==
    /\ pc = "abort"
    /\ \/ persist_journal("active") /\ err' = FALSE
       \/ "cleanup" \in Faults /\ err' = TRUE /\ UNCHANGED <<jrn, jstate>>
    /\ rb' = mem
    /\ pc' = "rollback"
    /\ UNCHANGED <<fs, dirs, part, wdir, art, assoc, att, tx, boot, booting, history>>

-----------------------------------------------------------------------------
\* rollback_from_journal, entry by entry: partials, created paths, regular files,
\* symlinks, directories. An entry that fails is recorded and passed over.
RollbackPartial(p) ==
    /\ pc = "rollback" /\ p \in rb.partials
    /\ \/ part' = [part EXCEPT ![att][p] = None] /\ err' = err
       \/ "cleanup" \in Faults /\ err' = TRUE /\ UNCHANGED part
    /\ rb' = [rb EXCEPT !.partials = rb.partials \ {p}]
    /\ UNCHANGED <<fs, dirs, wdir, jstate, jrn, art, assoc, pc, att, tx, boot, booting, history>>

RollbackCreated(p) ==
    /\ pc = "rollback" /\ rb.partials = {} /\ p \in rb.created
    /\ \/ fs' = [fs EXCEPT ![p] = Absent] /\ err' = err
       \/ "cleanup" \in Faults /\ err' = TRUE /\ UNCHANGED fs
    /\ rb' = [rb EXCEPT !.created = rb.created \ {p}]
    /\ UNCHANGED <<dirs, part, wdir, jstate, jrn, art, assoc, pc, att, tx, boot, booting,
                   history>>

\* Mutant: a missing artifact is waited for.
RollbackRegularWaits(s) ==
    /\ pc = "rollback" /\ rb.partials = {} /\ rb.created = {}
    /\ s \in rb.maps /\ art[att][s] # None
    /\ fs' = [fs EXCEPT ![s[2]] = art[att][s]]
    /\ rb' = [rb EXCEPT !.maps = rb.maps \ {s}]
    /\ UNCHANGED <<dirs, part, wdir, jstate, jrn, art, assoc, pc, att, tx, err, boot, booting,
                   history>>

\* restore_regular_mapping, newest capture first: an error when the artifact or the
\* parent directory is gone.
RollbackRegular(s) ==
    /\ pc = "rollback" /\ rb.partials = {} /\ rb.created = {}
    /\ s \in rb.maps /\ \A u \in rb.maps : u[1] <= s[1]
    /\ \/ /\ art[att][s] # None /\ Above[s[2]] \subseteq dirs
          /\ fs' = [fs EXCEPT ![s[2]] = art[att][s]] /\ err' = err
       \/ /\ art[att][s] = None \/ ~(Above[s[2]] \subseteq dirs) \/ "cleanup" \in Faults
          /\ err' = TRUE /\ UNCHANGED fs
    /\ rb' = [rb EXCEPT !.maps = rb.maps \ {s}]
    /\ UNCHANGED <<dirs, part, wdir, jstate, jrn, art, assoc, pc, att, tx, boot, booting,
                   history>>

\* restore_prior_symlink: the target is in the journal itself.
RollbackSymlink(s) ==
    /\ pc = "rollback" /\ rb.partials = {} /\ rb.created = {} /\ rb.maps = {}
    /\ s \in rb.links /\ \A u \in rb.links : u[1] <= s[1]
    /\ \/ /\ Above[s[2]] \subseteq dirs
          /\ fs' = [fs EXCEPT ![s[2]] = "link"] /\ err' = err
       \/ /\ ~(Above[s[2]] \subseteq dirs) \/ "cleanup" \in Faults
          /\ err' = TRUE /\ UNCHANGED fs
    /\ rb' = [rb EXCEPT !.links = rb.links \ {s}]
    /\ UNCHANGED <<dirs, part, wdir, jstate, jrn, art, assoc, pc, att, tx, boot, booting,
                   history>>

\* Nothing is left below directory d.
Empty(d) == /\ \A p \in Paths : d \in Above[p] =>
                   fs[p] = Absent /\ \A a \in Attempts : part[a][p] = None
            /\ \A e \in dirs : d \notin Above[e]

\* Deepest first; DirectoryNotEmpty is not an error.
RollbackDirectory(d) ==
    /\ pc = "rollback" /\ rb.partials = {} /\ rb.created = {} /\ rb.maps = {} /\ rb.links = {}
    /\ d \in rb.cdirs /\ \A e \in rb.cdirs : d \notin Above[e]
    /\ \/ dirs' = (IF Empty(d) THEN dirs \ {d} ELSE dirs) /\ err' = err
       \/ "cleanup" \in Faults /\ err' = TRUE /\ UNCHANGED dirs
    /\ rb' = [rb EXCEPT !.cdirs = rb.cdirs \ {d}]
    /\ UNCHANGED <<fs, part, wdir, jstate, jrn, art, assoc, pc, att, tx, boot, booting, history>>

\* Without an error the workspace is removed, otherwise it stays with its journal.
\* abort also prunes the pack cache first, recovery does not.
RollbackEnd ==
    /\ pc = "rollback" /\ rb = NoJournal
    /\ \/ ~err /\ pc' = "sweep" /\ UNCHANGED tx
       \/ (err \/ (~booting /\ "cleanup" \in Faults)) /\ Leave
    /\ UNCHANGED <<disk, att, recovery, history>>

-----------------------------------------------------------------------------
\* remove_directory_tree_durable is not atomic: the journal and the artifacts go in the
\* order the directory lists them, the directory itself last. "purge" is the removal
\* that ends a commit.
Sweeping == {"sweep", "purge"}

SweepArtifacts ==
    /\ pc \in Sweeping /\ \E s \in Saves : art[att][s] # None
    /\ art' = [art EXCEPT ![att] = [s \in Saves |-> None]]
    /\ UNCHANGED <<fs, dirs, part, wdir, jstate, jrn, assoc, pc, att, tx, recovery, history>>

SweepJournal ==
    /\ pc \in Sweeping /\ jstate[att] # None
    /\ jstate' = [jstate EXCEPT ![att] = None]
    /\ jrn' = [jrn EXCEPT ![att] = NoJournal]
    /\ UNCHANGED <<fs, dirs, part, wdir, art, assoc, pc, att, tx, recovery, history>>

\* A commit of a complete restore goes on to the Steam appmanifest.
SweepDirectory ==
    /\ pc \in Sweeping /\ jstate[att] = None /\ \A s \in Saves : art[att][s] = None
    /\ wdir' = wdir \ {att}
    /\ IF pc = "purge" /\ complete THEN pc' = "manifest" /\ UNCHANGED tx ELSE Leave
    /\ UNCHANGED <<fs, dirs, part, jstate, jrn, art, assoc, att, recovery, history>>

SweepFails ==
    /\ pc \in Sweeping /\ "cleanup" \in Faults
    /\ Leave
    /\ UNCHANGED <<disk, att, recovery, history>>

\* ensure_steam_appmanifest_after_commit: a missing appmanifest is written, and the
\* directories it needs are made first.  The commit stands if that fails.
EnsureAppmanifest ==
    /\ pc = "manifest"
    /\ LET missing == {p \in SteamManifests : fs[p] = Absent}
           made == dirs \cup UNION {Above[p] : p \in missing}
       IN  \/ /\ dirs' = made
              /\ fs' = [p \in Paths |-> IF p \in missing THEN "new" ELSE fs[p]]
           \/ "forward" \in Faults /\ dirs' \in {dirs, made} /\ UNCHANGED fs
    /\ Leave
    /\ UNCHANGED <<part, wdir, jstate, jrn, art, assoc, att, recovery, history>>

-----------------------------------------------------------------------------
Crash ==
    /\ pc # "down"
    /\ pc' = "down" /\ NoTransaction
    /\ rb' = NoJournal /\ err' = FALSE /\ boot' = {} /\ booting' = FALSE
    /\ UNCHANGED <<disk, att, history>>

\* recover_interrupted_restores, before the agent serves requests.
Restart ==
    /\ pc = "down"
    /\ boot' = wdir /\ booting' = TRUE /\ pc' = "scan"
    /\ UNCHANGED <<disk, att, tx, rb, err, history>>

\* recover_restore_workspace: no journal or a committed one is only cleaned. The
\* workspaces are sorted by random identifiers: any order.
RecoverWorkspace(a) ==
    /\ pc = "scan" /\ a \in boot
    /\ boot' = boot \ {a} /\ att' = a /\ err' = FALSE
    /\ IF jstate[a] = "active"
       THEN rb' = jrn[a] /\ pc' = "rollback"
       ELSE rb' = NoJournal /\ pc' = "sweep"
    /\ exact' = (exact /\ (a = pre.att \/ jstate[a] # "active"))
    /\ UNCHANGED <<disk, tx, booting, pre>>

RecoveryEnd ==
    /\ pc = "scan" /\ boot = {}
    /\ booting' = FALSE /\ pc' = "idle"
    /\ UNCHANGED <<disk, att, tx, rb, err, boot, history>>

\* External: the application writes a file, creating the directories it needs.
ApplicationWrites(p) ==
    /\ pc = "idle" /\ fs[p] # "user"
    /\ fs' = [fs EXCEPT ![p] = "user"]
    /\ dirs' = dirs \cup Above[p]
    /\ exact' = FALSE
    /\ UNCHANGED <<part, wdir, jstate, jrn, art, assoc, pc, att, tx, recovery, pre>>

Init ==
    /\ fs \in [Paths -> {Absent, "file", "link"}]
    /\ dirs \in SUBSET Dirs
    /\ \A d \in dirs : Above[d] \subseteq dirs
    /\ \A p \in Paths : fs[p] # Absent => Above[p] \subseteq dirs
    /\ part = [a \in Attempts |-> [p \in Paths |-> None]]
    /\ wdir = {} /\ jstate = [a \in Attempts |-> None]
    /\ jrn = [a \in Attempts |-> NoJournal]
    /\ art = [a \in Attempts |-> [s \in Saves |-> None]]
    /\ assoc = {} /\ pc = "idle" /\ att \in Attempts
    /\ complete = FALSE /\ files = {} /\ critical = {} /\ tombs = {} /\ round = 1 /\ todo = {} /\ existed = {}
    /\ cur = None /\ mem = NoJournal /\ published = {} /\ staged = {}
    /\ refs = [c \in Chunks |-> 0] /\ evict = FALSE
    /\ rb = NoJournal /\ err = FALSE /\ boot = {} /\ booting = FALSE
    /\ pre = [att |-> att, fs |-> fs, dirs |-> dirs, files |-> {}, tombs |-> {}] /\ exact = FALSE

Next ==
    \/ \E a \in Attempts : \/ \E F \in SUBSET Entries, T \in SUBSET Paths, m \in Modes :
                                \E K \in SUBSET F : Begin(a, F, K, T, m)
                            \/ RefuseEmptyBundle(a) \/ RecoverWorkspace(a)
    \/ \E x \in Entries : PublishIdentical(x) \/ PublishBegin(x)
    \/ \E d \in Dirs : AnnounceDirectory(d) \/ MakeDirectory(d) \/ RollbackDirectory(d)
    \/ \E p \in Paths : ApplyTombstone(p) \/ RollbackPartial(p) \/ RollbackCreated(p)
                        \/ ApplicationWrites(p)
    \/ \E s \in Saves : RollbackRegular(s) \/ RollbackSymlink(s)
    \/ Fetch \/ Preflight \/ Capture \/ PersistActive \/ TrackPartial \/ CreatePartial
    \/ FillPartial \/ RenameIntoPlace \/ ClearPartial \/ PublishEnd \/ ReadyToLaunch
    \/ CommitDecision \/ CommitAssociations \/ AssociationsFail \/ DropCommitted
    \/ ForwardFails \/ Abort \/ RollbackEnd
    \/ SweepArtifacts \/ SweepJournal \/ SweepDirectory \/ SweepFails \/ EnsureAppmanifest
    \/ Crash \/ Restart \/ RecoveryEnd

Spec == Init /\ [][Next]_vars

\* The agent keeps working through what it has begun; its service is restarted.
Working ==
    \/ \E a \in Attempts : RecoverWorkspace(a)
    \/ \E x \in Entries : PublishIdentical(x) \/ PublishBegin(x)
    \/ \E d \in Dirs : AnnounceDirectory(d) \/ MakeDirectory(d) \/ RollbackDirectory(d)
    \/ \E p \in Paths : ApplyTombstone(p) \/ RollbackPartial(p) \/ RollbackCreated(p)
    \/ \E s \in Saves : RollbackRegular(s) \/ RollbackSymlink(s)
    \/ Fetch \/ Preflight \/ Capture \/ PersistActive \/ TrackPartial \/ CreatePartial
    \/ FillPartial \/ RenameIntoPlace \/ ClearPartial \/ PublishEnd \/ ReadyToLaunch
    \/ CommitDecision \/ CommitAssociations \/ DropCommitted \/ Abort \/ RollbackEnd
    \/ SweepArtifacts \/ SweepJournal \/ SweepDirectory \/ EnsureAppmanifest
    \/ Restart \/ RecoveryEnd

\* A restore's task and the start-up recovery go on.  That a download returns
\* is an assumption about the storage: the agent puts no time-out on it.
FairSpec == Spec /\ WF_vars(Working)

-----------------------------------------------------------------------------
Pcs == Forward \cup {"idle", "db", "stuck", "abort", "rollback", "sweep", "purge", "manifest",
                  "down", "scan"}

\* Every variable keeps its type (the structs of RestoreTransaction and its journal).
TypeOK ==
    /\ fs \in [Paths -> Contents] /\ dirs \subseteq Dirs
    /\ part \in [Attempts -> [Paths -> {None, "torn", "new"}]]
    /\ wdir \subseteq Attempts
    /\ jstate \in [Attempts -> {None, "active", "committed"}]
    /\ jrn \in [Attempts -> JournalType]
    /\ art \in [Attempts -> [Saves -> Contents \cup {None}]]
    /\ assoc \subseteq Attempts
    /\ pc \in Pcs /\ att \in Attempts
    /\ complete \in BOOLEAN /\ files \subseteq Entries /\ critical \subseteq files /\ tombs \subseteq Paths
    /\ round \in Rounds /\ todo \subseteq Entries /\ existed \subseteq Entries
    /\ cur \in Entries \cup {None} /\ mem \in JournalType
    /\ published \subseteq Entries /\ staged \subseteq Chunks
    /\ refs \in [Chunks -> Nat] /\ evict \in BOOLEAN
    /\ rb \in JournalType /\ err \in BOOLEAN /\ boot \subseteq Attempts /\ booting \in BOOLEAN
    /\ pre \in [att: Attempts, fs: [Paths -> Contents], dirs: SUBSET Dirs, files: SUBSET Entries,
                tombs: SUBSET Paths]
    /\ exact \in BOOLEAN

\* What the restore is to leave at p.
Goal(p) == IF p \in pre.files THEN "new" ELSE IF p \in pre.tombs THEN Absent ELSE pre.fs[p]

\* Nobody else writes, and no path of the bundle is both entry and tombstone.
Plain == exact /\ pre.files \cap pre.tombs = {}

\* The Steam appmanifest is removed before the transaction and written after it.
Transactional == Paths \ SteamManifests
Untouched == \A p \in Transactional : fs[p] = pre.fs[p]
Done == \A p \in Transactional : fs[p] = Goal(p)

\* What rolling back from journal j with the artifacts now in the workspace leaves at p.
Undone(j, p) ==
    IF p \in {s[2] : s \in j.links} THEN "link"
    ELSE LET kept == {s \in j.maps : s[2] = p /\ art[pre.att][s] # None}
         IN IF kept # {}
            THEN art[pre.att][CHOOSE s \in kept : \A u \in kept : s[1] <= u[1]]
            ELSE IF p \in j.created THEN Absent ELSE fs[p]

\* A crash at any moment is recoverable: while the journal on disk is not committed,
\* rolling back from it gives every path what it held before the restore; once it is
\* committed, every path holds what the restore was to leave; and without a journal one
\* of the two holds as it stands (persist_journal before every mutation in publish_file,
\* prepare_rollback and commit).  So an incomplete file is never left at a final path.
\* A restore whose workspace is gone has also taken back its directories, or is done.
AllOrNothing ==
    Plain =>
        /\ \/ /\ jstate[pre.att] = "active"
              /\ \A p \in Transactional : Undone(jrn[pre.att], p) = pre.fs[p]
           \/ jstate[pre.att] # "committed" /\ Untouched
           \/ jstate[pre.att] # "active" /\ Done
        /\ pc = "idle" /\ pre.att \notin wdir => (Untouched /\ dirs = pre.dirs) \/ Done

\* A partial file beside a live path is always listed in a durable journal that recovery
\* will read (track_partial before create, clear_partial after rename).
PartialsJournaled ==
    \A a \in Attempts, p \in Paths : part[a][p] # None =>
        a \in wdir /\ jstate[a] = "active" /\ p \in jrn[a].partials

\* Eviction never takes a chunk that a planned entry of this publish_to still needs,
\* also when entries share chunks or an earlier round published some of them.
ChunksHeld ==
    pc \in Forward \ {"fetch", "preflight"} =>
        \A p \in (todo \cup (IF pc = "release" THEN {} ELSE {cur})) \cap Paths :
            ChunksOf[p] \subseteq staged

\* "A crash after SQLite commits can never leave an active journal that startup
\* recovery would roll back."
AssociationsFinal == \A a \in assoc : jstate[a] # "active"

\* The four together.
RestoreSafe == AllOrNothing /\ PartialsJournaled /\ ChunksHeld /\ AssociationsFinal

\* A restore is committed with an entry and a tombstone at one path only if the entry is
\* launch-critical: preflight refuses "manifest entry and tombstone both resolve to" when
\* it plans the entry together with the tombstones, which are looked at in round 2 alone.
ClashRefused == pc = "db" => files \cap pre.tombs \subseteq critical

\* Unless the agent keeps crashing, every restore and every start-up recovery ends.
RestoreEnds == (<>[][~Crash]_vars) => []<>(pc = "idle")
=============================================================================
