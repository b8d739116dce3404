--------------------------- MODULE BackupEvidence ---------------------------
(***************************************************************************)
(* How a change to one of an application's files becomes part of a backup: *)
(* the observer queue, the attribution engine, the mutation journal and    *)
(* dirty marks of the state database, the incremental backup that reads    *)
(* them and clears them after its commit, and the seal that runs backups   *)
(* on the other operation lane.                                            *)
(*                                                                         *)
(* One application; its files are user state (the classifier includes      *)
(* them) and lie in one directory under a known root, so there is one      *)
(* dirty root and a reconciliation finds every existing file.  fs[p] is    *)
(* the number of the write that produced p's content, 0 when there is no   *)
(* such file; the number also stands for the file's mtime and inode.       *)
(* SizeOf gives the size, since fast_identity_matches compares it too.     *)
(***************************************************************************)
EXTENDS QueueOps

CONSTANTS MaxChanges,   \* bound: changes to files in a behaviour
          MaxRows,      \* rows pending_app_mutations gives a backup (10_000 in the code)
          SizeOf,       \* size of the content of each write
          Worlds        \* which of AllBehaviours may happen besides writes and backups

Modes == {"personal", "full", "complete"}
Lanes == {"transfer", "control"}
AllBehaviours ==
    {"modes",      \* full and complete backups besides personal ones
     "seal",       \* seals besides backups
     "overlap",    \* the application writes while a backup or seal runs
     "lanes",      \* a backup and a seal run at the same time
     "ring",       \* the kernel ring loses events (and reports it)
     "reorder",    \* the exec event comes after the process's first writes
     "exit",       \* the application ends
     "backlog",    \* recovery ticks and seals find undrained events
     "crash",      \* the agent restarts
     "fail",       \* a step of a backup fails
     "parent",     \* load_parent finds no parent
     "unlink", "rename"}

VARIABLES
    fs,        \* content of each file
    clock,     \* number of the last change
    running,   \* the application's process is alive
    late,      \* its exec event has not reached the queue yet
    queue,     \* ObserverHub::queue
    db,        \* rows of the state database about this application
    head,      \* latest COMMITTED bundle of the application
    bk,        \* the backup or seal running on each lane
    blind,     \* history: files whose last event a crash took from memory
    world      \* what may happen in this behaviour

state == <<fs, clock, running, late, queue, db, head, bk, blind>>
vars == <<state, world>>
appvars == <<fs, clock, running, late>>

Contents == 0..MaxChanges
NoContent == [p \in Paths |-> 0]
May(b) == b \in world

(***************************************************************************)
(* The database.                                                           *)
(***************************************************************************)

\* dirty_apps and dirty_roots: no row, a row, a row that requires reconciliation.
Marks == {"clean", "dirty", "reconcile"}
Raise(m, rec) == IF rec \/ m = "reconcile" THEN "reconcile" ELSE "dirty"
Reconciled(m) == IF m = "reconcile" THEN "dirty" ELSE m

MutationRows == [path : Paths, prev : Paths \cup {NoPath},
                 kind : {"Create", "Modify", "Rename", "Delete"}]
Trusts == {"None", "Trusted", "VerifyRequired", "Dirty", "Missing"}

\* size and mtime of a file_state_index row
Identity(content, mtime) == [size |-> SizeOf[content], mtime |-> mtime]

EmptyDb ==
    [session |-> FALSE, assoc |-> {}, journal |-> {}, app |-> "clean", paths |-> {},
     root |-> "clean", trust |-> [p \in Paths |-> "None"],
     ident |-> [p \in Paths |-> Identity(0, 0)]]

mutation_kind(e) ==
    CASE e.kind = "create" -> "Create"
      [] e.kind = "write"  -> "Modify"
      [] e.kind = "rename" -> "Rename"
      [] e.kind = "unlink" -> "Delete"

Row(e) == [path |-> e.path, prev |-> e.prev, kind |-> mutation_kind(e)]

\* set_file_state_trust updates an existing row only
SetTrust(d, p, t) ==
    IF d.trust[p] = "None" THEN d.trust ELSE [d.trust EXCEPT ![p] = t]

mark_dirty(d, rec) == [d EXCEPT !.app = Raise(d.app, rec)]
mark_dirty_root(d, rec) == [d EXCEPT !.root = Raise(d.root, rec)]

\* A mutation observed for the application's session.  append_app_mutation
\* coalesces it into an equal pending row, and then nothing else happens.
ingest_fs_for_session(d, e) ==
    LET rec == e.kind \in {"rename", "unlink"}
        seen == [d EXCEPT !.assoc = d.assoc \cup {e.path}]
    IN  IF Row(e) \in d.journal
        THEN seen
        ELSE mark_dirty_root(mark_dirty(
               [seen EXCEPT
                  !.journal = d.journal \cup {Row(e)},
                  !.paths = d.paths \cup {e.path},
                  !.trust = SetTrust(d, e.path,
                                     IF e.kind = "unlink" THEN "Missing" ELSE "Dirty")],
               rec), rec)

\* One event of a drained batch; b is the database and the events that no session
\* claims yet.
Ingest(b, e) ==
    CASE e.kind = "exec" ->
           [d |-> FoldLeft(ingest_fs_for_session, [b.d EXCEPT !.session = TRUE], b.wait),
            wait |-> <<>>]
      [] e.kind = "exit" -> [b EXCEPT !.d = [b.d EXCEPT !.session = FALSE]]
      [] is_filesystem(e) /\ b.d.session -> [b EXCEPT !.d = ingest_fs_for_session(b.d, e)]
      [] OTHER -> [b EXCEPT !.wait = Append(b.wait, e)]

\* process_hub_events makes a new engine for each batch: what is still waiting at
\* the end goes with it.
process_hub_events(d, events) == FoldLeft(Ingest, [d |-> d, wait |-> <<>>], events).d

\* Sessions follow the live processes.
reconcile_live_processes(d) == [d EXCEPT !.session = running]

\* Mutant: the sessions are reconciled, and no application is marked.
recover_lossUnmarked(d) == reconcile_live_processes(d)

\* What process_events does when the loss flag is up, after the batch.
recover_loss(d) ==
    LET marked == mark_dirty_root(mark_dirty(d, TRUE), TRUE)
        doubted == [marked EXCEPT !.trust =
                      [p \in Paths |-> IF d.trust[p] = "None" THEN "None" ELSE "VerifyRequired"]]
    IN  reconcile_live_processes(IF d.session THEN doubted ELSE d)

process_events(d, q) ==
    LET ingested == process_hub_events(d, q.events)
    IN  IF q.lost THEN recover_loss(ingested) ELSE ingested

\* reconcile_app: a scan of the roots.  A complete backup keeps the marks.
Scan(d, f, clears) ==
    LET found == {p \in Paths : f[p] # 0}
    IN  [d EXCEPT
           !.assoc = d.assoc \cup found,
           !.trust = [p \in Paths |-> IF p \in found THEN "VerifyRequired" ELSE d.trust[p]],
           !.ident = [p \in Paths |-> IF p \in found THEN Identity(f[p], f[p]) ELSE d.ident[p]],
           !.app = IF clears THEN Reconciled(d.app) ELSE d.app,
           !.root = IF clears THEN "clean" ELSE d.root]

(***************************************************************************)
(* Planning a backup.                                                      *)
(***************************************************************************)

NoBundle == [exists |-> FALSE, files |-> NoContent, tombs |-> {}]
Bundle(files, tombs) == [exists |-> TRUE, files |-> files, tombs |-> tombs]

\* FileStateRecord::fast_identity_matches
FastIdentity(d, p, content) ==
    /\ d.trust[p] = "Trusted"
    /\ d.ident[p] = Identity(content, content)

\* Paths whose inherited entry a Delete row or the old name of a Rename removes.
Removed(rows) ==
    {r.path : r \in {x \in rows : x.kind = "Delete"}}
        \cup ({r.prev : r \in rows} \ {NoPath})

\* Files the backup looks at: every association, or those with evidence.
Candidates(b, d, full) ==
    LET named == ({r.path : r \in b.rows} \cup b.paths) \cap d.assoc
    IN  IF full \/ (named = {} /\ b.app # "clean") THEN d.assoc ELSE named

\* reconcile_app runs when a mark asks for it, and before every complete backup.
MustScan(b, d) == b.app = "reconcile" \/ d.root = "reconcile" \/ b.mode = "complete"

\* The database after the scan, and b with the inherited files, the tombstones and
\* the files to copy.
Planned(b, d, f) ==
    LET full == ~b.parent.exists \/ b.mode = "full" \/ MustScan(b, d)
        known == IF MustScan(b, d) THEN Scan(d, f, b.mode # "complete") ELSE d
        base == [p \in Paths |-> IF p \in Removed(b.rows) THEN 0 ELSE b.parent.files[p]]
        cand == Candidates(b, known, full)
        gone == {p \in cand : f[p] = 0}
        kept == {p \in cand \ gone : /\ b.mode # "full"
                                     /\ FastIdentity(known, p, f[p])
                                     /\ base[p] # 0}
    IN  [known |-> known, b |-> [b EXCEPT
                  !.files = [p \in Paths |-> IF p \in cand \ kept THEN 0 ELSE base[p]],
                  !.tombs = Removed(b.rows) \cup (IF b.parent.exists THEN gone ELSE {}),
                  !.include = cand \ (kept \cup gone)]]

(***************************************************************************)
(* The application.                                                        *)
(***************************************************************************)

Idle == [pc |-> "idle", mode |-> "personal", rows |-> {}, app |-> "clean", paths |-> {},
         parent |-> NoBundle, files |-> NoContent, tombs |-> {}, include |-> {},
         ident |-> [p \in Paths |-> Identity(0, 0)]]

Quiet == \A l \in Lanes : bk[l].pc = "idle"

\* The application changes its files: while no backup runs, unless "overlap".
Acts ==
    /\ running
    /\ clock < MaxChanges
    /\ Quiet \/ May("overlap")

\* The event reaches the queue, or the kernel ring loses it and says so.
Observed(e, touched) ==
    /\ \/ queue' = push(queue, e)
       \/ May("ring") /\ queue' = report_loss(queue)
    /\ blind' = blind \ touched

Init ==
    /\ world \in Worlds
    /\ fs = NoContent
    /\ clock = 0
    /\ running = FALSE
    /\ late = FALSE
    /\ queue = EmptyQueue
    /\ db = EmptyDb
    /\ head = NoBundle
    /\ bk = [l \in Lanes |-> Idle]
    /\ blind = {}

\* One process at a time: the next starts when the end of the last is known.
AppStart ==
    /\ ~running /\ ~db.session /\ ~late /\ queue.events = <<>>
    /\ running' = TRUE
    /\ \/ queue' = push(queue, Event("exec", NoPath, NoPath)) /\ late' = FALSE
       \/ May("reorder") /\ late' = TRUE /\ UNCHANGED queue
    /\ UNCHANGED <<fs, clock, db, head, bk, blind>>

ExecArrives ==
    /\ late
    /\ late' = FALSE
    /\ queue' = push(queue, Event("exec", NoPath, NoPath))
    /\ UNCHANGED <<fs, clock, running, db, head, bk, blind>>

AppWrite(p) ==
    /\ Acts
    /\ clock' = clock + 1
    /\ fs' = [fs EXCEPT ![p] = clock + 1]
    /\ Observed(Event(IF fs[p] = 0 THEN "create" ELSE "write", p, NoPath), {p})
    /\ UNCHANGED <<running, late, db, head, bk>>

AppUnlink(p) ==
    /\ Acts /\ May("unlink") /\ fs[p] # 0
    /\ clock' = clock + 1
    /\ fs' = [fs EXCEPT ![p] = 0]
    /\ Observed(Event("unlink", p, NoPath), {p})
    /\ UNCHANGED <<running, late, db, head, bk>>

AppRename(p, q) ==
    /\ Acts /\ May("rename") /\ fs[p] # 0 /\ p # q
    /\ clock' = clock + 1
    /\ fs' = [fs EXCEPT ![q] = fs[p], ![p] = 0]
    /\ Observed(Event("rename", q, p), {p, q})
    /\ UNCHANGED <<running, late, db, head, bk>>

AppExit ==
    /\ running /\ ~late /\ May("exit")
    /\ running' = FALSE
    /\ queue' = push(queue, Event("exit", NoPath, NoPath))
    /\ UNCHANGED <<fs, clock, late, db, head, bk, blind>>

(***************************************************************************)
(* The agent's background loop.                                            *)
(***************************************************************************)

Drained == queue.events = <<>> /\ ~queue.lost

ProcessEvents ==
    /\ queue.events # <<>> \/ queue.lost
    /\ db' = process_events(db, queue)
    /\ queue' = EmptyQueue
    /\ UNCHANGED <<appvars, head, bk, blind>>

RecoverProcesses ==
    /\ db.session # running
    /\ Drained \/ May("backlog")
    /\ db' = reconcile_live_processes(db)
    /\ UNCHANGED <<appvars, queue, head, bk, blind>>

(***************************************************************************)
(* A backup.                                                               *)
(***************************************************************************)

At(l, pc) == bk[l].pc = pc
Step(l, b) == bk' = [bk EXCEPT ![l] = b]

\* The backup is over; a seal goes on.
Done(l) == Step(l, IF l = "control" THEN [Idle EXCEPT !.pc = "seal"] ELSE Idle)

\* A lane runs one operation at a time.
MayStart(l) ==
    /\ At(l, "idle")
    /\ Quiet \/ May("lanes")

\* StartBackup: discovery and a round of events, then run_backup.
StartBackup(m) ==
    /\ m = "personal" \/ May("modes")
    /\ MayStart("transfer")
    /\ Step("transfer", [Idle EXCEPT !.pc = "read", !.mode = m])
    /\ db' = process_events(db, queue)
    /\ queue' = EmptyQueue
    /\ UNCHANGED <<appvars, head, blind>>

\* Mutant: the seal takes the latest commit of a dirty application too.
StartSealLatest ==
    /\ May("seal") /\ MayStart("control")
    /\ Drained \/ May("backlog")
    /\ Step("control", [Idle EXCEPT !.pc = "seal"])
    /\ UNCHANGED <<appvars, queue, db, head, blind>>

\* run_seal: a dirty application is reconciled and backed up; a clean one enters
\* the seal with its latest commit.
StartSeal ==
    /\ May("seal") /\ MayStart("control")
    /\ Drained \/ May("backlog")
    /\ Step("control", [Idle EXCEPT !.pc = IF db.app = "clean" THEN "seal" ELSE "read"])
    /\ db' = IF db.app = "clean" THEN db ELSE Scan(db, fs, TRUE)
    /\ UNCHANGED <<appvars, queue, head, blind>>

\* pending_app_mutations(app_id, 10_000): which rows a longer journal gives depends
\* on their times and, within a millisecond, on their random ids.
PendingMutations(d) == kSubset(Min({MaxRows, Cardinality(d.journal)}), d.journal)

\* The evidence the backup will process, and its parent (load_parent gives none when
\* neither the cache nor the provider has it).
ReadEvidence(l) ==
    /\ At(l, "read")
    /\ \E par \in {head} \cup (IF May("parent") THEN {NoBundle} ELSE {}),
          rows \in PendingMutations(db) :
         Step(l, [bk[l] EXCEPT !.pc = "plan", !.rows = rows, !.app = db.app,
                               !.paths = db.paths, !.parent = par])
    /\ UNCHANGED <<appvars, queue, db, head, blind>>

\* Mutant: the dirty mark does not count, only the journal does.
CleanByRows(b) == b.parent.exists /\ b.rows = {} /\ b.mode # "complete"

Clean(b) == b.parent.exists /\ b.app = "clean" /\ b.rows = {} /\ b.mode # "complete"

\* Nothing to do: the parent is the backup.
NothingDirty(l) ==
    /\ At(l, "plan") /\ Clean(bk[l])
    /\ Done(l)
    /\ UNCHANGED <<appvars, queue, db, head, blind>>

\* A plan without files and tombstones completes on the parent's bundle, if that can
\* be read.
Plan(l) ==
    /\ At(l, "plan") /\ ~Clean(bk[l])
    /\ LET next == Planned(bk[l], db, fs)
           same == next.b.include = {} /\ next.b.tombs = {} /\ bk[l].parent.exists
       IN  /\ db' = next.known
           /\ \/ same /\ Step(l, [next.b EXCEPT !.pc = "evidence"])
              \/ (same => May("fail"))
                 /\ Step(l, [next.b EXCEPT !.pc = "copy"])
    /\ UNCHANGED <<appvars, queue, head, blind>>

\* create_view: the contents now; a file that is gone is left out.
Snapshot(l) ==
    /\ At(l, "copy")
    /\ LET found == {p \in bk[l].include : fs[p] # 0}
       IN  Step(l, [bk[l] EXCEPT
                      !.pc = "hash", !.include = found,
                      !.files = [p \in Paths |-> IF p \in found THEN fs[p] ELSE bk[l].files[p]]])
    /\ UNCHANGED <<appvars, queue, db, head, blind>>

\* hash_one_file: size from the copy, mtime from the source as it is by now; fails
\* when the source is gone.
HashFiles(l) ==
    /\ At(l, "hash")
    /\ LET b == bk[l]
           ok == /\ \A p \in b.include : fs[p] # 0
                 /\ b.mode = "complete" => \E p \in Paths : b.files[p] # 0
       IN  Step(l, IF ok
                   THEN [b EXCEPT !.pc = "commit",
                                  !.ident = [p \in Paths |-> Identity(b.files[p], fs[p])]]
                   ELSE Idle)
    /\ UNCHANGED <<appvars, queue, db, head, blind>>

\* Packs, manifest, COMMITTED marker and the commit row.
Commit(l) ==
    /\ At(l, "commit")
    /\ head' = Bundle(bk[l].files, bk[l].tombs)
    /\ Step(l, [bk[l] EXCEPT !.pc = "catalog"])
    /\ UNCHANGED <<appvars, queue, db, blind>>

\* update_catalog_with_bundle; whatever fails up to here leaves the evidence.
Catalog(l) ==
    /\ At(l, "catalog")
    /\ Step(l, [bk[l] EXCEPT !.pc = "states"])
    /\ UNCHANGED <<appvars, queue, db, head, blind>>

TrustStates(l) ==
    /\ At(l, "states")
    /\ LET new == bk[l].include
       IN  db' = [db EXCEPT
                    !.trust = [p \in Paths |-> IF p \in new THEN "Trusted" ELSE db.trust[p]],
                    !.ident = [p \in Paths |-> IF p \in new THEN bk[l].ident[p] ELSE db.ident[p]]]
    /\ Step(l, [bk[l] EXCEPT !.pc = "evidence"])
    /\ UNCHANGED <<appvars, queue, head, blind>>

\* finish_backup_evidence: the rows that were read are processed.  If no row is
\* pending then, the marks go too, one statement after the other.
MarkProcessed(l) ==
    /\ At(l, "evidence")
    /\ LET left == db.journal \ bk[l].rows
       IN  /\ db' = [db EXCEPT !.journal = left]
           /\ IF left = {} THEN Step(l, [bk[l] EXCEPT !.pc = "clearRoots"]) ELSE Done(l)
    /\ UNCHANGED <<appvars, queue, head, blind>>

clear_dirty_roots(l) ==
    /\ At(l, "clearRoots")
    /\ db' = [db EXCEPT !.root = "clean"]
    /\ Step(l, [bk[l] EXCEPT !.pc = "clearApp"])
    /\ UNCHANGED <<appvars, queue, head, blind>>

\* clear_dirty: the row of dirty_apps, then, under a new lock, those of dirty_paths.
ClearDirtyApp(l) ==
    /\ At(l, "clearApp")
    /\ db' = [db EXCEPT !.app = "clean"]
    /\ Step(l, [bk[l] EXCEPT !.pc = "clearPaths"])
    /\ UNCHANGED <<appvars, queue, head, blind>>

ClearDirtyPaths(l) ==
    /\ At(l, "clearPaths")
    /\ db' = [db EXCEPT !.paths = {}]
    /\ Done(l)
    /\ UNCHANGED <<appvars, queue, head, blind>>

\* Checkpoint, seal object and seal row: the seal names the head.
CommitSeal ==
    /\ At("control", "seal")
    /\ Step("control", Idle)
    /\ UNCHANGED <<appvars, queue, db, head, blind>>

\* A storage, database or file error ends the operation where it is.
Fail(l) ==
    /\ May("fail") /\ ~At(l, "idle")
    /\ Step(l, Idle)
    /\ UNCHANGED <<appvars, queue, db, head, blind>>

\* The agent dies and restarts: recover() injects the live process and asks for a
\* reconciliation of every application that is already dirty.
Crash ==
    /\ May("crash")
    /\ ~Quiet \/ ~Drained \/ late
    /\ bk' = [l \in Lanes |-> Idle]
    /\ queue' = IF running THEN push(EmptyQueue, Event("exec", NoPath, NoPath)) ELSE EmptyQueue
    /\ late' = FALSE
    /\ db' = IF db.app = "clean" THEN db ELSE mark_dirty(db, TRUE)
    /\ blind' = blind \cup (IF queue.lost THEN Paths
                            ELSE {p \in Paths : \E i \in Positions(queue) :
                                    p \in {queue.events[i].path, queue.events[i].prev}})
    /\ UNCHANGED <<fs, clock, running, head>>

Application ==
    \/ AppStart \/ ExecArrives \/ AppExit
    \/ \E p \in Paths : AppWrite(p) \/ AppUnlink(p) \/ (\E q \in Paths : AppRename(p, q))

BackupStep(l) ==
    \/ ReadEvidence(l) \/ NothingDirty(l) \/ Plan(l) \/ Snapshot(l) \/ HashFiles(l)
    \/ Commit(l) \/ Catalog(l) \/ TrustStates(l) \/ MarkProcessed(l)
    \/ clear_dirty_roots(l) \/ ClearDirtyApp(l) \/ ClearDirtyPaths(l)

Steps ==
    \/ Application
    \/ ProcessEvents \/ RecoverProcesses
    \/ (\E m \in Modes : StartBackup(m)) \/ StartSeal \/ CommitSeal
    \/ \E l \in Lanes : BackupStep(l) \/ Fail(l)
    \/ Crash

Next == Steps /\ UNCHANGED world

Spec == Init /\ [][Next]_vars

\* The agent's loop and its operations go on, and somebody keeps asking for
\* backups.  That a backup's storage calls return is an assumption about the
\* storage: the agent puts no time-out on them.
Fairness ==
    /\ WF_state(ProcessEvents)
    /\ WF_state(RecoverProcesses)
    /\ WF_state(\E m \in Modes : StartBackup(m))
    /\ \A l \in Lanes : WF_state(BackupStep(l))

FairSpec == Spec /\ Fairness

(***************************************************************************)
(* Properties.                                                             *)
(***************************************************************************)

Bundles == [exists : BOOLEAN, files : [Paths -> Contents], tombs : SUBSET Paths]
PCs == {"idle", "read", "plan", "copy", "hash", "commit", "catalog", "states", "evidence",
        "clearRoots", "clearApp", "clearPaths", "seal"}
IdentityOK(i) == i.size \in Nat /\ i.mtime \in Contents
BackupOK(b) ==
    /\ b.pc \in PCs /\ b.mode \in Modes
    /\ b.rows \subseteq MutationRows /\ b.app \in Marks /\ b.paths \subseteq Paths
    /\ b.parent \in Bundles /\ b.files \in [Paths -> Contents]
    /\ b.tombs \subseteq Paths /\ b.include \subseteq Paths
    /\ \A p \in Paths : IdentityOK(b.ident[p])

\* Type invariant: journal rows name a file, marks and trust levels are those of the
\* database schema.
TypeOK ==
    /\ fs \in [Paths -> Contents] /\ clock \in Contents
    /\ running \in BOOLEAN /\ late \in BOOLEAN /\ blind \subseteq Paths
    /\ Len(queue.events) <= QueueCap /\ queue.lost \in BOOLEAN
    /\ db.session \in BOOLEAN /\ db.assoc \subseteq Paths /\ db.paths \subseteq Paths
    /\ db.journal \subseteq MutationRows /\ db.app \in Marks /\ db.root \in Marks
    /\ db.trust \in [Paths -> Trusts]
    /\ \A p \in Paths : IdentityOK(db.ident[p])
    /\ head \in Bundles
    /\ \A l \in Lanes : BackupOK(bk[l])

\* Events may be lost: in the kernel ring, or in a queue that cannot hold a session.
MayLose == May("ring") \/ QueueCap < MaxChanges + 2

\* The application and the agent take turns, events come in order, and a loss meets
\* neither the application's exit nor a seal.  Changes are forgotten otherwise.
Orderly ==
    /\ world \cap {"overlap", "lanes", "reorder"} = {}
    /\ MayLose => world \cap {"exit", "seal"} = {}

\* No change is forgotten: when the agent has handled every event, holds no evidence
\* against the application and runs nothing, the latest bundle has the application's
\* files as they are (dirty_apps, app_mutations and the queue are what the next backup
\* goes by: an application that is clean there is not looked at again).
CleanMeansCaptured ==
    (Orderly /\ Quiet /\ Drained /\ ~late /\ db.app = "clean" /\ db.journal = {})
        => \A p \in Paths \ blind : head.files[p] = fs[p]

\* A file that fast_identity_matches would skip has in the bundle the content it has
\* on disk, whatever was lost or reordered: skipping its hashing loses nothing, unless
\* the application writes between the copy and the reading of the file's identity, or
\* another lane's backup, begun from an older parent, commits later.
FastIdentitySound ==
    world \cap {"overlap", "lanes"} = {} => \A p \in Paths :
        (fs[p] # 0 /\ FastIdentity(db, p, fs[p]) /\ head.files[p] # 0) => head.files[p] = fs[p]

\* A step property: a journal row is marked processed only once the committed bundle has the file the
\* row is about as it is.
ProcessedMeansCaptured ==
    Orderly => \A r \in db.journal \ db'.journal : head.files[r.path] = fs[r.path]

\* A step property: a seal names a bundle with the application's files as they are: what the instance
\* held when it is deleted can be restored.  The queue must have been drained.
SealCovers ==
    CommitSeal /\ Orderly /\ ~ May("backlog")
        => \A p \in Paths \ blind : head.files[p] = fs[p]
=============================================================================
