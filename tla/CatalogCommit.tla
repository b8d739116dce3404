--------------------------- MODULE CatalogCommit ---------------------------
(***************************************************************************)
(* How a backup becomes visible in shared storage: run_backup from the     *)
(* choice of a parent on, and noland-storage/src/commit.rs.  Packs go      *)
(* first, then the metadata, then the bundle's COMMITTED marker, then the  *)
(* commit row of the local database, then a new catalog document (read,    *)
(* extend, write under a fresh id), and last the LATEST pointer.           *)
(*                                                                         *)
(* A bundle's index may name the packs of other bundles: those of its      *)
(* parent, and those that the local database remembers to be in the        *)
(* storage.  The index is the set of bundles whose packs it names.         *)
(* Every request brings the storage it works on (parse_session).  Pack     *)
(* contents, encryption and bundle modes are left out; BackupEvidence has  *)
(* what goes into a bundle.                                                *)
(***************************************************************************)
EXTENDS Naturals, Sequences

CONSTANTS Apps,
          Stores,        \* storage roots that requests name
          Lanes,         \* backups that may run at the same time
          MaxBundles,    \* bound: bundles in a behaviour
          MaxOverlapping, \* bound: bundles when backups overlap
          PackCount,     \* bound: new packs of a bundle
          Worlds         \* the surroundings: which of AllBehaviours may happen

AllBehaviours ==
    {"lanes",     \* backups run at the same time (on two lanes, or from two instances)
     "fail",      \* a storage call reports an error, or the backup is cancelled
     "crash",     \* the agent dies
     "latest",    \* the LATEST write fails (write_catalog ignores that)
     "fetch",     \* reading the catalog LATEST names fails (load_catalog ignores that)
     "unseen"}    \* an app may be backed up that has no recorded change

ASSUME CatalogAssumption ==
    /\ MaxBundles \in Nat
    /\ MaxOverlapping \in 0..MaxBundles
    /\ PackCount \in Nat \ {0}
    /\ Worlds \subseteq SUBSET AllBehaviours

Bundles == 1..MaxBundles
NoBundle == 0

VARIABLES
    bundle,     \* what has been begun: a sequence of [app, store, index, total]
    packs,      \* number of its packs each bundle has in storage
    meta,       \* bundles whose index, manifest and hash are in storage
    marked,     \* bundles with a COMMITTED marker
    catalogs,   \* catalog/commits, oldest first: [store, listed]
    latest,     \* catalog/LATEST of each storage (0: absent)
    rows,       \* bundle_commits in state COMMITTED, oldest first
    cached,     \* bundles in the parent cache (cache/manifests)
    known,      \* remote content index: bundles whose packs are taken to be present
    dirty,      \* apps with recorded changes
    lane,       \* the running backups
    done,       \* history: <<store, bundle>> of each backup reported COMPLETED
    world       \* the surroundings of this behaviour

store == <<packs, meta, marked, catalogs, latest>>
database == <<rows, cached, known, dirty>>
vars == <<bundle, store, database, lane, done, world>>

May(b) == b \in world

Idle == [pc |-> "idle", bundle |-> NoBundle, listed |-> {}]

Init ==
    /\ world \in Worlds
    /\ bundle = <<>>
    /\ packs = [b \in Bundles |-> 0]
    /\ meta = {} /\ marked = {}
    /\ catalogs = <<>> /\ latest = [s \in Stores |-> 0]
    /\ rows = <<>> /\ cached = {} /\ known = [s \in Stores |-> {}]
    /\ dirty \in {d \in SUBSET Apps : May("unseen") \/ d = Apps}
    /\ lane = [i \in Lanes |-> Idle]
    /\ done = {}

At(i, pc) == lane[i].pc = pc
Goto(i, pc) ==
    lane' = [lane EXCEPT ![i] = [pc |-> pc, bundle |-> lane[i].bundle, listed |-> lane[i].listed]]
Leave(i) == lane' = [lane EXCEPT ![i] = Idle]
Mine(i) == bundle[lane[i].bundle]
MayBegin(i) == At(i, "idle") /\ (May("lanes") \/ \A j \in Lanes : At(j, "idle"))

(***************************************************************************)
(* The start of run_backup                                                 *)
(***************************************************************************)
\* latest_commit: the app's bundle with the newest COMMITTED row, if any.
LatestCommit(a) ==
    LET own == {k \in 1..Len(rows) : bundle[rows[k]].app = a}
    IN  {rows[k] : k \in {k \in own : \A j \in own : j <= k}}

\* load_parent: the cached manifest and index, else those in this storage; none
\* when they cannot be read.
LoadParent(a, s) ==
    LET found == {b \in LatestCommit(a) : b \in cached \/ bundle[b].store = s}
    IN  found \cup {b \in {NoBundle} :
                      found = {} \/ (May("fail") /\ ~(found \subseteq cached))}

Index(b) == IF b = NoBundle THEN {} ELSE bundle[b].index

\* load_parent caches the parent and remembers its packs.
Remember(b, s) ==
    /\ cached' = IF b = NoBundle THEN cached ELSE cached \cup {b}
    /\ known' = [known EXCEPT ![s] = @ \cup Index(b)]

\* Nothing recorded since the parent: the parent is the result.
NoOp(i, a, s) ==
    /\ MayBegin(i) /\ a \notin dirty
    /\ \E p \in LoadParent(a, s) \ {NoBundle} :
         /\ Remember(p, s)
         /\ done' = done \cup {<<s, p>>}
    /\ UNCHANGED <<bundle, store, rows, dirty, lane>>

\* A fresh bundle.  It has new packs unless every chunk is in the parent's index or
\* taken to be in the storage already.
Begin(i, a, s) ==
    /\ MayBegin(i) /\ Len(bundle) < IF May("lanes") THEN MaxOverlapping ELSE MaxBundles
    /\ \E p \in LoadParent(a, s), n \in 0..PackCount :
         /\ p = NoBundle \/ a \in dirty
         /\ Remember(p, s)
         /\ \E reused \in SUBSET (known'[s]) :
              LET b == Len(bundle) + 1
                  own == IF n = 0 THEN {} ELSE {b}
              IN  /\ bundle' = Append(bundle,
                         [app |-> a, store |-> s, total |-> n,
                          index |-> own \cup Index(p) \cup reused])
                  /\ lane' = [lane EXCEPT ![i] =
                         [pc |-> IF n = 0 THEN "metadata" ELSE "packs", bundle |-> b,
                          listed |-> {}]]
    /\ UNCHANGED <<store, rows, dirty, done>>

(***************************************************************************)
(* commit_bundle_with_index_for_operation                                  *)
(***************************************************************************)
\* Mutant: the last pack is not waited for.
UploadPackShort(i) ==
    /\ At(i, "packs")
    /\ packs' = [packs EXCEPT ![lane[i].bundle] = @ + 1]
    /\ Goto(i, IF packs[lane[i].bundle] + 2 >= Mine(i).total THEN "metadata" ELSE "packs")
    /\ UNCHANGED <<bundle, meta, marked, catalogs, latest, database, done>>

\* upload_immutable_bulk_observed: one of the packs.
UploadPack(i) ==
    /\ At(i, "packs")
    /\ packs' = [packs EXCEPT ![lane[i].bundle] = @ + 1]
    /\ Goto(i, IF packs[lane[i].bundle] + 1 = Mine(i).total THEN "metadata" ELSE "packs")
    /\ UNCHANGED <<bundle, meta, marked, catalogs, latest, database, done>>

\* put_metadata_batch: index, manifest and hash, then the marker in a call of its own.
PutMetadata(i) ==
    /\ At(i, "metadata")
    /\ meta' = meta \cup {lane[i].bundle}
    /\ Goto(i, "marker")
    /\ UNCHANGED <<bundle, packs, marked, catalogs, latest, database, done>>

PutMarker(i) ==
    /\ At(i, "marker")
    /\ marked' = marked \cup {lane[i].bundle}
    /\ Goto(i, "row")
    /\ UNCHANGED <<bundle, packs, meta, catalogs, latest, database, done>>

RecordCommit(i) ==
    /\ At(i, "row")
    /\ rows' = Append(rows, lane[i].bundle)
    /\ Goto(i, "load")
    /\ UNCHANGED <<bundle, store, cached, known, dirty, done>>

(***************************************************************************)
(* update_catalog_with_bundle                                              *)
(***************************************************************************)
\* What a catalog reader sees when every call works.
Visible(s) == IF latest[s] = 0 THEN {} ELSE catalogs[latest[s]].listed

\* recover_latest_catalog: of the documents that can be read the newest; none of
\* them, or no listing, is the empty catalog.
Recovered(s) ==
    {catalogs[k].listed : k \in {k \in 1..Len(catalogs) : catalogs[k].store = s}} \cup {{}}

\* load_catalog: without LATEST the empty catalog; its document; or a recovered one.
Loaded(s) ==
    {Visible(s)} \cup (IF May("fetch") /\ latest[s] # 0 THEN Recovered(s) ELSE {})

\* Mutant: the catalog is written afresh.
LoadCatalogAfresh(i) ==
    /\ At(i, "load")
    /\ lane' = [lane EXCEPT ![i].pc = "catalog", ![i].listed = {lane[i].bundle}]
    /\ UNCHANGED <<bundle, store, database, done>>

LoadCatalog(i) ==
    /\ At(i, "load")
    /\ IF lane[i].bundle \in marked
       THEN \E listed \in Loaded(Mine(i).store) :
              lane' = [lane EXCEPT ![i] =
                         [pc |-> "catalog", bundle |-> lane[i].bundle,
                          listed |-> listed \cup {lane[i].bundle}]]
       ELSE Leave(i)
    /\ UNCHANGED <<bundle, store, database, done>>

\* write_catalog: the document and its marker, which no reader looks at.
WriteCatalog(i) ==
    /\ At(i, "catalog")
    /\ catalogs' = Append(catalogs, [store |-> Mine(i).store, listed |-> lane[i].listed])
    /\ Goto(i, "latest")
    /\ UNCHANGED <<bundle, packs, meta, marked, latest, database, done>>

\* Mutant: an update of LATEST that is skipped once there is one.
PutLatestOnce(i) ==
    /\ At(i, "latest")
    /\ \E k \in 1..Len(catalogs) :
         /\ catalogs[k] = [store |-> Mine(i).store, listed |-> lane[i].listed]
         /\ latest' = [latest EXCEPT ![Mine(i).store] = IF @ = 0 THEN k ELSE @]
    /\ Goto(i, "finish")
    /\ UNCHANGED <<bundle, packs, meta, marked, catalogs, database, done>>

\* LATEST, whose failure is ignored.
PutLatest(i) ==
    /\ At(i, "latest")
    /\ \/ \E k \in 1..Len(catalogs) :
            /\ catalogs[k] = [store |-> Mine(i).store, listed |-> lane[i].listed]
            /\ latest' = [latest EXCEPT ![Mine(i).store] = k]
       \/ May("latest") /\ UNCHANGED latest
    /\ Goto(i, "finish")
    /\ UNCHANGED <<bundle, packs, meta, marked, catalogs, database, done>>

\* cache_parent and remember_remote_pack_index, then finish_backup_evidence and COMPLETED.
RememberBundle(i) ==
    /\ At(i, "finish")
    /\ Remember(lane[i].bundle, Mine(i).store)
    /\ Goto(i, "evidence")
    /\ UNCHANGED <<bundle, store, rows, dirty, done>>

Finish(i) ==
    /\ At(i, "evidence")
    /\ dirty' = dirty \ {Mine(i).app}
    /\ done' = done \cup {<<Mine(i).store, lane[i].bundle>>}
    /\ Leave(i)
    /\ UNCHANGED <<bundle, store, rows, cached, known>>

(***************************************************************************)
(* Errors, crashes, and what else happens to the agent                     *)
(***************************************************************************)
\* An error ends the backup where it is; what is uploaded stays.
Fail(i) ==
    /\ May("fail") /\ ~At(i, "idle")
    /\ Leave(i)
    /\ UNCHANGED <<bundle, store, database, done>>

Crash ==
    /\ May("crash") /\ \E i \in Lanes : ~At(i, "idle")
    /\ lane' = [i \in Lanes |-> Idle]
    /\ UNCHANGED <<bundle, store, database, done>>

\* The app changes something while it is not being backed up.
Touch(a) ==
    /\ a \notin dirty
    /\ \A i \in {j \in Lanes : ~At(j, "idle")} : Mine(i).app # a
    /\ dirty' = dirty \cup {a}
    /\ UNCHANGED <<bundle, store, rows, cached, known, lane, done>>

\* A restore reads the index of a visible bundle and remembers its packs.
RestoreReadsIndex(s, b) ==
    /\ b \in Visible(s) \cap marked /\ ~(Index(b) \subseteq known[s])
    /\ known' = [known EXCEPT ![s] = @ \cup Index(b)]
    /\ UNCHANGED <<bundle, store, rows, cached, dirty, lane, done>>

Step ==
    \/ \E i \in Lanes :
         \/ \E a \in Apps, s \in Stores : NoOp(i, a, s) \/ Begin(i, a, s)
         \/ UploadPack(i) \/ PutMetadata(i) \/ PutMarker(i) \/ RecordCommit(i)
         \/ LoadCatalog(i) \/ WriteCatalog(i) \/ PutLatest(i)
         \/ RememberBundle(i) \/ Finish(i) \/ Fail(i)
    \/ Crash
    \/ \E a \in Apps : Touch(a)
    \/ \E s \in Stores, b \in Bundles : RestoreReadsIndex(s, b)

Next == Step /\ UNCHANGED world

Spec == Init /\ [][Next]_vars

(***************************************************************************)
(* Properties                                                              *)
(***************************************************************************)
Pcs == {"idle", "packs", "metadata", "marker", "row", "load", "catalog", "latest",
        "finish", "evidence"}

\* The type of the storage, of the agent's database and of its running backups; a
\* running backup past the idle state has a bundle that was begun.
TypeOK ==
    /\ bundle \in Seq([app : Apps, store : Stores, index : SUBSET Bundles, total : 0..PackCount])
    /\ Len(bundle) <= MaxBundles
    /\ packs \in [Bundles -> 0..PackCount]
    /\ meta \subseteq 1..Len(bundle) /\ marked \subseteq meta
    /\ catalogs \in Seq([store : Stores, listed : SUBSET Bundles])
    /\ latest \in [Stores -> 0..Len(catalogs)]
    /\ rows \in Seq(Bundles) /\ cached \subseteq marked
    /\ \A k \in 1..Len(rows) : rows[k] \in marked
    /\ known \in [Stores -> SUBSET Bundles]
    /\ dirty \subseteq Apps /\ done \subseteq Stores \X Bundles
    /\ lane \in [Lanes -> [pc : Pcs, bundle : 0..Len(bundle), listed : SUBSET Bundles]]
    /\ \A i \in Lanes : At(i, "idle") <=> lane[i].bundle = NoBundle

Stored(p, s) == bundle[p].store = s /\ packs[p] = bundle[p].total

\* A bundle with a COMMITTED marker can be read back from its own storage: its
\* metadata and every pack its index names, inherited and reused ones included, are
\* there (commit_bundle_with_index_for_operation writes the marker last; rule 5 of the
\* optimization plan).
CommittedReadable ==
    \A b \in marked :
        b \in meta /\ \A p \in bundle[b].index : Stored(p, bundle[b].store)

\* A backup reported COMPLETED is in the catalog that readers of the storage it was
\* asked for load: no later catalog write loses it, and no failure or crash between the
\* marker and LATEST (update_catalog_with_bundle).  It does not hold when catalog updates
\* overlap, when LATEST cannot be written, when the catalog cannot be read, or when an
\* app without recorded changes is backed up again after such a failure.
CompletedVisible ==
    world \cap {"lanes", "latest", "fetch", "unseen"} = {} =>
        \A d \in done : d[2] \in Visible(d[1])

\* A bundle that readers can see stays visible, whatever fails during later backups
\* (LATEST included), unless their catalog updates overlap or cannot read the catalog.
VisibleKept ==
    [][world \cap {"lanes", "fetch"} = {} =>
         \A s \in Stores : Visible(s) \subseteq Visible(s)']_vars
=============================================================================
