--------------------------- MODULE BackupPipeline ---------------------------
(***************************************************************************)
(* How one backup of the state agent turns changed files into a committed  *)
(* bundle: a pool of threads hashes the files and puts their new chunks in *)
(* the local content-addressed cache, two pools pack the chunks of small   *)
(* and of other files, and the commit uploads packs, metadata and marker.  *)
(*                                                                         *)
(* A pool is a feeder thread, a bounded channel and worker threads; the    *)
(* coordinator takes the results as they come, so sending one never waits. *)
(* hash_files_parallel and build_packs_parallel keep the receiver of the   *)
(* job channel until they return: the feeder's send never fails, it can    *)
(* only wait.  Hashing and packing hold no await, so a cancellation is     *)
(* seen through cancel_requested there and by the operation's select only  *)
(* during the commit.                                                      *)
(***************************************************************************)
EXTENDS Naturals, FiniteSets, Sequences, SequencesExt

CONSTANTS Files,      \* the changed files, in the order of their jobs
          ChunksOf,   \* file -> the chunks it consists of
          ByHash,     \* all chunks, in the order of their hashes
          SmallFiles, \* files of at most SMALL_FILE_THRESHOLD bytes
          Inherited,  \* chunks of the parent's pack index
          Remote,     \* chunks the remote content index says are present
          PlainSize,  \* chunk -> bytes
          StoredSize, \* chunk -> bytes once compressed, where that helps
          PACK_HEADER, RECORD_OVERHEAD,
          SmallLimits, RegularLimits,   \* [target, max] of a pack
          HashWorkers, PackWorkers,
          Damaged,    \* chunks whose object in the cache does not match its key
          Unreadable, \* files whose staged copy cannot be read
          Worlds      \* which of "cancel", "unreadable", "damaged", "one core", "full disk", "many"

VARIABLES
    stage,     \* "hash", "small", "regular", "upload", "meta", "marker", "catalog" or an end
    pool,      \* the running pool
    gathered,  \* what the backup has so far: files, new chunks, index, packs
    cancelled, \* OperationManager::cancel_requested
    remote,    \* packs and bundle in the storage
    world

pipeline == <<stage, pool, gathered, cancelled, remote>>
vars == <<pipeline, world>>

May(b) == b \in world
Ends == {"completed", "failed", "cancelled"}

NoJob == <<>>
Idle == [pc |-> "recv", job |-> NoJob]
Gone == [pc |-> "gone", job |-> NoJob]

HashCrew == IF May("one core") THEN {CHOOSE w \in HashWorkers : TRUE} ELSE HashWorkers
PackCrew == PackWorkers

NewPool(jobs, crew) ==
    [todo |-> jobs, feeder |-> "check", channel |-> <<>>, stopped |-> FALSE,
     crew |-> [w \in crew |-> Idle], built |-> {}, error |-> FALSE]
NoPool == [NewPool(<<>>, {}) EXCEPT !.feeder = "gone"]

\* sync_channel(worker_count * 2)
Capacity == 2 * Cardinality(DOMAIN pool.crew)

\* The files of this backup.
Changed == IF May("many") THEN Files ELSE SubSeq(Files, 1, 3 * Cardinality(HashCrew))

Init ==
    /\ world \in Worlds
    /\ stage = "hash"
    /\ pool = NewPool([i \in DOMAIN Changed |-> <<Changed[i]>>], HashCrew)
    /\ gathered = [files |-> {}, chunks |-> {}, index |-> Inherited, packs |-> {}]
    /\ cancelled = FALSE
    /\ remote = [packs |-> {}, meta |-> FALSE, marker |-> FALSE]

-----------------------------------------------------------------------------
(* Threads of a pool *)

\* The feeder: cancelled() || stopped, or no job left, and its sender is dropped.
FeederCheck ==
    /\ pool.feeder = "check"
    /\ pool' = [pool EXCEPT !.feeder = IF cancelled \/ pool.stopped \/ pool.todo = <<>>
                                       THEN "gone" ELSE "send"]
    /\ UNCHANGED <<stage, gathered, cancelled, remote, world>>

\* SyncSender::send waits for room in the channel.
FeederSend ==
    /\ pool.feeder = "send"
    /\ Len(pool.channel) < Capacity
    /\ pool' = [pool EXCEPT !.feeder = "check", !.todo = Tail(@),
                            !.channel = Append(@, Head(pool.todo))]
    /\ UNCHANGED <<stage, gathered, cancelled, remote, world>>

\* recv: the next job, or the end of the thread once the sender is gone.
WorkerReceive(w) ==
    /\ pool.crew[w].pc = "recv"
    /\ \/ /\ pool.channel # <<>>
          /\ pool' = [pool EXCEPT !.channel = Tail(@),
                                  !.crew[w] = [pc |-> "got", job |-> Head(pool.channel)]]
       \/ /\ pool.channel = <<>> /\ pool.feeder = "gone"
          /\ pool' = [pool EXCEPT !.crew[w] = Gone]
    /\ UNCHANGED <<stage, gathered, cancelled, remote, world>>

\* An error is sent, `stopped` is set and the thread ends.
Failed(p, w) == [p EXCEPT !.crew[w] = Gone, !.stopped = TRUE, !.error = TRUE]

-----------------------------------------------------------------------------
(* Hashing *)

New(c) == c \notin Inherited /\ c \notin Remote

\* put_prehashed verifies the object that is there, hash_one_file fails with it.
HashFails(f) ==
    \/ May("unreadable") /\ f \in Unreadable
    \/ May("damaged") /\ \E c \in Range(ChunksOf[f]) : New(c) /\ c \in Damaged

\* What hash_one_file returns is kept per file and merged at the end of the pool.
HashStart(w) ==
    /\ stage = "hash" /\ pool.crew[w].pc = "got"
    /\ pool' = IF pool.stopped THEN [pool EXCEPT !.crew[w] = Gone]
               ELSE IF cancelled THEN Failed(pool, w)
               ELSE [pool EXCEPT !.crew[w].pc = "work"]
    /\ UNCHANGED <<stage, gathered, cancelled, remote, world>>

HashEnd(w) ==
    /\ stage = "hash" /\ pool.crew[w].pc = "work"
    /\ LET f == pool.crew[w].job[1]
       IN  pool' = IF HashFails(f) THEN Failed(pool, w)
                   ELSE [pool EXCEPT !.built = @ \cup {f},
                                     !.crew[w] = IF cancelled THEN Gone ELSE Idle]
    /\ UNCHANGED <<stage, gathered, cancelled, remote, world>>

PoolOver == pool.feeder = "gone" /\ \A w \in DOMAIN pool.crew : pool.crew[w].pc = "gone"

\* The results of the files, merged: the remote index gives entries, the cache new chunks.
Merged ==
    LET chunks == UNION {Range(ChunksOf[f]) : f \in pool.built}
    IN  [gathered EXCEPT !.files = pool.built,
                         !.chunks = {c \in chunks : New(c)},
                         !.index = @ \cup (chunks \cap Remote)]

-----------------------------------------------------------------------------
(* Packing *)

Record(c) == RECORD_OVERHEAD + PlainSize[c]

\* A list of chunks cut into packs of at most max bytes, a new one begun once
\* target bytes are reached; bytes(c) is what a chunk counts for.
Cut(chunks, limits, bytes(_), estimate(_)) ==
    LET Add(acc, c) ==
            IF acc.open # <<>> /\ (acc.size >= limits.target \/ acc.size + estimate(c) > limits.max)
            THEN [packs |-> Append(acc.packs, acc.open), open |-> <<c>>,
                  size |-> PACK_HEADER + bytes(c)]
            ELSE [acc EXCEPT !.open = Append(@, c), !.size = @ + bytes(c)]
        all == FoldLeft(Add, [packs |-> <<>>, open |-> <<>>, size |-> PACK_HEADER], chunks)
    IN  IF all.open = <<>> THEN all.packs ELSE Append(all.packs, all.open)

plan_pack_chunks(chunks, limits) == Cut(chunks, limits, Record, Record)

\* pack_chunk_files_with_limits: estimates with the plain size, counts what it wrote.
pack_chunk_files(plan, limits) ==
    LET Written(c) == RECORD_OVERHEAD + StoredSize[c] IN Cut(plan, limits, Written, Record)

Limits == IF stage = "small" THEN SmallLimits ELSE RegularLimits
SmallChunks(g) == UNION {Range(ChunksOf[f]) : f \in SmallFiles \cap g.files}
ChunksFor(st, g) ==
    SelectSeq(ByHash, LAMBDA c : c \in g.chunks /\ ((st = "small") <=> c \in SmallChunks(g)))

\* build_packs_parallel with more than one plan starts a pool; with one it works on
\* its own thread, with none it returns.
PackPool(st, g) ==
    LET plans == plan_pack_chunks(ChunksFor(st, g), IF st = "small" THEN SmallLimits
                                                    ELSE RegularLimits)
    IN  IF Len(plans) > 1 THEN NewPool(plans, PackCrew)
        ELSE [NoPool EXCEPT !.todo = plans]

PackStart(w) ==
    /\ stage \in {"small", "regular"} /\ pool.crew[w].pc = "got"
    /\ pool' = IF cancelled THEN Failed(pool, w)
               ELSE IF pool.stopped THEN [pool EXCEPT !.crew[w] = Gone]
               ELSE [pool EXCEPT !.crew[w].pc = "work"]
    /\ UNCHANGED <<stage, gathered, cancelled, remote, world>>

\* A worker returns the last pack its plan was cut into.
PackEnd(w) ==
    /\ stage \in {"small", "regular"} /\ pool.crew[w].pc = "work"
    /\ \/ /\ ~cancelled
          /\ LET made == pack_chunk_files(pool.crew[w].job, Limits)
             IN  pool' = [pool EXCEPT !.built = @ \cup {made[Len(made)]}, !.crew[w] = Idle]
       \/ /\ cancelled \/ May("full disk")
          /\ pool' = Failed(pool, w)
    /\ UNCHANGED <<stage, gathered, cancelled, remote, world>>

\* The path without threads keeps every pack of every plan.
PackAlone ==
    /\ stage \in {"small", "regular"} /\ DOMAIN pool.crew = {} /\ pool.todo # <<>>
    /\ \/ /\ ~cancelled
          /\ pool' = [pool EXCEPT !.todo = Tail(@),
                                  !.built = @ \cup Range(pack_chunk_files(Head(pool.todo), Limits))]
       \/ /\ cancelled \/ May("full disk")
          /\ pool' = [pool EXCEPT !.todo = <<>>, !.error = TRUE]
    /\ UNCHANGED <<stage, gathered, cancelled, remote, world>>

-----------------------------------------------------------------------------
(* The operation *)

\* An error of run_backup: the RPC handler's task marks the operation.
Fails == stage' = IF cancelled THEN "cancelled" ELSE "failed"

HashPoolEnds ==
    /\ stage = "hash" /\ PoolOver
    /\ \/ pool.error /\ Fails /\ UNCHANGED <<pool, gathered>>
       \/ /\ ~pool.error
          /\ stage' = "small"
          /\ gathered' = Merged
          /\ pool' = PackPool("small", Merged)
    /\ UNCHANGED <<cancelled, remote, world>>

PackPoolEnds ==
    /\ stage \in {"small", "regular"} /\ PoolOver
    /\ DOMAIN pool.crew = {} => pool.todo = <<>>
    /\ LET kept == [gathered EXCEPT !.packs = @ \cup pool.built,
                                    !.index = @ \cup UNION {Range(p) : p \in pool.built}]
       IN  \/ pool.error /\ Fails /\ UNCHANGED <<pool, gathered>>
           \/ /\ ~pool.error
              /\ gathered' = kept
              /\ IF stage = "small"
                 THEN stage' = "regular" /\ pool' = PackPool("regular", kept)
                 ELSE stage' = "upload" /\ pool' = NoPool
    /\ UNCHANGED <<cancelled, remote, world>>

\* The commit awaits at each of its calls: the operation's select polls the
\* cancellation first, so a cancelled future is dropped before it goes on.
Upload ==
    /\ stage = "upload" /\ ~cancelled
    /\ remote' = [remote EXCEPT !.packs = gathered.packs]
    /\ stage' = "meta"
    /\ UNCHANGED <<pool, gathered, cancelled, world>>

PutMetadata ==
    /\ stage = "meta" /\ ~cancelled
    /\ remote' = [remote EXCEPT !.meta = TRUE]
    /\ stage' = "marker"
    /\ UNCHANGED <<pool, gathered, cancelled, world>>

PutMarker ==
    /\ stage = "marker" /\ ~cancelled
    /\ remote' = [remote EXCEPT !.marker = TRUE]
    /\ stage' = "catalog"
    /\ UNCHANGED <<pool, gathered, cancelled, world>>

Finish ==
    /\ stage = "catalog" /\ ~cancelled
    /\ stage' = "completed"
    /\ UNCHANGED <<pool, gathered, cancelled, remote, world>>

\* The dropped future leaves the rclone process of the metadata and of the marker
\* running, which may still write it.
Dropped ==
    /\ stage \in {"upload", "meta", "marker", "catalog"} /\ cancelled
    /\ stage' = "cancelled"
    /\ \/ UNCHANGED remote
       \/ stage = "meta" /\ remote' = [remote EXCEPT !.meta = TRUE]
       \/ stage = "marker" /\ remote' = [remote EXCEPT !.marker = TRUE]
    /\ UNCHANGED <<pool, gathered, cancelled, world>>

CancelOperation ==
    /\ May("cancel") /\ ~cancelled /\ stage \notin Ends
    /\ cancelled' = TRUE
    /\ UNCHANGED <<stage, pool, gathered, remote, world>>

Worker(w) ==
    \/ WorkerReceive(w) \/ HashStart(w) \/ HashEnd(w) \/ PackStart(w) \/ PackEnd(w)

Step ==
    \/ FeederCheck \/ FeederSend \/ PackAlone
    \/ \E w \in DOMAIN pool.crew : Worker(w)
    \/ HashPoolEnds \/ PackPoolEnds
    \/ Upload \/ PutMetadata \/ PutMarker \/ Finish \/ Dropped

Over == stage \in Ends /\ UNCHANGED vars

Next == Step \/ CancelOperation \/ Over

Spec == Init /\ [][Next]_vars

\* Threads and the runtime run: a step that can be taken is taken.
FairSpec == Spec /\ WF_pipeline(Step)
-----------------------------------------------------------------------------
(* A bundle whose COMMITTED marker is in the storage holds every changed   *)
(* file, and each chunk of them is inherited, known to be in the storage,  *)
(* or in a pack that was uploaded: the chunks of a plan all end in the one *)
(* pack that a worker returns (packs.pop()), although plan_pack_chunks and *)
(* pack_chunk_files_with_limits cut separately, the first by plain and the *)
(* second by stored sizes; and results that a cancellation has cut short   *)
(* are never committed.                                                    *)
CommittedIsWhole ==
    remote.marker =>
        /\ remote.meta
        /\ gathered.files = Range(Changed)
        /\ \A f \in Range(Changed) : \A c \in Range(ChunksOf[f]) :
              \/ c \in Inherited \cup Remote
              \/ \E p \in remote.packs : c \in Range(p)

(* A backup ends, whatever fails and whenever it is cancelled, while it has *)
(* at most three files for every hashing thread: a thread that ends has     *)
(* taken one job at least and the channel holds two for each, so the feeder *)
(* never waits for room that nobody will make.  With more files it ends     *)
(* when nothing fails and nobody cancels.                                   *)
RoomForAll == ~May("many") \/ world = {"many"}
(* A backup whose cancellation was requested ends.                         *)
CancelledBackupEnds == cancelled ~> stage \in Ends
=============================================================================
