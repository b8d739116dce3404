--------------------------- MODULE CatalogProofs ---------------------------
(***************************************************************************)
(* Proofs about CatalogCommit: with one storage, for any number of         *)
(* applications, lanes, bundles and packs and whatever fails, a bundle     *)
(* with a COMMITTED marker can be read back.  (With two storages it        *)
(* cannot: the cached parent may be in the other one.)                     *)
(***************************************************************************)
EXTENDS CatalogCommit, TLAPS

\* All requests name the same storage.
OneStore == \A s, t \in Stores : s = t

Begun == 1..Len(bundle)

\* A bundle whose packs are all in the storage.
Whole(p) == p \in Begun /\ packs[p] = bundle[p].total

\* An index names the bundle itself or bundles that are whole.
IndexSound == \A b \in Begun : \A p \in bundle[b].index : p = b \/ Whole(p)

\* What the database takes to be in the storage is there.
KnownSound == \A s \in Stores : \A p \in known[s] : Whole(p)

MarkedWhole == \A b \in marked : Whole(b)

FreshEmpty == \A b \in Bundles : b > Len(bundle) => packs[b] = 0

\* How far a running backup has come with its bundle.
LaneSound ==
    \A i \in Lanes :
        LET b == lane[i].bundle IN
        /\ At(i, "packs") => packs[b] < bundle[b].total
        /\ lane[i].pc \notin {"idle", "packs"} => Whole(b)
        /\ At(i, "marker") => b \in meta
        /\ lane[i].pc \notin {"idle", "packs", "metadata", "marker"} => b \in marked

\* No two lanes work on one bundle.
LanesApart ==
    \A i, j \in Lanes : i # j /\ lane[i].bundle = lane[j].bundle => lane[i].bundle = NoBundle

StorageInv == IndexSound /\ KnownSound /\ MarkedWhole /\ FreshEmpty
CatalogInv == TypeOK /\ StorageInv /\ LaneSound /\ LanesApart

\* The empty storage and database satisfy the invariant.
LEMMA CatalogInvInit == Init => CatalogInv
  BY CatalogAssumption DEF Init, CatalogInv, TypeOK, StorageInv, IndexSound, KnownSound,
     MarkedWhole, FreshEmpty, LaneSound, LanesApart, Begun, Bundles, Idle, NoBundle, At, Pcs

\* An element of a sequence is in the set it is a sequence over.
LEMMA ElementType ==
    ASSUME NEW S, NEW q \in Seq(S), NEW k \in 1..Len(q)
    PROVE  q[k] \in S
  OBVIOUS

\* The fields of a bundle that was begun.
LEMMA BundleFields ==
    ASSUME TypeOK, NEW b \in Begun
    PROVE  /\ b \in Bundles /\ b \in Nat /\ b # NoBundle /\ Len(bundle) \in Nat
           /\ bundle[b].app \in Apps /\ bundle[b].store \in Stores
           /\ bundle[b].index \subseteq Bundles /\ bundle[b].total \in 0..PackCount
  <1>1. Len(bundle) \in Nat /\ b \in 1..Len(bundle) /\ Len(bundle) <= MaxBundles
    BY DEF TypeOK, Begun
  <1>2. bundle[b] \in [app : Apps, store : Stores, index : SUBSET Bundles, total : 0..PackCount]
    <2> DEFINE R == [app : Apps, store : Stores, index : SUBSET Bundles, total : 0..PackCount]
    <2>1. bundle \in Seq(R)
      BY Zenon DEF TypeOK
    <2> HIDE DEF R
    <2>2. bundle[b] \in R
      BY <2>1, <1>1, ElementType, Zenon
    <2> QED BY <2>2, Zenon DEF R
  <1>3. b \in Bundles /\ b # NoBundle /\ b \in Nat
    BY <1>1, CatalogAssumption DEF Bundles, NoBundle
  <1> QED BY <1>1, <1>2, <1>3, Zenon

\* A running backup works on such a bundle.
LEMMA LaneFields ==
    ASSUME TypeOK, NEW i \in Lanes, lane[i].pc # "idle"
    PROVE  /\ lane[i].bundle \in Begun /\ lane[i].listed \subseteq Bundles
           /\ Mine(i).store \in Stores /\ Mine(i).app \in Apps
           /\ Mine(i).total \in 0..PackCount
  <1>1. lane[i].bundle \in 0..Len(bundle) /\ lane[i].bundle # 0 /\ Len(bundle) \in Nat
    BY DEF TypeOK, At, NoBundle
  <1>2. lane[i].bundle \in Begun
    BY <1>1 DEF Begun
  <1> QED BY <1>2, BundleFields, Zenon DEF Mine, TypeOK

\* Bundles with a marker were begun.
LEMMA MarkedBegun == TypeOK => marked \subseteq Begun /\ Begun \subseteq Bundles
  BY BundleFields, Zenon DEF TypeOK, Begun

\* Whatever load_catalog returns lists bundles.
LEMMA LoadedType ==
    ASSUME TypeOK, NEW s \in Stores, NEW l \in Loaded(s)
    PROVE  l \subseteq Bundles
  <1>1. \A k \in 1..Len(catalogs) : catalogs[k].listed \subseteq Bundles
    <2> DEFINE R == [store : Stores, listed : SUBSET Bundles]
    <2>1. catalogs \in Seq(R)
      BY Zenon DEF TypeOK
    <2> HIDE DEF R
    <2>2. \A k \in 1..Len(catalogs) : catalogs[k] \in R
      BY <2>1, ElementType, Zenon
    <2> QED BY <2>2, Zenon DEF R
  <1>2. latest[s] \in 0..Len(catalogs) /\ Len(catalogs) \in Nat
    BY DEF TypeOK
  <1>3. Visible(s) \subseteq Bundles
    BY <1>1, <1>2 DEF Visible
  <1>4. \A r \in Recovered(s) : r \subseteq Bundles
    BY <1>1, Zenon DEF Recovered
  <1> QED BY <1>3, <1>4, Zenon DEF Loaded

\* load_parent returns a bundle with a COMMITTED marker, or none.
LEMMA ParentMarked ==
    ASSUME TypeOK, NEW a \in Apps, NEW s \in Stores, NEW p \in LoadParent(a, s), p # NoBundle
    PROVE  p \in marked
  BY Zenon DEF TypeOK, LoadParent, LatestCommit

\* The index of a bundle with a marker names whole bundles only.
LEMMA IndexWhole ==
    ASSUME TypeOK, StorageInv, NEW b \in marked \cup {NoBundle}, NEW p \in Index(b)
    PROVE  Whole(p) /\ p \in Bundles
  <1>1. b # NoBundle /\ b \in marked
    BY Zenon DEF Index
  <1>2. b \in Begun /\ p \in bundle[b].index
    BY <1>1, MarkedBegun, Zenon DEF Index
  <1> QED BY <1>1, <1>2, BundleFields, Zenon DEF StorageInv, IndexSound, MarkedWhole

\* Remembering the packs of such a bundle keeps cache and remote index sound.
LEMMA RememberSound ==
    ASSUME TypeOK, StorageInv, NEW b \in marked \cup {NoBundle}, NEW s \in Stores, Remember(b,
       s)
    PROVE  /\ cached' \subseteq marked
           /\ known' \in [Stores -> SUBSET Bundles]
           /\ \A t \in Stores : \A p \in known'[t] : Whole(p)
  <1>1. cached' \subseteq marked
    BY Zenon DEF Remember, TypeOK
  <1>2. known' \in [Stores -> SUBSET Bundles]
    BY IndexWhole, Zenon DEF Remember, TypeOK
  <1>3. \A t \in Stores : \A p \in known'[t] : Whole(p)
    BY IndexWhole, Zenon DEF Remember, TypeOK, StorageInv, KnownSound
  <1> QED BY <1>1, <1>2, <1>3, Zenon

\* Every step of a backup, an error, a crash or a restore keeps the invariant.
LEMMA CatalogInvStep ==
    ASSUME CatalogInv, [Next]_vars
    PROVE  CatalogInv'
<1> USE CatalogAssumption DEF store, database
<1>0. TypeOK /\ StorageInv /\ LaneSound /\ LanesApart
  BY Zenon DEF CatalogInv
<1>1. ASSUME NEW i \in Lanes, UploadPack(i) PROVE CatalogInv'
  <2> DEFINE b == lane[i].bundle
  <2>a. lane[i].pc = "packs" /\ packs[b] < bundle[b].total
    BY <1>0, <1>1, Zenon DEF UploadPack, At, LaneSound
  <2>c. b \in Begun /\ b \in Bundles /\ bundle[b].total \in 0..PackCount
    BY <1>0, <2>a, LaneFields, BundleFields, Zenon
  <2>d. packs[b] \in Nat /\ packs[b] + 1 \in 0..PackCount
    <3>1. packs[b] \in 0..PackCount
      BY <1>0, <2>c, Zenon DEF TypeOK
    <3> QED BY <3>1, <2>a, <2>c
  <2>0. b \in Begun /\ b \in Bundles /\ packs[b] < bundle[b].total /\ packs[b] \in Nat
        /\ bundle[b].total \in 0..PackCount /\ lane[i].pc = "packs"
    BY <2>a, <2>c, <2>d, Zenon
  <2>p. packs' = [packs EXCEPT ![b] = packs[b] + 1]
    BY <1>1, Zenon DEF UploadPack
  <2>n. \E q \in {"metadata", "packs"} :
          /\ q = "metadata" <=> packs[b] + 1 = bundle[b].total
          /\ lane' = [lane EXCEPT ![i] = [pc |-> q, bundle |-> b, listed |-> lane[i].listed]]
    BY <1>1, Zenon DEF UploadPack, Goto, Mine
  <2>u. UNCHANGED <<bundle, meta, marked, catalogs, latest, rows, cached, known, dirty, done>>
    BY <1>1, Zenon DEF UploadPack
  <2>w. \A q : Whole(q) => q # b /\ Whole(q)'
    <3> SUFFICES ASSUME NEW q, Whole(q) PROVE q # b /\ Whole(q)'
      BY Zenon
    <3>1. q \in Bundles /\ packs[q] = bundle[q].total
      BY <1>0, MarkedBegun, Zenon DEF Whole
    <3>2. q # b
      BY <3>1, <2>a, <2>c, <2>d
    <3>3. packs'[q] = packs[q]
      BY <1>0, <3>1, <3>2, <2>p, Zenon DEF TypeOK
    <3> QED BY <3>1, <3>2, <3>3, <2>u, Zenon DEF Whole, Begun
  <2>b. packs'[b] = packs[b] + 1 /\ packs' \in [Bundles -> 0..PackCount]
    <3>1. packs \in [Bundles -> 0..PackCount]
      BY <1>0, Zenon DEF TypeOK
    <3> HIDE DEF b
    <3> QED BY <3>1, <2>c, <2>d, <2>p, Zenon
  <2> HIDE DEF b
  <2>1. TypeOK'
    <3>1. lane' \in [Lanes -> [pc : Pcs, bundle : 0..Len(bundle), listed : SUBSET Bundles]]
      BY <1>0, <2>n, SMTT(30) DEF TypeOK, Pcs, b
    <3>2. \A j \in Lanes : lane'[j].pc = "idle" <=> lane'[j].bundle = NoBundle
      BY <1>0, <2>a, <2>n DEF TypeOK, At, b
    <3> QED BY <1>0, <2>b, <2>u, <3>1, <3>2, Zenon DEF TypeOK, At
  <2>2. StorageInv'
    <3>1. IndexSound' /\ KnownSound' /\ MarkedWhole'
      BY <1>0, <2>u, <2>w, Zenon DEF StorageInv, IndexSound, KnownSound, MarkedWhole, Begun
    <3>2. FreshEmpty'
      BY <1>0, <2>u, <2>p, <2>0 DEF StorageInv, FreshEmpty, TypeOK, Begun
    <3> QED BY <3>1, <3>2, Zenon DEF StorageInv
  <2>3. LaneSound'
    <3> SUFFICES ASSUME NEW j \in Lanes
                 PROVE  LET c == lane[j].bundle IN
                        (/\ At(j, "packs") => packs[c] < bundle[c].total
                         /\ lane[j].pc \notin {"idle", "packs"} => Whole(c)
                         /\ At(j, "marker") => c \in meta
                         /\ lane[j].pc \notin {"idle", "packs", "metadata", "marker"} => c \in
                            marked)'
      BY Zenon DEF LaneSound
    <3>1. CASE j = i
      BY <1>0, <3>1, <2>0, <2>b, <2>n, <2>u, SMTT(30) DEF TypeOK, At, Whole, Begun
    <3>2. CASE j # i
      <4>1. lane'[j] = lane[j]
        BY <1>0, <3>2, <2>n, Zenon DEF TypeOK
      <4>2. lane[j].bundle # b \/ lane[j].bundle = NoBundle
        BY <1>0, <3>2, Zenon DEF LanesApart, b
      <4>3. At(j, "packs") => lane[j].bundle \in Bundles /\ lane[j].bundle # b
        BY <1>0, <4>2, LaneFields, BundleFields, Zenon DEF At
      <4>4. At(j, "packs") => packs'[lane[j].bundle] = packs[lane[j].bundle]
        BY <1>0, <4>3, <2>p, Zenon DEF TypeOK
      <4> QED BY <1>0, <4>1, <4>4, <2>u, <2>w, Zenon DEF LaneSound, At
    <3> QED BY <3>1, <3>2, Zenon
  <2>4. LanesApart'
    BY <1>0, <2>n DEF TypeOK, LanesApart, b
  <2> QED BY <2>1, <2>2, <2>3, <2>4, Zenon DEF CatalogInv
<1>2. ASSUME NEW i \in Lanes, PutMetadata(i) PROVE CatalogInv'
  <2>1. TypeOK'
    BY <1>0, <1>2, ZenonT(40) DEF TypeOK, LaneSound, Begun, Whole, Bundles, NoBundle, At, Pcs,
       PutMetadata, Goto
  <2>2. StorageInv'
    BY <1>0, <1>2 DEF TypeOK, StorageInv, IndexSound, KnownSound, MarkedWhole, FreshEmpty,
       LaneSound, LanesApart, Whole, Begun, Bundles, NoBundle, At, PutMetadata, Goto
  <2>3. LaneSound'
    BY <1>0, <1>2, Zenon DEF TypeOK, StorageInv, IndexSound, KnownSound, MarkedWhole, FreshEmpty,
       LaneSound, LanesApart, Whole, Begun, Bundles, NoBundle, At, PutMetadata, Goto
  <2>4. LanesApart'
    BY <1>0, <1>2, Zenon DEF TypeOK, LanesApart, NoBundle, At, PutMetadata, Goto
  <2> QED BY <2>1, <2>2, <2>3, <2>4, Zenon DEF CatalogInv
<1>3. ASSUME NEW i \in Lanes, PutMarker(i) PROVE CatalogInv'
  <2>1. TypeOK'
    BY <1>0, <1>3, Zenon DEF TypeOK, LaneSound, Begun, Whole, Bundles, NoBundle, At, Pcs, PutMarker,
       Goto
  <2>2. StorageInv'
    BY <1>0, <1>3, ZenonT(40) DEF TypeOK, StorageInv, IndexSound, KnownSound, MarkedWhole, FreshEmpty,
       LaneSound, LanesApart, Whole, Begun, Bundles, NoBundle, At, PutMarker, Goto
  <2>3. LaneSound'
    BY <1>0, <1>3, Zenon DEF TypeOK, StorageInv, IndexSound, KnownSound, MarkedWhole, FreshEmpty,
       LaneSound, LanesApart, Whole, Begun, Bundles, NoBundle, At, PutMarker, Goto
  <2>4. LanesApart'
    BY <1>0, <1>3, Zenon DEF TypeOK, LanesApart, NoBundle, At, PutMarker, Goto
  <2> QED BY <2>1, <2>2, <2>3, <2>4, Zenon DEF CatalogInv
<1>4. ASSUME NEW i \in Lanes, RecordCommit(i) PROVE CatalogInv'
  <2>0. lane[i].bundle \in marked /\ lane[i].bundle \in Bundles
    BY <1>0, <1>4, MarkedBegun, Zenon DEF RecordCommit, At, LaneSound
  <2>1. TypeOK'
    <3>1. rows' \in Seq(Bundles) /\ \A k \in 1..Len(rows') : rows'[k] \in marked
      BY <1>0, <1>4, <2>0, SMTT(30) DEF TypeOK, RecordCommit
    <3>2. lane' \in [Lanes -> [pc : Pcs, bundle : 0..Len(bundle), listed : SUBSET Bundles]]
      BY <1>0, <1>4, Zenon DEF TypeOK, RecordCommit, Goto, Pcs
    <3>3. \A j \in Lanes : lane'[j].pc = "idle" <=> lane'[j].bundle = NoBundle
      BY <1>0, <1>4, Zenon DEF TypeOK, RecordCommit, Goto, At
    <3> QED BY <1>0, <1>4, <3>1, <3>2, <3>3, Zenon DEF TypeOK, RecordCommit, At
  <2>2. StorageInv'
    BY <1>0, <1>4 DEF TypeOK, StorageInv, IndexSound, KnownSound, MarkedWhole, FreshEmpty,
       LaneSound, LanesApart, Whole, Begun, Bundles, NoBundle, At, RecordCommit, Goto
  <2>3. LaneSound'
    BY <1>0, <1>4, Zenon DEF TypeOK, StorageInv, IndexSound, KnownSound, MarkedWhole, FreshEmpty,
       LaneSound, LanesApart, Whole, Begun, Bundles, NoBundle, At, RecordCommit, Goto
  <2>4. LanesApart'
    BY <1>0, <1>4, Zenon DEF TypeOK, LanesApart, NoBundle, At, RecordCommit, Goto
  <2> QED BY <2>1, <2>2, <2>3, <2>4, Zenon DEF CatalogInv
<1>5. ASSUME NEW i \in Lanes, LoadCatalog(i) PROVE CatalogInv'
  <2>0. lane[i].bundle \in marked /\ lane[i].bundle \in Bundles /\ Mine(i).store \in Stores
        /\ lane[i].pc = "load"
    BY <1>0, <1>5, MarkedBegun, LaneFields, Zenon DEF LoadCatalog, At, LaneSound
  <2>n. PICK l \in SUBSET Bundles :
          lane' = [lane EXCEPT ![i] = [pc |-> "catalog", bundle |-> lane[i].bundle, listed |->
             l]]
    BY <1>0, <1>5, <2>0, LoadedType, Zenon DEF LoadCatalog
  <2>u. UNCHANGED <<bundle, packs, meta, marked, catalogs, latest, rows, cached, known, dirty,
     done>>
    BY <1>5, Zenon DEF LoadCatalog
  <2>1. TypeOK'
    BY <1>0, <2>0, <2>n, <2>u, Zenon DEF TypeOK, At, Pcs
  <2>2. StorageInv'
    BY <1>0, <2>u, Zenon DEF StorageInv, IndexSound, KnownSound, MarkedWhole, FreshEmpty, Whole, Begun
  <2>3. LaneSound'
    BY <1>0, <2>0, <2>n, <2>u, Zenon DEF TypeOK, LaneSound, At, Whole, Begun
  <2>4. LanesApart'
    BY <1>0, <2>n, Zenon DEF TypeOK, LanesApart
  <2> QED BY <2>1, <2>2, <2>3, <2>4, Zenon DEF CatalogInv
<1>6. ASSUME NEW i \in Lanes, WriteCatalog(i) PROVE CatalogInv'
  <2>0. Mine(i).store \in Stores /\ lane[i].listed \subseteq Bundles
    BY <1>0, <1>6, LaneFields, Zenon DEF WriteCatalog, At
  <2>1. TypeOK'
    <3>1. /\ catalogs' \in Seq([store : Stores, listed : SUBSET Bundles])
          /\ Len(catalogs') = Len(catalogs) + 1 /\ Len(catalogs) \in Nat
      BY <1>0, <1>6, <2>0 DEF TypeOK, WriteCatalog
    <3>2. lane' \in [Lanes -> [pc : Pcs, bundle : 0..Len(bundle), listed : SUBSET Bundles]]
      BY <1>0, <1>6, Zenon DEF TypeOK, WriteCatalog, Goto, Pcs
    <3>3. \A j \in Lanes : lane'[j].pc = "idle" <=> lane'[j].bundle = NoBundle
      BY <1>0, <1>6, Zenon DEF TypeOK, WriteCatalog, Goto, At, NoBundle
    <3>4. latest' \in [Stores -> 0..Len(catalogs')]
      BY <1>0, <1>6, <3>1 DEF TypeOK, WriteCatalog
    <3> QED BY <1>0, <1>6, <3>1, <3>2, <3>3, <3>4, Zenon DEF TypeOK, WriteCatalog, At
  <2>2. StorageInv'
    BY <1>0, <1>6 DEF TypeOK, StorageInv, IndexSound, KnownSound, MarkedWhole, FreshEmpty,
       LaneSound, LanesApart, Whole, Begun, Bundles, NoBundle, At, WriteCatalog, Goto
  <2>3. LaneSound'
    BY <1>0, <1>6, Zenon DEF TypeOK, StorageInv, IndexSound, KnownSound, MarkedWhole, FreshEmpty,
       LaneSound, LanesApart, Whole, Begun, Bundles, NoBundle, At, WriteCatalog, Goto
  <2>4. LanesApart'
    BY <1>0, <1>6, Zenon DEF TypeOK, LanesApart, NoBundle, At, WriteCatalog, Goto
  <2> QED BY <2>1, <2>2, <2>3, <2>4, Zenon DEF CatalogInv
<1>7. ASSUME NEW i \in Lanes, PutLatest(i) PROVE CatalogInv'
  <2>0. Mine(i).store \in Stores
    BY <1>0, <1>7, LaneFields, Zenon DEF PutLatest, At
  <2>1. TypeOK'
    <3>2. lane' \in [Lanes -> [pc : Pcs, bundle : 0..Len(bundle), listed : SUBSET Bundles]]
      BY <1>0, <1>7, Zenon DEF TypeOK, PutLatest, Goto, Pcs
    <3>3. \A j \in Lanes : lane'[j].pc = "idle" <=> lane'[j].bundle = NoBundle
      BY <1>0, <1>7, Zenon DEF TypeOK, PutLatest, Goto, At, NoBundle
    <3>4. latest' \in [Stores -> 0..Len(catalogs)]
      <4>1. CASE latest' = latest
        BY <1>0, <4>1, Zenon DEF TypeOK
      <4>2. CASE \E k \in 1..Len(catalogs) : latest' = [latest EXCEPT ![Mine(i).store] = k]
        BY <1>0, <2>0, <4>2 DEF TypeOK
      <4> QED BY <1>7, <4>1, <4>2, Zenon DEF PutLatest
    <3> QED BY <1>0, <1>7, <3>2, <3>3, <3>4, Zenon DEF TypeOK, PutLatest, At
  <2>2. StorageInv'
    BY <1>0, <1>7 DEF TypeOK, StorageInv, IndexSound, KnownSound, MarkedWhole, FreshEmpty,
       LaneSound, LanesApart, Whole, Begun, Bundles, NoBundle, At, PutLatest, Goto
  <2>3. LaneSound'
    BY <1>0, <1>7, Zenon DEF TypeOK, StorageInv, IndexSound, KnownSound, MarkedWhole, FreshEmpty,
       LaneSound, LanesApart, Whole, Begun, Bundles, NoBundle, At, PutLatest, Goto
  <2>4. LanesApart'
    BY <1>0, <1>7, Zenon DEF TypeOK, LanesApart, NoBundle, At, PutLatest, Goto
  <2> QED BY <2>1, <2>2, <2>3, <2>4, Zenon DEF CatalogInv
<1>8. ASSUME NEW i \in Lanes, RememberBundle(i) PROVE CatalogInv'
  <2>0. lane[i].bundle \in marked /\ Mine(i).store \in Stores
    BY <1>0, <1>8, LaneFields, Zenon DEF RememberBundle, LaneSound, At
  <2>r. cached' \subseteq marked /\ known' \in [Stores -> SUBSET Bundles] /\ \A t \in Stores :
     \A p \in known'[t] : Whole(p)
    BY <1>0, <1>8, <2>0, RememberSound, Zenon DEF RememberBundle
  <2>1. TypeOK'
    BY <1>0, <1>8, <2>r, Zenon DEF TypeOK, LaneSound, Begun, Whole, Bundles, NoBundle, At, Pcs,
       RememberBundle, Goto, Mine
  <2>2. StorageInv'
    BY <1>0, <1>8, <2>r, ZenonT(40) DEF TypeOK, StorageInv, IndexSound, KnownSound, MarkedWhole,
       FreshEmpty, LaneSound, LanesApart, Whole, Begun, Bundles, NoBundle, At, RememberBundle,
       Goto, Mine
  <2>3. LaneSound'
    BY <1>0, <1>8, <2>r, Zenon DEF TypeOK, StorageInv, IndexSound, KnownSound, MarkedWhole,
       FreshEmpty, LaneSound, LanesApart, Whole, Begun, Bundles, NoBundle, At, RememberBundle,
       Goto, Mine
  <2>4. LanesApart'
    BY <1>0, <1>8, Zenon DEF TypeOK, LanesApart, NoBundle, At, RememberBundle, Goto, Mine
  <2> QED BY <2>1, <2>2, <2>3, <2>4, Zenon DEF CatalogInv
<1>9. ASSUME NEW i \in Lanes, Finish(i) PROVE CatalogInv'
  <2>0. Mine(i).store \in Stores /\ lane[i].bundle \in Bundles
    BY <1>0, <1>9, LaneFields, BundleFields, Zenon DEF Finish, At
  <2>1. TypeOK'
    <3>2. lane' \in [Lanes -> [pc : Pcs, bundle : 0..Len(bundle), listed : SUBSET Bundles]]
      BY <1>0, <1>9 DEF TypeOK, Finish, Leave, Idle, NoBundle, Pcs
    <3>3. \A j \in Lanes : lane'[j].pc = "idle" <=> lane'[j].bundle = NoBundle
      BY <1>0, <1>9, Zenon DEF TypeOK, Finish, Leave, Idle, NoBundle, At, NoBundle
    <3>4. done' \subseteq Stores \X Bundles /\ dirty' \subseteq Apps
      BY <1>0, <1>9, <2>0 DEF TypeOK, Finish
    <3> QED BY <1>0, <1>9, <3>2, <3>3, <3>4, Zenon DEF TypeOK, Finish, At
  <2>2. StorageInv'
    BY <1>0, <1>9, ZenonT(40) DEF TypeOK, StorageInv, IndexSound, KnownSound, MarkedWhole, FreshEmpty,
       LaneSound, LanesApart, Whole, Begun, Bundles, NoBundle, At, Finish, Leave, Idle
  <2>3. LaneSound'
    BY <1>0, <1>9, Zenon DEF TypeOK, StorageInv, IndexSound, KnownSound, MarkedWhole, FreshEmpty,
       LaneSound, LanesApart, Whole, Begun, Bundles, NoBundle, At, Finish, Leave, Idle
  <2>4. LanesApart'
    BY <1>0, <1>9, Zenon DEF TypeOK, LanesApart, NoBundle, At, Finish, Leave, Idle
  <2> QED BY <2>1, <2>2, <2>3, <2>4, Zenon DEF CatalogInv
<1>10. ASSUME NEW i \in Lanes, Fail(i) PROVE CatalogInv'
  <2>1. TypeOK'
    <3>1. lane' \in [Lanes -> [pc : Pcs, bundle : 0..Len(bundle), listed : SUBSET Bundles]]
      BY <1>0, <1>10 DEF TypeOK, Fail, Leave, Idle, NoBundle, Pcs
    <3>2. \A j \in Lanes : lane'[j].pc = "idle" <=> lane'[j].bundle = NoBundle
      BY <1>0, <1>10, Zenon DEF TypeOK, Fail, Leave, Idle, NoBundle, At
    <3> QED BY <1>0, <1>10, <3>1, <3>2, Zenon DEF TypeOK, Fail, At, Leave
  <2>2. StorageInv'
    BY <1>0, <1>10 DEF TypeOK, StorageInv, IndexSound, KnownSound, MarkedWhole, FreshEmpty,
       LaneSound, LanesApart, Whole, Begun, Bundles, NoBundle, At, Fail, Leave, Idle
  <2>3. LaneSound'
    BY <1>0, <1>10, Zenon DEF TypeOK, StorageInv, IndexSound, KnownSound, MarkedWhole, FreshEmpty,
       LaneSound, LanesApart, Whole, Begun, Bundles, NoBundle, At, Fail, Leave, Idle
  <2>4. LanesApart'
    BY <1>0, <1>10, Zenon DEF TypeOK, LanesApart, NoBundle, At, Fail, Leave, Idle
  <2> QED BY <2>1, <2>2, <2>3, <2>4, Zenon DEF CatalogInv
<1>11. ASSUME Crash PROVE CatalogInv'
  <2>1. TypeOK'
    BY <1>0, <1>11, SMTT(30) DEF TypeOK, LaneSound, Begun, Whole, Bundles, NoBundle, At, Pcs, Crash, Idle
  <2>2. StorageInv'
    BY <1>0, <1>11 DEF TypeOK, StorageInv, IndexSound, KnownSound, MarkedWhole, FreshEmpty,
       LaneSound, LanesApart, Whole, Begun, Bundles, NoBundle, At, Crash, Idle
  <2>3. LaneSound'
    BY <1>0, <1>11, Zenon DEF TypeOK, StorageInv, IndexSound, KnownSound, MarkedWhole, FreshEmpty,
       LaneSound, LanesApart, Whole, Begun, Bundles, NoBundle, At, Crash, Idle
  <2>4. LanesApart'
    BY <1>0, <1>11, Zenon DEF TypeOK, LanesApart, NoBundle, At, Crash, Idle
  <2> QED BY <2>1, <2>2, <2>3, <2>4, Zenon DEF CatalogInv
<1>12. ASSUME NEW a \in Apps, Touch(a) PROVE CatalogInv'
  <2>1. TypeOK'
    BY <1>0, <1>12, Zenon DEF TypeOK, LaneSound, Begun, Whole, Bundles, NoBundle, At, Pcs, Touch
  <2>2. StorageInv'
    BY <1>0, <1>12, SMTT(30) DEF TypeOK, StorageInv, IndexSound, KnownSound, MarkedWhole, FreshEmpty,
       LaneSound, LanesApart, Whole, Begun, Bundles, NoBundle, At, Touch
  <2>3. LaneSound'
    BY <1>0, <1>12, Zenon DEF TypeOK, StorageInv, IndexSound, KnownSound, MarkedWhole, FreshEmpty,
       LaneSound, LanesApart, Whole, Begun, Bundles, NoBundle, At, Touch
  <2>4. LanesApart'
    BY <1>0, <1>12, Zenon DEF TypeOK, LanesApart, NoBundle, At, Touch
  <2> QED BY <2>1, <2>2, <2>3, <2>4, Zenon DEF CatalogInv
<1>13. ASSUME NEW s \in Stores, NEW b \in Bundles, RestoreReadsIndex(s, b) PROVE CatalogInv'
  <2>r. known' \in [Stores -> SUBSET Bundles] /\ \A t \in Stores : \A p \in known'[t] : Whole(p)
    BY <1>0, <1>13, IndexWhole, Zenon DEF RestoreReadsIndex, TypeOK, StorageInv, KnownSound
  <2>1. TypeOK'
    BY <1>0, <1>13, <2>r, Zenon DEF TypeOK, LaneSound, Begun, Whole, Bundles, NoBundle, At, Pcs,
       RestoreReadsIndex
  <2>2. StorageInv'
    BY <1>0, <1>13, <2>r, ZenonT(40) DEF TypeOK, StorageInv, IndexSound, KnownSound, MarkedWhole,
       FreshEmpty, LaneSound, LanesApart, Whole, Begun, Bundles, NoBundle, At,
       RestoreReadsIndex
  <2>3. LaneSound'
    BY <1>0, <1>13, <2>r, Zenon DEF TypeOK, StorageInv, IndexSound, KnownSound, MarkedWhole,
       FreshEmpty, LaneSound, LanesApart, Whole, Begun, Bundles, NoBundle, At,
       RestoreReadsIndex
  <2>4. LanesApart'
    BY <1>0, <1>13, Zenon DEF TypeOK, LanesApart, NoBundle, At, RestoreReadsIndex
  <2> QED BY <2>1, <2>2, <2>3, <2>4, Zenon DEF CatalogInv
<1>14. ASSUME NEW i \in Lanes, NEW a \in Apps, NEW s \in Stores, NoOp(i, a, s) PROVE CatalogInv'
  <2>0. PICK p \in LoadParent(a, s) \ {NoBundle} : Remember(p, s) /\ done' = done \cup {<<s,
     p>>}
    BY <1>14, Zenon DEF NoOp
  <2>p. p \in marked /\ p \in Bundles
    BY <1>0, <2>0, ParentMarked, MarkedBegun, Zenon
  <2>r. cached' \subseteq marked /\ known' \in [Stores -> SUBSET Bundles] /\ \A t \in Stores :
     \A q \in known'[t] : Whole(q)
    BY <1>0, <2>0, <2>p, RememberSound, Zenon
  <2>1. TypeOK'
    <3>1. done' \subseteq Stores \X Bundles
      BY <1>0, <2>0, <2>p, SMTT(30) DEF TypeOK
    <3> QED BY <1>0, <1>14, <2>r, <3>1, Zenon DEF TypeOK, NoOp, At
  <2>2. StorageInv'
    BY <1>0, <1>14, <2>0, <2>p, <2>r, ZenonT(40) DEF TypeOK, StorageInv, IndexSound, KnownSound,
       MarkedWhole, FreshEmpty, LaneSound, LanesApart, Whole, Begun, Bundles, NoBundle, At,
       NoOp
  <2>3. LaneSound'
    BY <1>0, <1>14, <2>0, <2>p, <2>r, Zenon DEF TypeOK, StorageInv, IndexSound, KnownSound,
       MarkedWhole, FreshEmpty, LaneSound, LanesApart, Whole, Begun, Bundles, NoBundle, At,
       NoOp
  <2>4. LanesApart'
    BY <1>0, <1>14, Zenon DEF LanesApart, NoOp
  <2> QED BY <2>1, <2>2, <2>3, <2>4, Zenon DEF CatalogInv
<1>15. ASSUME NEW i \in Lanes, NEW a \in Apps, NEW s \in Stores, Begin(i, a, s) PROVE
   CatalogInv'
  <2> DEFINE b == Len(bundle) + 1
             own(n) == IF n = 0 THEN {} ELSE {b}
  <2>0. PICK p \in LoadParent(a, s), n \in 0..PackCount :
          /\ Remember(p, s)
          /\ \E reused \in SUBSET (known'[s]) :
               /\ bundle' = Append(bundle, [app |-> a, store |-> s, total |-> n,
                                           index |-> own(n) \cup Index(p) \cup reused])
               /\ lane' = [lane EXCEPT ![i] =
                              [pc |-> IF n = 0 THEN "metadata" ELSE "packs", bundle |-> b,
                               listed |-> {}]]
    BY <1>15, Zenon DEF Begin
  <2>p. p \in marked \cup {NoBundle}
    BY <1>0, ParentMarked, Zenon
  <2>r. cached' \subseteq marked /\ known' \in [Stores -> SUBSET Bundles] /\ \A t \in Stores :
     \A q \in known'[t] : Whole(q)
    BY <1>0, <2>0, <2>p, RememberSound, Zenon
  <2>i. \A q \in Index(p) : Whole(q) /\ q \in Bundles
    BY <1>0, <2>p, IndexWhole, Zenon
  <2>l. b \in Bundles /\ Len(bundle) \in Nat
    BY <1>0, <1>15, SMTT(30) DEF TypeOK, Begin, Bundles, May
  <2>x. PICK idx \in SUBSET Bundles :
          /\ bundle' = Append(bundle, [app |-> a, store |-> s, total |-> n, index |-> idx])
          /\ \A q \in idx : Whole(q) \/ (q = b /\ n # 0)
    <3>1. PICK reused \in SUBSET (known'[s]) :
            bundle' = Append(bundle, [app |-> a, store |-> s, total |-> n,
                                      index |-> own(n) \cup Index(p) \cup reused])
      BY <2>0, Zenon
    <3>2. \A q \in own(n) \cup Index(p) \cup reused :
            q \in Bundles /\ (Whole(q) \/ (q = b /\ n # 0))
      BY <2>r, <2>i, <2>l, Zenon
    <3> QED BY <3>1, <3>2, Zenon
  <2>e. /\ Len(bundle') = b /\ bundle'[b] = [app |-> a, store |-> s, total |-> n, index |-> idx]
        /\ \A q \in Begun : bundle'[q] = bundle[q]
    BY <1>0, <2>x, <2>l DEF TypeOK, Begun
  <2>u. packs' = packs /\ meta' = meta /\ marked' = marked /\ catalogs' = catalogs /\ latest'
     = latest /\ rows' = rows /\ dirty' = dirty /\ done' = done
    BY <1>15, Zenon DEF Begin
  <2>w. \A q : Whole(q) => Whole(q)'
    BY <1>0, <2>e, <2>u, <2>l DEF Whole, Begun
  <2>n. lane' = [lane EXCEPT ![i] = [pc |-> IF n = 0 THEN "metadata" ELSE "packs", bundle |->
     b, listed |-> {}]] /\ lane[i].pc = "idle"
    BY <2>0, <1>15, Zenon DEF Begin, MayBegin, At
  <2>f. packs[b] = 0
    BY <1>0, <2>l DEF StorageInv, FreshEmpty
  <2> HIDE DEF b
  <2>1. TypeOK'
    <3>1. bundle' \in Seq([app : Apps, store : Stores, index : SUBSET Bundles, total :
       0..PackCount])
      BY <1>0, <2>x DEF TypeOK
    <3>2. Len(bundle') <= MaxBundles /\ Len(bundle) <= Len(bundle')
      BY <2>e, <2>l DEF b, Bundles
    <3>3. lane' \in [Lanes -> [pc : Pcs, bundle : 0..Len(bundle'), listed : SUBSET Bundles]]
      BY <1>0, <2>e, <2>l, <2>n, <3>2, SMTT(30) DEF TypeOK, Pcs, b
    <3>4. \A j \in Lanes : lane'[j].pc = "idle" <=> lane'[j].bundle = NoBundle
      BY <1>0, <2>n, <2>l DEF TypeOK, At, NoBundle, b
    <3>5. meta' \subseteq 1..Len(bundle')
      BY <1>0, <2>u, <2>l, <3>2 DEF TypeOK
    <3> QED BY <1>0, <2>r, <2>u, <3>1, <3>2, <3>3, <3>4, <3>5, Zenon DEF TypeOK, At
  <2>2. StorageInv'
    <3>1. IndexSound'
      BY <1>0, <2>x, <2>e, <2>w, <2>l DEF StorageInv, IndexSound, Begun, b
    <3>2. KnownSound' /\ MarkedWhole'
      BY <1>0, <2>r, <2>u, <2>w, Zenon DEF StorageInv, KnownSound, MarkedWhole
    <3>3. FreshEmpty'
      <4>1. \A c \in Bundles : c > Len(bundle') => c > Len(bundle)
        BY <2>e, <2>l DEF Bundles, b
      <4>2. \A c \in Bundles : c > Len(bundle) => packs[c] = 0
        BY <1>0, Zenon DEF StorageInv, FreshEmpty
      <4> QED BY <4>1, <4>2, <2>u, Zenon DEF FreshEmpty
    <3> QED BY <3>1, <3>2, <3>3, Zenon DEF StorageInv
  <2>3. LaneSound'
    <3> SUFFICES ASSUME NEW j \in Lanes
                 PROVE  LET c == lane[j].bundle IN
                        (/\ At(j, "packs") => packs[c] < bundle[c].total
                         /\ lane[j].pc \notin {"idle", "packs"} => Whole(c)
                         /\ At(j, "marker") => c \in meta
                         /\ lane[j].pc \notin {"idle", "packs", "metadata", "marker"} => c \in
                            marked)'
      BY Zenon DEF LaneSound
    <3>1. CASE j = i
      BY <1>0, <3>1, <2>n, <2>e, <2>u, <2>f, <2>l DEF TypeOK, At, Whole, Begun, b
    <3>2. CASE j # i
      <4>1. lane'[j] = lane[j]
        BY <1>0, <3>2, <2>n, Zenon DEF TypeOK
      <4>2. At(j, "packs") => lane[j].bundle \in Begun
        BY <1>0, <2>l DEF TypeOK, At, Begun, NoBundle
      <4> QED BY <1>0, <4>1, <4>2, <2>e, <2>u, <2>w, Zenon DEF LaneSound, At
    <3> QED BY <3>1, <3>2, Zenon
  <2>4. LanesApart'
    BY <1>0, <2>n, <2>l, SMTT(30) DEF TypeOK, LanesApart, b
  <2> QED BY <2>1, <2>2, <2>3, <2>4, Zenon DEF CatalogInv
<1>16. CASE UNCHANGED vars
  BY <1>0, <1>16, ZenonT(40) DEF CatalogInv, TypeOK, StorageInv, IndexSound, KnownSound, MarkedWhole,
     FreshEmpty, LaneSound, LanesApart, Whole, Begun, Bundles, NoBundle, At, vars
<1> QED
  BY <1>1, <1>2, <1>3, <1>4, <1>5, <1>6, <1>7, <1>8, <1>9, <1>10, <1>11, <1>12, <1>13, <1>14,
     <1>15, <1>16, Zenon DEF Next, Step

\* A bundle with a COMMITTED marker has its metadata and every pack its index
\* names, inherited and reused ones included, in its storage: whatever fails
\* or crashes between the uploads of commit_bundle_with_index_for_operation.
THEOREM CommittedBundlesReadable ==
    ASSUME OneStore
    PROVE  Spec => [](TypeOK /\ CommittedReadable)
<1>1. CatalogInv => TypeOK /\ CommittedReadable
  <2> SUFFICES ASSUME CatalogInv PROVE CommittedReadable
    BY Zenon DEF CatalogInv
  <2>1. TypeOK /\ IndexSound /\ MarkedWhole
    BY Zenon DEF CatalogInv, StorageInv
  <2> SUFFICES ASSUME NEW b \in marked, NEW p \in bundle[b].index
               PROVE  b \in meta /\ Stored(p, bundle[b].store)
    BY <2>1, Zenon DEF CommittedReadable, TypeOK
  <2>2. b \in Begun /\ Whole(p)
    BY <2>1, MarkedBegun, Zenon DEF IndexSound, MarkedWhole
  <2>3. bundle[p].store = bundle[b].store
    BY <2>1, <2>2, BundleFields, Zenon DEF Whole, OneStore
  <2> QED BY <2>1, <2>2, <2>3, Zenon DEF TypeOK, Whole, Stored
<1>2. CatalogInv /\ [Next]_vars => CatalogInv'
  BY CatalogInvStep, Zenon
<1> QED
  BY CatalogInvInit, <1>1, <1>2, PTL DEF Spec
=============================================================================
