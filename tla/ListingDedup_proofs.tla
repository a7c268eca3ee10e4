------------------------- MODULE ListingDedup_proofs -------------------------
(***************************************************************************)
(* Theorems about ListingDedup, for any number of adverts, providers,      *)
(* hashes and buckets.                                                     *)
(***************************************************************************)
EXTENDS ListingDedup, FiniteSetTheorems, SequenceTheorems, TLAPS

(* Sets of rows are finite, so the counts are numbers.                     *)
LEMMA RowsFinite ==
  ASSUME NEW S \in SUBSET Advert
  PROVE  IsFiniteSet(S) /\ Cardinality(S) \in Nat
BY AdvertAssumption, FS_Subset, FS_CardinalityType

(* addToBuckets keeps every bucket a list of listings.                     *)
LEMMA AddToBucketsType ==
  ASSUME TypeOK, NEW a \in Advert, AddToBuckets(a)
  PROVE  buckets' \in [Block -> Seq(Advert)]
<1>1. CASE BlockOf[a] = NoBlock
  BY <1>1 DEF AddToBuckets, TypeOK
<1>2. CASE BlockOf[a] # NoBlock
  <2> DEFINE longer == Append(buckets[BlockOf[a]], a)
  <2>1. BlockOf[a] \in Block
    BY <1>2, AdvertAssumption
  <2>2. buckets[BlockOf[a]] \in Seq(Advert)
    BY <2>1 DEF TypeOK
  <2>3. longer \in Seq(Advert) /\ longer # <<>>
    BY <2>2
  <2>4. Tail(longer) \in Seq(Advert)
    BY <2>3, HeadTailProperties
  <2>5. buckets' = [buckets EXCEPT ![BlockOf[a]] =
                      IF Len(longer) > MaxBucket THEN Tail(longer) ELSE longer]
    BY <1>2 DEF AddToBuckets
  <2> HIDE DEF longer
  <2>6. QED
    BY <2>1, <2>3, <2>4, <2>5 DEF TypeOK
<1>3. QED
  BY <1>1, <1>2

(* Removing a fingerprint keeps every bucket a list of listings.           *)
LEMMA UnfileType ==
  ASSUME TypeOK, NEW a \in Advert, Unfile(a)
  PROVE  buckets' \in [Block -> Seq(Advert)]
<1> DEFINE bucket == buckets[BlockOf[a]]
<1>1. CASE UNCHANGED buckets
  BY <1>1 DEF TypeOK
<1>2. CASE ~UNCHANGED buckets
  <2>1. BlockOf[a] \in Block
    BY <1>2, AdvertAssumption DEF Unfile
  <2>2. bucket \in Seq(Advert)
    BY <2>1 DEF TypeOK
  <2>3. PICK i \in DOMAIN bucket :
          buckets' = [buckets EXCEPT ![BlockOf[a]] =
            SubSeq(bucket, 1, i - 1) \o SubSeq(bucket, i + 1, Len(bucket))]
    BY <1>2 DEF Unfile
  <2> DEFINE front == SubSeq(bucket, 1, i - 1)
             rest == SubSeq(bucket, i + 1, Len(bucket))
  <2>4. /\ Len(bucket) \in Nat /\ i \in 1..Len(bucket)
        /\ \A j \in 1..Len(bucket) : bucket[j] \in Advert
    BY <2>2, <2>3, LenProperties
  <2>5. front \in Seq(Advert)
    <3>1. \A j \in 1..(i - 1) : bucket[j] \in Advert
      BY <2>4
    <3>2. QED
      BY <2>4, <3>1, SubSeqProperties
  <2>6. rest \in Seq(Advert)
    <3>1. \A j \in (i + 1)..Len(bucket) : bucket[j] \in Advert
      BY <2>4
    <3>2. QED
      BY <2>4, <3>1, SubSeqProperties
  <2>7. front \o rest \in Seq(Advert)
    BY <2>5, <2>6, ConcatProperties
  <2>8. buckets' = [buckets EXCEPT ![BlockOf[a]] = front \o rest]
    BY <2>3
  <2> HIDE DEF front, rest, bucket
  <2>9. QED
    BY <2>1, <2>7, <2>8 DEF TypeOK
<1>3. QED
  BY <1>1, <1>2

(* The cache stays well typed through its three operations.                *)
CacheType == count \in [Key -> Nat] /\ buckets \in [Block -> Seq(Advert)]

LEMMA CheckAndAddEntryType ==
  ASSUME TypeOK, NEW a \in Advert, CheckAndAddEntry(a)
  PROVE  CacheType'
<1>1. CASE Known(a)
  BY <1>1 DEF CheckAndAddEntry, TypeOK, CacheType, cache
<1>2. CASE ~Known(a)
  <2>1. buckets' \in [Block -> Seq(Advert)]
    BY <1>2, AddToBucketsType DEF CheckAndAddEntry
  <2>2. count' \in [Key -> Nat]
    BY <1>2 DEF CheckAndAddEntry, TypeOK
  <2>3. QED
    BY <2>1, <2>2 DEF CacheType
<1>3. QED
  BY <1>1, <1>2

LEMMA RemoveEntryType ==
  ASSUME TypeOK, NEW a \in Advert, RemoveEntry(a)
  PROVE  CacheType'
<1>1. CASE count[KeyOf[a]] = 0
  BY <1>1 DEF RemoveEntry, TypeOK, CacheType, cache
<1>2. CASE count[KeyOf[a]] # 0
  <2>1. buckets' \in [Block -> Seq(Advert)]
    BY <1>2, UnfileType DEF RemoveEntry
  <2>2. KeyOf[a] \in Key /\ count[KeyOf[a]] \in Nat
    BY AdvertAssumption DEF TypeOK
  <2>3. count' \in [Key -> Nat]
    BY <1>2, <2>2 DEF RemoveEntry, TypeOK
  <2>4. QED
    BY <2>1, <2>3 DEF CacheType
<1>3. QED
  BY <1>1, <1>2

LEMMA InitSimilarityCacheType ==
  ASSUME TypeOK, InitSimilarityCache
  PROVE  CacheType'
<1>1. count' \in [Key -> Nat]
  <2>1. \A k \in Key : Cardinality({a \in AllEntries : KeyOf[a] = k}) \in Nat
    BY RowsFinite DEF AllEntries
  <2>2. QED
    BY <2>1 DEF InitSimilarityCache
<1>2. buckets' \in [Block -> Seq(Advert)]
  <2>1. ASSUME NEW blk \in Block, NEW s \in Filling(blk)
        PROVE  s \in Seq(Advert)
    <3> DEFINE S == {a \in AllEntries : BlockOf[a] = blk}
               size == IF Cardinality(S) > MaxBucket THEN MaxBucket ELSE Cardinality(S)
    <3>1. S \subseteq Advert /\ size \in Nat
      BY RowsFinite, AdvertAssumption DEF AllEntries
    <3>2. s \in [1..size -> S]
      BY <2>1 DEF Filling, Fillings
    <3> HIDE DEF size, S
    <3>3. QED
      BY <3>1, <3>2, SeqDef
  <2>2. buckets' \in [Block -> UNION {Filling(blk) : blk \in Block}]
    BY DEF InitSimilarityCache
  <2>3. \A blk \in Block : buckets'[blk] \in Filling(blk)
    BY DEF InitSimilarityCache
  <2>4. QED
    BY <2>1, <2>2, <2>3
<1>3. QED
  BY <1>1, <1>2 DEF CacheType

-----------------------------------------------------------------------------
(* Type correctness, one lemma per group of actions.                       *)

LEMMA RunStepType ==
  ASSUME TypeOK, RunStep
  PROVE  TypeOK'
<1>1. ASSUME NEW p \in Provider, NEW page \in SUBSET Advert, FindNew(p, page)
      PROVE  TypeOK'
  <2>1. run' \in RunState
    BY <1>1 DEF FindNew, Unseen, RunState, IdleRun
  <2>2. QED
    BY <1>1, <2>1 DEF FindNew, TypeOK, cache
<1>2. ASSUME NEW kept \in SUBSET run.batch, Save(kept)
      PROVE  TypeOK'
  <2>1. run' \in RunState /\ held' \subseteq Advert
    BY <1>2 DEF Save, TypeOK, RunState
  <2>2. rows' \in [Advert -> {"absent", "visible", "hidden"}]
    BY <1>2 DEF Save, Stored, TypeOK
  <2>3. QED
    BY <1>2, <2>1, <2>2 DEF Save, TypeOK, cache
<1>3. ASSUME NEW a \in Advert, FilterSimilar(a)
      PROVE  TypeOK'
  <2>1. CacheType'
    BY <1>3, CheckAndAddEntryType DEF FilterSimilar
  <2>2. run' \in RunState
    BY <1>3 DEF FilterSimilar, TypeOK, RunState
  <2>3. QED
    BY <1>3, <2>1, <2>2 DEF FilterSimilar, TypeOK, CacheType
<1>4. ASSUME NEW outside \in SUBSET run.batch, DropFiltered(outside)
      PROVE  TypeOK'
  <2>1. run' \in RunState /\ held' \subseteq Advert
    BY <1>4 DEF DropFiltered, TypeOK, RunState
  <2>2. rows' \in [Advert -> {"absent", "visible", "hidden"}]
    BY <1>4 DEF DropFiltered, Hide, TypeOK
  <2>3. QED
    BY <1>4, <2>1, <2>2 DEF DropFiltered, TypeOK, cache
<1>5. ASSUME NEW tooFar \in SUBSET run.batch, NEW exclude \in BOOLEAN,
             Notify(tooFar, exclude)
      PROVE  TypeOK'
  <2>1. run' \in RunState
    BY <1>5 DEF Notify, HoldBack, IdleRun, RunState
  <2>2. rows' \in [Advert -> {"absent", "visible", "hidden"}]
    BY <1>5 DEF Notify, HoldBack, Hide, TypeOK
  <2>3. announced' \in [Advert -> Nat]
    BY <1>5 DEF Notify, HoldBack, TypeOK
  <2>4. QED
    BY <1>5, <2>1, <2>2, <2>3 DEF Notify, HoldBack, TypeOK, cache
<1>6. ASSUME HandleError
      PROVE  TypeOK'
  BY <1>6 DEF HandleError, TypeOK, cache, RunState, IdleRun
<1>7. ASSUME NEW hidden \in SUBSET run.dups, BlockThrows(hidden)
      PROVE  TypeOK'
  <2>1. rows' \in [Advert -> {"absent", "visible", "hidden"}]
    BY <1>7 DEF BlockThrows, Hide, TypeOK
  <2>2. disturbed' \in BOOLEAN
    BY <1>7 DEF BlockThrows, TypeOK
  <2>3. run' \in RunState
    BY <1>7 DEF BlockThrows, RunState, IdleRun
  <2>4. QED
    BY <1>7, <2>1, <2>2, <2>3 DEF BlockThrows, TypeOK, cache
<1>8. QED
  BY <1>1, <1>2, <1>3, <1>4, <1>5, <1>6, <1>7 DEF RunStep

LEMMA UserStepType ==
  ASSUME TypeOK, UserStep
  PROVE  TypeOK'
<1>1. ASSUME NEW a \in Advert, AddStart(a)
      PROVE  TypeOK'
  BY <1>1 DEF AddStart, TypeOK, cache, AddState
<1>2. ASSUME NEW a \in Advert, AddRead(a)
      PROVE  TypeOK'
  <2>1. add' \in AddState
    BY <1>2 DEF AddRead, TypeOK, AddState, IdleAdd
  <2>2. rows' \in [Advert -> {"absent", "visible", "hidden"}]
    BY <1>2 DEF AddRead, TypeOK
  <2>3. disturbed' \in BOOLEAN
    BY <1>2 DEF AddRead, TypeOK
  <2>4. QED
    BY <1>2, <2>1, <2>2, <2>3 DEF AddRead, TypeOK, cache
<1>3. ASSUME NEW a \in Advert, AddStore(a)
      PROVE  TypeOK'
  <2>1. CacheType'
    BY <1>3, CheckAndAddEntryType DEF AddStore
  <2>2. add' \in AddState /\ byHand' \subseteq Advert
    BY <1>3 DEF AddStore, TypeOK, AddState, IdleAdd
  <2>3. rows' \in [Advert -> {"absent", "visible", "hidden"}]
    BY <1>3 DEF AddStore, Stored, TypeOK
  <2>4. disturbed' \in BOOLEAN
    BY <1>3 DEF AddStore, TypeOK
  <2>5. QED
    BY <1>3, <2>1, <2>2, <2>3, <2>4 DEF AddStore, TypeOK, CacheType
<1>4. ASSUME AddFail
      PROVE  TypeOK'
  BY <1>4 DEF AddFail, TypeOK, cache, AddState, IdleAdd
<1>5. ASSUME NEW a \in Advert, SoftDelete(a)
      PROVE  TypeOK'
  BY <1>5 DEF SoftDelete, TypeOK, cache
<1>6. ASSUME NEW a \in Advert, HardDelete(a)
      PROVE  TypeOK'
  <2>1. CacheType'
    BY <1>6, RemoveEntryType DEF HardDelete, TypeOK, CacheType, cache
  <2>2. rows' \in [Advert -> {"absent", "visible", "hidden"}]
        /\ announced' \in [Advert -> Nat]
    BY <1>6 DEF HardDelete, TypeOK
  <2>3. QED
    BY <1>6, <2>1, <2>2 DEF HardDelete, TypeOK, CacheType
<1>7. ASSUME NEW a \in Advert, Restore(a)
      PROVE  TypeOK'
  BY <1>7 DEF Restore, TypeOK, cache
<1>8. QED
  BY <1>1, <1>2, <1>3, <1>4, <1>5, <1>6, <1>7 DEF UserStep

LEMMA ReloadType ==
  ASSUME TypeOK, Reload \/ Restart
  PROVE  TypeOK'
<1>1. CacheType' /\ disturbed' \in BOOLEAN
  BY InitSimilarityCacheType DEF Reload, Restart, InitSimilarityCache
<1>2. run' \in RunState /\ add' \in AddState /\ held' \subseteq Advert
  BY DEF Reload, Restart, TypeOK, RunState, IdleRun, AddState, IdleAdd
<1>3. QED
  BY <1>1, <1>2 DEF Reload, Restart, TypeOK, CacheType

LEMMA InitType == Init => TypeOK
<1> SUFFICES ASSUME Init PROVE TypeOK
  OBVIOUS
<1>1. run \in RunState
  BY DEF Init, IdleRun, RunState
<1>2. add \in AddState
  BY DEF Init, IdleAdd, AddState
<1>3. buckets \in [Block -> Seq(Advert)]
  <2>1. buckets = [blk \in Block |-> <<>>]
    BY DEF Init
  <2>2. <<>> \in Seq(Advert)
    BY EmptySeq
  <2>3. QED
    BY <2>1, <2>2, Zenon
<1>4. /\ rows \in [Advert -> {"absent", "visible", "hidden"}]
      /\ count \in [Key -> Nat]
      /\ announced \in [Advert -> Nat]
  BY DEF Init
<1>5. QED
  BY <1>1, <1>2, <1>3, <1>4 DEF Init, TypeOK

(* Every reachable state is well typed; what the cache and the table hold  *)
(* is what the code's Map, buckets and columns can hold.                   *)
THEOREM TypeCorrect == Spec => []TypeOK
<1>1. TypeOK /\ [Next]_vars => TypeOK'
  <2>1. ASSUME TypeOK, Next
        PROVE  TypeOK'
    BY <2>1, RunStepType, UserStepType, ReloadType DEF Next
  <2>2. TypeOK /\ UNCHANGED vars => TypeOK'
    BY DEF TypeOK, vars, cache
  <2>3. QED
    BY <2>1, <2>2
<1>2. QED
  BY InitType, <1>1, PTL DEF Spec

-----------------------------------------------------------------------------
(***************************************************************************)
(* An advert is announced at most once while its row exists.  Inductive    *)
(* with two more facts: nothing a run has in hand was announced before,    *)
(* and an id the run holds names a row.                                    *)
(***************************************************************************)
BatchUnannounced == \A a \in run.batch : announced[a] = 0
HeldStored == \A a \in held : rows[a] # "absent"
AnnouncedInv == TypeOK /\ AnnouncedOnce /\ BatchUnannounced /\ HeldStored

LEMMA RunStepAnnounced ==
  ASSUME AnnouncedInv, RunStep, TypeOK'
  PROVE  AnnouncedInv'
<1> USE DEF AnnouncedInv, AnnouncedOnce, BatchUnannounced, HeldStored
<1>1. ASSUME NEW p \in Provider, NEW page \in SUBSET Advert, FindNew(p, page)
      PROVE  AnnouncedInv'
  <2>1. run'.batch \subseteq {a \in Advert : rows[a] = "absent"}
    BY <1>1 DEF FindNew, Unseen, IdleRun
  <2>2. QED
    BY <1>1, <2>1 DEF FindNew
<1>2. ASSUME NEW kept \in SUBSET run.batch, Save(kept)
      PROVE  AnnouncedInv'
  <2>1. run'.batch = kept
    BY <1>2 DEF Save, TypeOK, RunState
  <2>2. /\ \A a \in Advert : rows'[a] = "absent" => rows[a] = "absent"
        /\ \A a \in kept : rows'[a] # "absent"
    BY <1>2 DEF Save, Stored, TypeOK, RunState
  <2>3. QED
    BY <1>2, <2>1, <2>2 DEF Save
<1>3. ASSUME NEW a \in Advert, FilterSimilar(a)
      PROVE  AnnouncedInv'
  <2>1. run'.batch = run.batch
    BY <1>3 DEF FilterSimilar, TypeOK, RunState
  <2>2. QED
    BY <1>3, <2>1 DEF FilterSimilar
<1>4. ASSUME NEW outside \in SUBSET run.batch, DropFiltered(outside)
      PROVE  AnnouncedInv'
  <2>1. run'.batch \subseteq run.batch /\ held' \subseteq held
    BY <1>4 DEF DropFiltered, TypeOK, RunState
  <2>2. \A a \in Advert : rows'[a] = "absent" <=> rows[a] = "absent"
    BY <1>4 DEF DropFiltered, Hide
  <2>3. held' \subseteq Advert
    BY <2>1 DEF TypeOK
  <2>4. QED
    BY <1>4, <2>1, <2>2, <2>3 DEF DropFiltered
<1>5. ASSUME NEW tooFar \in SUBSET run.batch, NEW exclude \in BOOLEAN,
             Notify(tooFar, exclude)
      PROVE  AnnouncedInv'
  <2>1. run'.batch = {} /\ held' = {}
    BY <1>5 DEF Notify, HoldBack, IdleRun
  <2>2. \A a \in Advert : rows'[a] = "absent" <=> rows[a] = "absent"
    BY <1>5 DEF Notify, HoldBack, Hide
  <2>3. \A a \in Advert : announced'[a] <= 1
    BY <1>5 DEF Notify, HoldBack, TypeOK
  <2>4. \A a \in Advert : rows'[a] = "absent" => announced'[a] = 0
    BY <1>5, <2>2 DEF Notify, HoldBack, TypeOK
  <2>5. QED
    BY <2>1, <2>3, <2>4
<1>6. ASSUME HandleError
      PROVE  AnnouncedInv'
  BY <1>6 DEF HandleError, IdleRun
<1>7. ASSUME NEW hidden \in SUBSET run.dups, BlockThrows(hidden)
      PROVE  AnnouncedInv'
  <2>1. run'.batch = {} /\ held' = {} /\ announced' = announced
    BY <1>7 DEF BlockThrows, IdleRun
  <2>2. \A a \in Advert : rows'[a] = "absent" <=> rows[a] = "absent"
    BY <1>7 DEF BlockThrows, Hide
  <2>3. QED
    BY <2>1, <2>2
<1>8. QED
  BY <1>1, <1>2, <1>3, <1>4, <1>5, <1>6, <1>7 DEF RunStep

LEMMA OtherStepAnnounced ==
  ASSUME AnnouncedInv, UserStep \/ Reload \/ Restart, TypeOK'
  PROVE  AnnouncedInv'
<1> USE DEF AnnouncedInv, AnnouncedOnce, BatchUnannounced, HeldStored
<1>1. ASSUME NEW a \in Advert, HardDelete(a)
      PROVE  AnnouncedInv'
  <2>1. \A b \in Advert : announced'[b] = IF b = a THEN 0 ELSE announced[b]
    BY <1>1 DEF HardDelete, TypeOK
  <2>2. \A b \in Advert : rows'[b] = IF b = a THEN "absent" ELSE rows[b]
    BY <1>1 DEF HardDelete, TypeOK
  <2>3. run' = run /\ held' = held \ {a} /\ held \subseteq Advert
        /\ run.batch \subseteq Advert
    BY <1>1 DEF HardDelete, TypeOK, RunState
  <2>4. QED
    BY <2>1, <2>2, <2>3
<1>2. ASSUME NEW a \in Advert,
             AddStart(a) \/ AddRead(a) \/ AddStore(a) \/ SoftDelete(a) \/ Restore(a)
      PROVE  AnnouncedInv'
  <2>1. UNCHANGED <<announced, run, held>>
    BY <1>2 DEF AddStart, AddRead, AddStore, SoftDelete, Restore
  <2>2. \A b \in Advert : rows'[b] = "absent" => rows[b] = "absent"
    BY <1>2 DEF AddStart, AddRead, AddStore, SoftDelete, Restore, Stored, TypeOK
  <2>3. held \subseteq Advert
    BY DEF TypeOK
  <2>4. QED
    BY <2>1, <2>2, <2>3
<1>3. ASSUME AddFail \/ Reload \/ Restart
      PROVE  AnnouncedInv'
  <2>1. UNCHANGED <<announced, rows>> /\ run'.batch \subseteq run.batch /\ held' \subseteq held
    BY <1>3 DEF AddFail, Reload, Restart, IdleRun
  <2>2. QED
    BY <2>1 DEF TypeOK, RunState
<1>4. QED
  BY <1>1, <1>2, <1>3 DEF UserStep

LEMMA AnnouncedInductive == Spec => []AnnouncedInv
<1>1. Init => AnnouncedInv
  BY InitType DEF Init, AnnouncedInv, AnnouncedOnce, BatchUnannounced, HeldStored, IdleRun
<1>2. TypeOK' /\ AnnouncedInv /\ [Next]_vars => AnnouncedInv'
  <2>1. ASSUME TypeOK', AnnouncedInv, Next
        PROVE  AnnouncedInv'
    BY <2>1, RunStepAnnounced, OtherStepAnnounced DEF Next
  <2>2. AnnouncedInv /\ UNCHANGED vars => AnnouncedInv'
    BY DEF AnnouncedInv, AnnouncedOnce, BatchUnannounced, HeldStored, TypeOK, vars, cache
  <2>3. QED
    BY <2>1, <2>2
<1>3. QED
  BY <1>1, <1>2, TypeCorrect, PTL DEF Spec

(* No advert is announced as new twice while its row exists, whatever      *)
(* users, reloads, restarts and an add by URL do meanwhile.                *)
THEOREM AnnouncedAtMostOnce == Spec => []AnnouncedOnce
<1>1. AnnouncedInv => AnnouncedOnce
  BY DEF AnnouncedInv
<1>2. QED
  BY <1>1, AnnouncedInductive, PTL

-----------------------------------------------------------------------------
(***************************************************************************)
(* Since the last reload, and unless a row came in behind the cache's      *)
(* back, every hash counts at least its visible listings.  Inductive with  *)
(* the fact that only the block at "dedup" leaves rows pending.            *)
(***************************************************************************)
PendingInDedup == run.pc # "dedup" => Pending = {}
CoverInv == TypeOK /\ PendingInDedup /\ CacheCoversVisible

LEMMA SettledFinite ==
  ASSUME NEW k \in Key
  PROVE  IsFiniteSet(Settled(k)) /\ Cardinality(Settled(k)) \in Nat
<1>1. Settled(k) \in SUBSET Advert
  BY DEF Settled, Visible
<1>2. QED
  BY <1>1, RowsFinite

(* A step that adds no settled row and takes no count is harmless.         *)
LEMMA CoverMonotone ==
  ASSUME CacheCoversVisible, disturbed => disturbed', count \in [Key -> Nat],
         \A k \in Key : /\ Settled(k)' \subseteq Settled(k)
                        /\ count'[k] \in Nat /\ count[k] <= count'[k]
  PROVE  CacheCoversVisible'
<1> SUFFICES ASSUME ~disturbed', NEW k \in Key
             PROVE  Cardinality(Settled(k)') <= count'[k]
  BY DEF CacheCoversVisible
<1>1. Cardinality(Settled(k)) <= count[k]
  BY DEF CacheCoversVisible
<1>2. Cardinality(Settled(k)') <= Cardinality(Settled(k))
        /\ Cardinality(Settled(k)') \in Nat
  BY SettledFinite, FS_Subset, FS_CardinalityType
<1>3. QED
  BY <1>1, <1>2, SettledFinite

(* A listing the cache takes in may be the only settled one of its hash.   *)
LEMMA CoverAdded ==
  ASSUME CoverInv, NEW a \in Advert, ~Known(a), CheckAndAddEntry(a),
         disturbed => disturbed',
         \A k \in Key : Settled(k)' \subseteq Settled(k) \cup {b \in {a} : KeyOf[b] = k}
  PROVE  CacheCoversVisible'
<1> SUFFICES ASSUME ~disturbed', NEW k \in Key
             PROVE  Cardinality(Settled(k)') <= count'[k]
  BY DEF CacheCoversVisible
<1>1. KeyOf[a] \in Key /\ count[KeyOf[a]] = 0
  BY AdvertAssumption DEF Known, CoverInv, TypeOK
<1>2. count' = [count EXCEPT ![KeyOf[a]] = 1]
  BY DEF CheckAndAddEntry
<1>3. Cardinality(Settled(k)) <= count[k] /\ count[k] \in Nat
  BY DEF CoverInv, CacheCoversVisible, TypeOK
<1>4. CASE k = KeyOf[a]
  <2>1. Cardinality(Settled(k)) = 0
    BY <1>1, <1>3, <1>4, SettledFinite
  <2>2. Settled(k) = {}
    BY <2>1, SettledFinite, FS_EmptySet
  <2>3. Settled(k)' \in SUBSET {a}
    BY <2>2
  <2>4. Settled(k)' = {} \/ Settled(k)' = {a}
    BY <2>3
  <2>5. count'[k] = 1
    BY <1>1, <1>2, <1>4 DEF CoverInv, TypeOK
  <2>6. Cardinality({}) = 0 /\ Cardinality({a}) = 1
    BY FS_EmptySet, FS_Singleton
  <2>7. QED
    BY <2>4, <2>5, <2>6
<1>5. CASE k # KeyOf[a]
  <2>1. Settled(k)' \in SUBSET Settled(k)
    BY <1>5
  <2>2. Cardinality(Settled(k)') <= Cardinality(Settled(k))
          /\ Cardinality(Settled(k)') \in Nat
    BY <2>1, SettledFinite, FS_Subset, FS_CardinalityType
  <2>3. count'[k] = count[k]
    BY <1>2, <1>5 DEF CoverInv, TypeOK
  <2>4. QED
    BY <1>3, <2>2, <2>3, SettledFinite
<1>6. QED
  BY <1>4, <1>5

LEMMA RunStepCover ==
  ASSUME CoverInv, RunStep, TypeOK'
  PROVE  CoverInv'
<1> USE DEF CoverInv
<1>0. \A k \in Key : count[k] \in Nat
  BY DEF TypeOK
<1>1. ASSUME NEW p \in Provider, NEW page \in SUBSET Advert, FindNew(p, page)
      PROVE  CoverInv'
  <2>1. Pending = {} /\ Pending' = {} /\ run'.pc = "fetched"
    BY <1>1 DEF FindNew, IdleRun, Pending, PendingInDedup
  <2>2. UNCHANGED <<rows, count, disturbed>>
    BY <1>1 DEF FindNew, cache
  <2>3. \A k \in Key : Settled(k)' \subseteq Settled(k)
    BY <2>1, <2>2 DEF Settled, Visible
  <2>4. QED
    BY <1>0, <2>1, <2>2, <2>3, CoverMonotone DEF PendingInDedup, TypeOK
<1>2. ASSUME NEW kept \in SUBSET run.batch, Save(kept)
      PROVE  CoverInv'
  <2>1. run'.pc = "dedup" /\ Pending' = kept \cup run.dups
    BY <1>2 DEF Save, Pending, TypeOK, RunState
  <2>2. Pending = {}
    BY <1>2 DEF Save, PendingInDedup
  <2>3. UNCHANGED <<count, disturbed>>
    BY <1>2 DEF Save, cache
  <2>4. \A k \in Key : Settled(k)' \subseteq Settled(k)
    BY <1>2, <2>1, <2>2 DEF Save, Stored, Settled, Visible, TypeOK
  <2>5. QED
    BY <1>0, <2>1, <2>3, <2>4, CoverMonotone DEF PendingInDedup, TypeOK
<1>3. ASSUME NEW a \in Advert, FilterSimilar(a)
      PROVE  CoverInv'
  <2>1. run'.pc = "dedup" /\ rows' = rows /\ disturbed' = disturbed
    BY <1>3 DEF FilterSimilar, TypeOK, RunState
  <2>2. CASE Known(a)
    <3>1. Pending' = Pending /\ count' = count
      BY <1>3, <2>2 DEF FilterSimilar, CheckAndAddEntry, cache, Pending, TypeOK, RunState
    <3>2. \A k \in Key : Settled(k)' \subseteq Settled(k)
      BY <2>1, <3>1 DEF Settled, Visible
    <3>3. QED
      BY <1>0, <2>1, <3>1, <3>2, CoverMonotone DEF PendingInDedup, TypeOK
  <2>3. CASE ~Known(a)
    <3>1. Pending \subseteq Pending' \cup {a}
      BY <1>3, <2>3 DEF FilterSimilar, Pending, TypeOK, RunState
    <3>2. \A k \in Key : Settled(k)' \subseteq Settled(k) \cup {b \in {a} : KeyOf[b] = k}
      BY <2>1, <3>1 DEF Settled, Visible
    <3>3. CheckAndAddEntry(a)
      BY <1>3 DEF FilterSimilar
    <3>4. CacheCoversVisible'
      BY <2>1, <2>3, <3>2, <3>3, CoverAdded
    <3>5. QED
      BY <2>1, <3>4 DEF PendingInDedup
  <2>4. QED
    BY <2>2, <2>3
<1>4. ASSUME NEW outside \in SUBSET run.batch, DropFiltered(outside)
      PROVE  CoverInv'
  <2>1. run'.pc = "routing" /\ Pending' = {} /\ Pending = run.dups
    BY <1>4 DEF DropFiltered, Pending, TypeOK, RunState
  <2>2. UNCHANGED <<count, disturbed>>
    BY <1>4 DEF DropFiltered, cache
  <2>3. \A k \in Key : Settled(k)' \subseteq Settled(k)
    BY <1>4, <2>1 DEF DropFiltered, Hide, Settled, Visible, TypeOK
  <2>4. QED
    BY <1>0, <2>1, <2>2, <2>3, CoverMonotone DEF PendingInDedup, TypeOK
<1>5. ASSUME NEW tooFar \in SUBSET run.batch, NEW exclude \in BOOLEAN,
             Notify(tooFar, exclude)
      PROVE  CoverInv'
  <2>1. Pending = {} /\ Pending' = {}
    BY <1>5 DEF Notify, HoldBack, IdleRun, Pending, PendingInDedup
  <2>2. UNCHANGED <<count, disturbed>>
    BY <1>5 DEF Notify, HoldBack, cache
  <2>3. \A k \in Key : Settled(k)' \subseteq Settled(k)
    BY <1>5, <2>1 DEF Notify, HoldBack, Hide, Settled, Visible, TypeOK
  <2>4. QED
    BY <1>0, <2>1, <2>2, <2>3, CoverMonotone DEF PendingInDedup, TypeOK
<1>6. ASSUME HandleError
      PROVE  CoverInv'
  <2>1. Pending = {} /\ Pending' = {}
    BY <1>6 DEF HandleError, IdleRun, Pending, PendingInDedup
  <2>2. UNCHANGED <<rows, count, disturbed>>
    BY <1>6 DEF HandleError, cache
  <2>3. \A k \in Key : Settled(k)' \subseteq Settled(k)
    BY <2>1, <2>2 DEF Settled, Visible
  <2>4. QED
    BY <1>0, <2>1, <2>2, <2>3, CoverMonotone DEF PendingInDedup, TypeOK
<1>7. ASSUME NEW hidden \in SUBSET run.dups, BlockThrows(hidden)
      PROVE  CoverInv'
  <2>1. Pending' = {} /\ UNCHANGED count
    BY <1>7 DEF BlockThrows, IdleRun, Pending, cache
  <2>2. CASE disturbed'
    BY <2>1, <2>2 DEF PendingInDedup, CacheCoversVisible
  <2>3. CASE ~disturbed'
    <3>1. ~disturbed /\ \A a \in Pending \ hidden : rows[a] # "visible"
      BY <1>7, <2>3 DEF BlockThrows
    <3>2. \A k \in Key : Settled(k)' \subseteq Settled(k)
      BY <1>7, <2>1, <3>1 DEF BlockThrows, Hide, Settled, Visible, TypeOK
    <3>3. QED
      BY <1>0, <2>1, <2>3, <3>1, <3>2, CoverMonotone DEF PendingInDedup, TypeOK
  <2>4. QED
    BY <2>2, <2>3
<1>8. QED
  BY <1>1, <1>2, <1>3, <1>4, <1>5, <1>6, <1>7 DEF RunStep

LEMMA ReloadCover ==
  ASSUME CoverInv, InitSimilarityCache, rows' = rows
  PROVE  CacheCoversVisible'
<1> SUFFICES ASSUME NEW k \in Key
             PROVE  Cardinality(Settled(k)') <= count'[k]
  BY DEF CacheCoversVisible
<1>1. count'[k] = Cardinality({a \in AllEntries : KeyOf[a] = k})
  BY DEF InitSimilarityCache
<1>2. Settled(k)' \subseteq {a \in AllEntries : KeyOf[a] = k}
  BY DEF Settled, Visible, AllEntries
<1>3. {a \in AllEntries : KeyOf[a] = k} \in SUBSET Advert
  BY DEF AllEntries
<1>4. IsFiniteSet({a \in AllEntries : KeyOf[a] = k})
  BY <1>3, RowsFinite
<1>5. QED
  BY <1>1, <1>2, <1>4, FS_Subset

(* A hard delete takes one count, and one visible row, of the same hash.   *)
LEMMA HardDeleteCover ==
  ASSUME CoverInv, NEW a \in Advert, HardDelete(a)
  PROVE  CacheCoversVisible'
<1> USE DEF CoverInv
<1>1. Pending = {} /\ Pending' = {}
  BY DEF HardDelete, LoopFree, PendingInDedup, Pending
<1>2. disturbed' = disturbed /\ rows' = [rows EXCEPT ![a] = "absent"]
  BY DEF HardDelete
<1>3. \A k \in Key : Settled(k)' = Settled(k) \ {a}
  BY <1>1, <1>2 DEF Settled, Visible, TypeOK
<1>4. CASE ~Evicted(a)
  <2>1. count' = count
    BY <1>4 DEF HardDelete, cache
  <2>2. QED
    BY <1>2, <1>3, <2>1, CoverMonotone DEF TypeOK
<1>5. CASE Evicted(a)
  <2> SUFFICES ASSUME ~disturbed', NEW k \in Key
               PROVE  Cardinality(Settled(k)') <= count'[k]
    BY DEF CacheCoversVisible
  <2>1. Cardinality(Settled(k)) <= count[k] /\ count[k] \in Nat
    BY <1>2 DEF CacheCoversVisible, TypeOK
  <2>2. CASE k = KeyOf[a]
    <3>1. a \in Settled(k)
      BY <1>1, <1>5, <2>2 DEF Evicted, Settled, Visible
    <3>2. Cardinality(Settled(k) \ {a}) = Cardinality(Settled(k)) - 1
      BY <3>1, SettledFinite, FS_RemoveElement
    <3>3. Cardinality(Settled(k)) # 0
      BY <3>1, SettledFinite, FS_EmptySet
    <3>4. count[k] # 0
      BY <2>1, <3>3, SettledFinite
    <3>5. count' = [count EXCEPT ![KeyOf[a]] = @ - 1]
      BY <1>5, <2>2, <3>4 DEF HardDelete, RemoveEntry
    <3>6. count'[k] = count[k] - 1
      BY <2>2, <3>5 DEF TypeOK
    <3>7. QED
      BY <1>3, <2>1, <3>2, <3>6, SettledFinite
  <2>3. CASE k # KeyOf[a]
    <3>1. Settled(k)' = Settled(k)
      BY <1>1, <1>3, <2>3 DEF Settled, Visible
    <3>2. count'[k] = count[k]
      BY <1>5, <2>3 DEF HardDelete, RemoveEntry, cache, TypeOK
    <3>3. QED
      BY <2>1, <3>1, <3>2
  <2>4. QED
    BY <2>2, <2>3
<1>6. QED
  BY <1>4, <1>5

LEMMA UserStepCover ==
  ASSUME CoverInv, UserStep, TypeOK'
  PROVE  CoverInv'
<1> USE DEF CoverInv
<1>1. Pending = {} /\ UNCHANGED run
  BY DEF UserStep, AddStart, AddRead, AddStore, AddFail, SoftDelete, HardDelete,
         Restore, LoopFree, PendingInDedup
<1>2. Pending' = {} /\ PendingInDedup'
  BY <1>1 DEF Pending, PendingInDedup
<1>3. ASSUME NEW a \in Advert, AddStore(a)
      PROVE  CacheCoversVisible'
  <2>1. CASE rows[a] # "absent" \/ Known(a)
    <3>1. disturbed' \/ (rows' = rows /\ disturbed' = disturbed)
      BY <1>3, <2>1 DEF AddStore, Stored, TypeOK
    <3>2. CASE disturbed'
      BY <3>2 DEF CacheCoversVisible
    <3>3. CASE rows' = rows /\ disturbed' = disturbed
      <4>1. \A k \in Key : Settled(k)' \subseteq Settled(k)
        BY <1>1, <1>2, <3>3 DEF Settled, Visible
      <4>2. \A k \in Key : count[k] <= count'[k]
        BY <1>3, AdvertAssumption
           DEF AddStore, CheckAndAddEntry, Known, cache, TypeOK
      <4>3. QED
        BY <3>3, <4>1, <4>2, CoverMonotone DEF TypeOK
    <3>4. QED
      BY <3>1, <3>2, <3>3
  <2>2. CASE rows[a] = "absent" /\ ~Known(a)
    <3>1. CheckAndAddEntry(a) /\ (disturbed => disturbed')
      BY <1>3 DEF AddStore
    <3>2. \A k \in Key : Settled(k)' \subseteq Settled(k) \cup {b \in {a} : KeyOf[b] = k}
      BY <1>1, <1>2, <1>3 DEF AddStore, Stored, Settled, Visible, TypeOK
    <3>3. QED
      BY <2>2, <3>1, <3>2, CoverAdded
  <2>3. QED
    BY <2>1, <2>2
<1>4. ASSUME NEW a \in Advert, AddRead(a) \/ Restore(a)
      PROVE  CacheCoversVisible'
  <2>1. CASE disturbed'
    BY <2>1 DEF CacheCoversVisible
  <2>2. CASE ~disturbed'
    <3>1. UNCHANGED <<rows, count, disturbed>>
      BY <1>4, <2>2 DEF AddRead, Restore, cache, TypeOK
    <3>2. \A k \in Key : Settled(k)' \subseteq Settled(k)
      BY <1>1, <1>2, <3>1 DEF Settled, Visible
    <3>3. QED
      BY <3>1, <3>2, CoverMonotone DEF TypeOK
  <2>3. QED
    BY <2>1, <2>2
<1>5. ASSUME NEW a \in Advert, AddStart(a) \/ SoftDelete(a)
      PROVE  CacheCoversVisible'
  <2>1. UNCHANGED <<count, disturbed>>
    BY <1>5 DEF AddStart, SoftDelete, cache
  <2>2. \A k \in Key : Settled(k)' \subseteq Settled(k)
    BY <1>1, <1>2, <1>5 DEF AddStart, SoftDelete, Settled, Visible, TypeOK
  <2>3. QED
    BY <2>1, <2>2, CoverMonotone DEF TypeOK
<1>6. CASE AddFail
  <2>1. UNCHANGED <<rows, count, disturbed>>
    BY <1>6 DEF AddFail, cache
  <2>2. \A k \in Key : Settled(k)' \subseteq Settled(k)
    BY <1>1, <1>2, <2>1 DEF Settled, Visible
  <2>3. QED
    BY <1>2, <2>1, <2>2, CoverMonotone DEF TypeOK
<1>7. QED
  BY <1>2, <1>3, <1>4, <1>5, <1>6, HardDeleteCover DEF UserStep

LEMMA CoverInductive == Spec => []CoverInv
<1>1. Init => CoverInv
  <2> SUFFICES ASSUME Init PROVE CoverInv
    OBVIOUS
  <2>1. \A k \in Key : Settled(k) = {} /\ count[k] = 0
    BY DEF Init, Settled, Visible
  <2>2. PendingInDedup
    BY DEF Init, IdleRun, PendingInDedup, Pending
  <2>3. QED
    BY <2>1, <2>2, InitType, FS_EmptySet DEF CoverInv, CacheCoversVisible
<1>2. TypeOK' /\ CoverInv /\ [Next]_vars => CoverInv'
  <2>1. ASSUME TypeOK', CoverInv, Reload
        PROVE  CoverInv'
    <3>1. PendingInDedup'
      BY <2>1 DEF Reload, CoverInv, PendingInDedup, Pending
    <3>2. QED
      BY <2>1, <3>1, ReloadCover DEF Reload, CoverInv
  <2>2. ASSUME TypeOK', CoverInv, Restart
        PROVE  CoverInv'
    <3>1. PendingInDedup'
      BY <2>2 DEF Restart, IdleRun, PendingInDedup, Pending
    <3>2. QED
      BY <2>2, <3>1, ReloadCover DEF Restart, CoverInv
  <2>3. ASSUME CoverInv, UNCHANGED vars
        PROVE  CoverInv'
    BY <2>3 DEF CoverInv, TypeOK, PendingInDedup, CacheCoversVisible, Settled,
                Visible, Pending, vars, cache
  <2>4. QED
    BY <2>1, <2>2, <2>3, RunStepCover, UserStepCover DEF Next
<1>3. QED
  BY <1>1, <1>2, TypeCorrect, PTL DEF Spec

(* Since the last reload no hash was lost that a visible listing needs.    *)
THEOREM CacheCovers == Spec => []CacheCoversVisible
<1>1. CoverInv => CacheCoversVisible
  BY DEF CoverInv
<1>2. QED
  BY <1>1, CoverInductive, PTL

(* So the filter keeps a listing only when no visible one shares its hash. *)
THEOREM KeepsOnlyNovel == Spec => KeptIsNovel
<1> DEFINE Novel == \A a \in Advert :
       (a \in run.todo /\ a \notin run'.todo /\ a \in run'.batch /\ a \notin run'.dups)
         => (disturbed \/ Settled(KeyOf[a]) = {})
<1>1. CoverInv /\ [Next]_vars => [Novel]_vars
  <2> SUFFICES ASSUME CoverInv, Next, NEW a \in Advert,
                      a \in run.todo, a \notin run'.todo,
                      a \in run'.batch, a \notin run'.dups, ~disturbed
               PROVE  Settled(KeyOf[a]) = {}
    OBVIOUS
  <2>1. run.pc = "dedup"
    BY DEF CoverInv, PendingInDedup, Pending
  <2>a. ~UserStep /\ ~Reload
    BY <2>1 DEF UserStep, AddStart, AddRead, AddStore, AddFail, SoftDelete,
                HardDelete, Restore, Reload, LoopFree
  <2>b. ~Restart /\ \A hidden : ~BlockThrows(hidden)
    BY DEF Restart, BlockThrows, IdleRun
  <2>2. PICK b \in Advert : FilterSimilar(b)
    BY <2>1, <2>a, <2>b
       DEF Next, RunStep, FindNew, Save, DropFiltered, Notify, HoldBack, HandleError
  <2>3. a = b /\ ~Known(a)
    BY <2>2 DEF FilterSimilar, CoverInv, TypeOK, RunState
  <2>4. KeyOf[a] \in Key /\ count[KeyOf[a]] = 0
    BY <2>3, AdvertAssumption DEF Known, CoverInv, TypeOK
  <2>5. Cardinality(Settled(KeyOf[a])) = 0
    BY <2>4, SettledFinite DEF CoverInv, CacheCoversVisible
  <2>6. QED
    BY <2>4, <2>5, SettledFinite, FS_EmptySet
<1>2. QED
  BY <1>1, CoverInductive, PTL DEF Spec, KeptIsNovel

-----------------------------------------------------------------------------
(* A row goes from the table in a hard delete only.                        *)
LEMMA OnlyHardDeleteRemoves ==
  ASSUME TypeOK, Next, NEW a \in Advert, rows[a] # "absent", rows'[a] = "absent"
  PROVE  HardDelete(a)
<1>1. CASE RunStep
  BY <1>1 DEF RunStep, FindNew, Save, Stored, FilterSimilar, DropFiltered, Hide, Notify,
     HoldBack, HandleError, BlockThrows
<1>2. CASE AddFail \/ \E b \in Advert : AddStart(b) \/ AddStore(b) \/ AddRead(b)
  BY <1>2 DEF AddFail, AddStart, AddStore, Stored, AddRead, TypeOK
<1>3. CASE \E b \in Advert : SoftDelete(b) \/ Restore(b)
  BY <1>3 DEF SoftDelete, Restore, TypeOK
<1>4. CASE \E b \in Advert : HardDelete(b)
  BY <1>4 DEF HardDelete, TypeOK
<1>5. CASE Reload \/ Restart
  BY <1>5 DEF Reload, Restart
<1> QED
  BY <1>1, <1>2, <1>3, <1>4, <1>5 DEF Next, UserStep

(* One hard delete of an exact cache.                                      *)
LEMMA HardDeleteExact ==
  ASSUME TypeOK, CacheExact, NEW a \in Advert, HardDelete(a), NEW k \in Key
  PROVE  count'[k] = Cardinality(Visible(k)')
<1>1. rows' = [rows EXCEPT ![a] = "absent"] /\ count[k] = Cardinality(Visible(k))
  BY DEF HardDelete, CacheExact
<1>2. Visible(k)' = Visible(k) \ {a}
  BY <1>1 DEF Visible, TypeOK
<1>3. IsFiniteSet(Visible(k)) /\ Cardinality(Visible(k)) \in Nat
  BY RowsFinite DEF Visible
<1>4. CASE Evicted(a) /\ k = KeyOf[a]
  <2>1. a \in Visible(k)
    BY <1>4 DEF Evicted, Visible
  <2>2. Cardinality(Visible(k) \ {a}) = Cardinality(Visible(k)) - 1
    BY <1>3, <2>1, FS_RemoveElement
  <2>3. count[k] # 0
    BY <1>1, <1>3, <2>1, FS_EmptySet
  <2>4. count' = [count EXCEPT ![k] = @ - 1]
    BY <1>4, <2>3 DEF HardDelete, RemoveEntry
  <2> QED
    BY <1>1, <1>2, <2>2, <2>4 DEF TypeOK
<1>5. CASE ~(Evicted(a) /\ k = KeyOf[a])
  <2>1. a \notin Visible(k)
    BY <1>5 DEF Evicted, Visible
  <2>2. count'[k] = count[k]
    BY <1>5 DEF HardDelete, RemoveEntry, cache, TypeOK
  <2> QED
    BY <1>1, <1>2, <2>1, <2>2
<1> QED
  BY <1>4, <1>5

(* A hard delete takes from an exact cache what it takes from the table.   *)
THEOREM EvictionIsExact == Spec => HardDeleteKeepsExact
<1>1. TypeOK /\ [Next]_vars =>
        [(CacheExact /\ \E a \in Advert : rows[a] # "absent" /\ rows'[a] = "absent")
           => CacheExact']_vars
  <2> SUFFICES ASSUME TypeOK, Next, CacheExact, NEW a \in Advert,
                      rows[a] # "absent", rows'[a] = "absent"
               PROVE  CacheExact'
    OBVIOUS
  <2>1. HardDelete(a)
    BY OnlyHardDeleteRemoves
  <2> QED
    BY <2>1, HardDeleteExact DEF CacheExact
<1> QED
  BY <1>1, TypeCorrect, PTL DEF Spec, HardDeleteKeepsExact

-----------------------------------------------------------------------------
(* The run and the add by URL implement the abstract promise: every step   *)
(* maps to a step of AdvertPromise, or to none.                            *)
LEMMA PromiseStep ==
  ASSUME AnnouncedInv, AnnouncedInv', Next
  PROVE  Promise!Next \/ UNCHANGED [a \in Advert |-> StageOf(a)]
<1> DEFINE stage == [a \in Advert |-> StageOf(a)]
<1> USE DEF AnnouncedInv
<1>a. \A a \in Advert : stage[a] = StageOf(a) /\ stage'[a] = StageOf(a)'
  OBVIOUS
<1>b. \A a \in Advert :
        StageOf(a) = IF rows[a] = "absent" THEN "unknown"
                     ELSE IF announced[a] = 0 THEN "stored" ELSE "announced"
  <2>1. \A a \in Advert : announced[a] = 0 \/ announced[a] = 1
    BY DEF TypeOK, AnnouncedOnce
  <2>2. QED
    BY <2>1 DEF StageOf
<1>c. \A a \in Advert :
        StageOf(a)' = IF rows'[a] = "absent" THEN "unknown"
                      ELSE IF announced'[a] = 0 THEN "stored" ELSE "announced"
  <2>1. \A a \in Advert : announced'[a] = 0 \/ announced'[a] = 1
    BY DEF TypeOK, AnnouncedOnce
  <2>2. QED
    BY <2>1 DEF StageOf
<1>1. ASSUME NEW S \in SUBSET Advert, announced' = announced,
             \A a \in S : rows[a] = "absent" /\ rows'[a] # "absent",
             \A a \in Advert \ S : (rows'[a] = "absent") = (rows[a] = "absent")
      PROVE  Promise!Next
  <2>1. Promise!Discover(S)
    BY <1>1, <1>b, <1>c DEF Promise!Discover, AnnouncedOnce
  <2>2. QED
    BY <2>1 DEF Promise!Next
<1>2. ASSUME announced' = announced,
             \A a \in Advert : (rows'[a] = "absent") = (rows[a] = "absent")
      PROVE  UNCHANGED stage
  BY <1>2, <1>b, <1>c
<1>3. ASSUME NEW kept \in SUBSET run.batch, Save(kept)
      PROVE  Promise!Next \/ UNCHANGED stage
  <2>1. \A a \in Advert : (rows'[a] = "absent") =
                             (rows[a] = "absent" /\ a \notin kept)
    BY <1>3 DEF Save, Stored, TypeOK
  <2>2. {a \in kept : rows[a] = "absent"} \in SUBSET Advert
    BY <1>3 DEF TypeOK, RunState
  <2>3. announced' = announced
    BY <1>3 DEF Save
  <2>4. QED
    BY <1>1, <2>1, <2>2, <2>3
<1>4. ASSUME NEW a \in Advert, AddStore(a)
      PROVE  Promise!Next \/ UNCHANGED stage
  <2>1. \A b \in Advert : (rows'[b] = "absent") =
                             (rows[b] = "absent" /\ b # a)
    BY <1>4 DEF AddStore, Stored, TypeOK
  <2>2. {b \in {a} : rows[b] = "absent"} \in SUBSET Advert
    BY <1>4
  <2>3. announced' = announced
    BY <1>4 DEF AddStore
  <2>4. QED
    BY <1>1, <2>1, <2>2, <2>3
<1>5. ASSUME NEW tooFar \in SUBSET run.batch, NEW exclude \in BOOLEAN,
             Notify(tooFar, exclude)
      PROVE  Promise!Next
  <2> DEFINE S == (run.batch \cap held) \ tooFar
  <2>1. S \in SUBSET Advert
    BY DEF TypeOK
  <2>2. \A a \in Advert : (rows'[a] = "absent") = (rows[a] = "absent")
    BY <1>5 DEF Notify, HoldBack, Hide
  <2>3. \A a \in S : rows[a] # "absent" /\ announced[a] = 0
    BY <1>5 DEF HeldStored, BatchUnannounced, TypeOK
  <2>4. \A a \in Advert : announced'[a] = IF a \in S THEN announced[a] + 1 ELSE announced[a]
    BY <1>5 DEF Notify, HoldBack
  <2>5. Promise!Announce(S)
    BY <2>1, <2>2, <2>3, <2>4, <1>b, <1>c DEF Promise!Announce
  <2>6. QED
    BY <2>1, <2>5 DEF Promise!Next
<1>6. ASSUME NEW a \in Advert, HardDelete(a)
      PROVE  Promise!Next
  <2>1. \A b \in Advert : rows'[b] = IF b = a THEN "absent" ELSE rows[b]
    BY <1>6 DEF HardDelete, TypeOK
  <2>2. \A b \in Advert : announced'[b] = IF b = a THEN 0 ELSE announced[b]
    BY <1>6 DEF HardDelete, TypeOK
  <2>3. rows[a] # "absent"
    BY <1>6 DEF HardDelete
  <2>4. Promise!Forget(a)
    BY <2>1, <2>2, <2>3, <1>b, <1>c DEF Promise!Forget
  <2>5. QED
    BY <2>4, <1>6 DEF Promise!Next
<1>7. ASSUME NEW p \in Provider, NEW page \in SUBSET Advert, FindNew(p, page)
      PROVE  UNCHANGED stage
  BY <1>2, <1>7 DEF FindNew
<1>8. ASSUME NEW a \in Advert, FilterSimilar(a)
      PROVE  UNCHANGED stage
  BY <1>2, <1>8 DEF FilterSimilar
<1>9. ASSUME NEW outside \in SUBSET run.batch, DropFiltered(outside)
      PROVE  UNCHANGED stage
  BY <1>2, <1>9 DEF DropFiltered, Hide
<1>10. ASSUME NEW a \in Advert,
              AddStart(a) \/ AddRead(a) \/ SoftDelete(a) \/ Restore(a)
       PROVE  UNCHANGED stage
  <2>1. announced' = announced
    BY <1>10 DEF AddStart, AddRead, SoftDelete, Restore
  <2>2. \A b \in Advert : (rows'[b] = "absent") = (rows[b] = "absent")
    BY <1>10 DEF AddStart, AddRead, SoftDelete, Restore, TypeOK
  <2>3. QED
    BY <1>2, <2>1, <2>2
<1>11. ASSUME HandleError \/ AddFail \/ Reload \/ Restart
       PROVE  UNCHANGED stage
  BY <1>2, <1>11 DEF HandleError, AddFail, Reload, Restart
<1>12. ASSUME NEW hidden \in SUBSET run.dups, BlockThrows(hidden)
       PROVE  UNCHANGED stage
  <2>1. announced' = announced
    BY <1>12 DEF BlockThrows
  <2>2. \A b \in Advert : (rows'[b] = "absent") = (rows[b] = "absent")
    BY <1>12 DEF BlockThrows, Hide
  <2>3. QED
    BY <1>2, <2>1, <2>2
<1>13. CASE RunStep
  BY <1>13, <1>3, <1>5, <1>7, <1>8, <1>9, <1>11, <1>12 DEF RunStep
<1>14. CASE UserStep
  BY <1>14, <1>4, <1>6, <1>10, <1>11 DEF UserStep
<1>15. QED
  BY <1>11, <1>13, <1>14 DEF Next

(* Every behaviour of the run, the add by URL and the user's deletions is a *)
(* behaviour of AdvertPromise: an advert is taken up, then either shown or  *)
(* dropped, and never announced a second time from one row.                 *)
THEOREM JobKeepsPromise == Spec => KeepsPromise
<1>1. Init => Promise!Init
  BY DEF Init, Promise!Init, StageOf
<1>2. AnnouncedInv /\ AnnouncedInv' /\ [Next]_vars
        => [Promise!Next]_([a \in Advert |-> StageOf(a)])
  <2>1. UNCHANGED vars => UNCHANGED [a \in Advert |-> StageOf(a)]
    BY DEF vars, StageOf
  <2>2. QED
    BY <2>1, PromiseStep
<1>3. QED
  BY <1>1, <1>2, AnnouncedInductive, PTL DEF Spec, KeepsPromise, Promise!Spec
=============================================================================
