---------------------------- MODULE ListingDedup ----------------------------
(***************************************************************************)
(* One search job: the rows of the `listings` table, the in-memory         *)
(* similarity cache, the job run that fills both                           *)
(* (FredyPipelineExecutioner.execute), the listing a user adds by URL      *)
(* (manualListingService, FredyPipelineExecutioner.ingest), the deletes    *)
(* and restores of the API, the hourly cache reload and a process restart. *)
(*                                                                         *)
(* A job run is one process: executeJob's guard lets one run of a job      *)
(* exist at a time and walks its providers one after the other.  Node runs *)
(* a chain of synchronous `.then` steps without giving way, so everything  *)
(* from _save to _sendNewListingsToUser is one block: while the run is at  *)
(* "dedup", no other process moves (LoopFree), yet the process may still   *)
(* be killed, because each statement commits on its own.                   *)
(*                                                                         *)
(* An advert stands for its (job_id, hash): the unique index of the table. *)
(* KeyOf is the exact tier's hash (title, price, address), FlatOf what     *)
(* isLikelyDuplicate tells apart, BlockOf its bucket, NoBlock for an       *)
(* advert without size or rooms.                                           *)
(***************************************************************************)
EXTENDS Integers, Sequences, FiniteSets

CONSTANTS Advert, Provider, Key, Block, Flat, NoBlock,
          ProviderOf, KeyOf, BlockOf, FlatOf,
          MaxBucket      \* MAX_BUCKET_SIZE, 200 in the code

ASSUME AdvertAssumption ==
  /\ IsFiniteSet(Advert)
  /\ ProviderOf \in [Advert -> Provider]
  /\ KeyOf \in [Advert -> Key]
  /\ FlatOf \in [Advert -> Flat]
  /\ BlockOf \in [Advert -> Block \cup {NoBlock}]
  /\ NoBlock \notin Block
  /\ MaxBucket \in Nat \ {0}

VARIABLES
  rows,       \* the row of each advert: "absent", "visible" or "hidden"
  byHand,     \* rows with added_manually = 1
  count,      \* exactHashes: how many stored listings produced a hash
  buckets,    \* the fingerprints filed under a block, oldest first
  run,        \* the job run in flight
  held,       \* adverts of the run whose row id still names a row
  add,        \* the add-by-URL in flight
  announced,  \* how often the advert of a row was announced as new
  disturbed   \* since the last reload, a row became visible uncounted

vars == <<rows, byHand, count, buckets, run, held, add, announced, disturbed>>
cache == <<count, buckets>>

RunState == [pc : {"idle", "fetched", "dedup", "routing"},
             batch : SUBSET Advert, todo : SUBSET Advert, dups : SUBSET Advert]
AddState == [pc : {"idle", "reading", "geocoding"}, advert : SUBSET Advert]

IdleRun == [pc |-> "idle", batch |-> {}, todo |-> {}, dups |-> {}]
IdleAdd == [pc |-> "idle", advert |-> {}]

TypeOK ==
  /\ rows \in [Advert -> {"absent", "visible", "hidden"}]
  /\ byHand \subseteq Advert
  /\ count \in [Key -> Nat]
  /\ buckets \in [Block -> Seq(Advert)]
  /\ run \in RunState
  /\ held \subseteq Advert
  /\ add \in AddState
  /\ announced \in [Advert -> Nat]
  /\ disturbed \in BOOLEAN

Visible(k) == {a \in Advert : rows[a] = "visible" /\ KeyOf[a] = k}

-----------------------------------------------------------------------------
(* The similarity cache.                                                   *)

(* isLikelyDuplicate: only across providers, and only with size and rooms. *)
Alike(a, b) ==
  /\ ProviderOf[a] # ProviderOf[b]
  /\ FlatOf[a] = FlatOf[b]
  /\ BlockOf[a] # NoBlock /\ BlockOf[b] # NoBlock

(* checkAndAddEntry's verdict: the exact hash, then the candidate buckets. *)
Known(a) ==
  \/ count[KeyOf[a]] > 0
  \/ \E blk \in Block : \E i \in DOMAIN buckets[blk] : Alike(a, buckets[blk][i])

(* addToBuckets, with the oldest fingerprint shifted out of a full bucket. *)
AddToBuckets(a) ==
  LET longer == Append(buckets[BlockOf[a]], a)
  IN  IF BlockOf[a] = NoBlock THEN UNCHANGED buckets
      ELSE buckets' = [buckets EXCEPT ![BlockOf[a]] =
             IF Len(longer) > MaxBucket THEN Tail(longer) ELSE longer]

(* checkAndAddEntry: a duplicate is not added.                             *)
CheckAndAddEntry(a) ==
  IF Known(a) THEN UNCHANGED cache
  ELSE /\ count' = [count EXCEPT ![KeyOf[a]] = 1]
       /\ AddToBuckets(a)

(* The first fingerprint with this hash goes, whichever listing filed it.  *)
Unfile(a) ==
  LET bucket == buckets[BlockOf[a]]
      SameHash(i) == KeyOf[bucket[i]] = KeyOf[a]
  IN  IF BlockOf[a] = NoBlock \/ \A i \in DOMAIN bucket : ~SameHash(i)
      THEN UNCHANGED buckets
      ELSE \E i \in DOMAIN bucket :
             /\ SameHash(i) /\ \A j \in 1..(i - 1) : ~SameHash(j)
             /\ buckets' = [buckets EXCEPT ![BlockOf[a]] =
                  SubSeq(bucket, 1, i - 1) \o SubSeq(bucket, i + 1, Len(bucket))]

(* Bugs removeEntry could have: no look whether the hash is cached at all,  *)
(* or the hash dropped however many listings produced it.                   *)
RemoveUncached(a) == count' = [count EXCEPT ![KeyOf[a]] = @ - 1] /\ UNCHANGED buckets
RemoveOutright(a) == /\ count' = [count EXCEPT ![KeyOf[a]] = 0]
                     /\ Unfile(a)

(* removeEntry: nothing at all when the exact hash is not cached.          *)
RemoveEntry(a) ==
  IF count[KeyOf[a]] = 0 THEN UNCHANGED cache
  ELSE /\ count' = [count EXCEPT ![KeyOf[a]] = @ - 1]
       /\ Unfile(a)

(* getAllEntriesFromListings: the rows that are not soft-deleted.           *)
AllEntries == {a \in Advert : rows[a] = "visible"}

(* initSimilarityCache: rebuilt from the stored entries, in whatever order  *)
(* SQLite returns them; a full bucket keeps MaxBucket of them.              *)
Fillings(S) ==
  LET size == IF Cardinality(S) > MaxBucket THEN MaxBucket ELSE Cardinality(S)
  IN  {s \in [1..size -> S] : \A i, j \in 1..size : s[i] = s[j] => i = j}

Filling(blk) == Fillings({a \in AllEntries : BlockOf[a] = blk})

InitSimilarityCache ==
  /\ count' = [k \in Key |-> Cardinality({a \in AllEntries : KeyOf[a] = k})]
  /\ buckets' \in {f \in [Block -> UNION {Filling(blk) : blk \in Block}] :
                     \A blk \in Block : f[blk] \in Filling(blk)}
  /\ disturbed' = FALSE

-----------------------------------------------------------------------------
Init ==
  /\ rows = [a \in Advert |-> "absent"]
  /\ byHand = {}
  /\ count = [k \in Key |-> 0]
  /\ buckets = [blk \in Block |-> <<>>]
  /\ run = IdleRun
  /\ held = {}
  /\ add = IdleAdd
  /\ announced = [a \in Advert |-> 0]
  /\ disturbed = FALSE

LoopFree == run.pc # "dedup"

(* Rows the run stored but has not compared yet, or found to be duplicates *)
(* and is about to hide: nobody can see them between two blocks.           *)
Pending == run.todo \cup run.dups

Hide(S) == rows' = [a \in Advert |-> IF a \in S /\ rows[a] # "absent"
                                     THEN "hidden" ELSE rows[a]]

(* storeListings: an upsert on (job_id, hash) that leaves a known row, and *)
(* whether it is hidden, as it was.                                        *)
Stored(S) == [a \in Advert |-> IF a \in S /\ rows[a] = "absent"
                               THEN "visible" ELSE rows[a]]

-----------------------------------------------------------------------------
(* The job run.                                                            *)

(* A bug: soft-deleted rows do not count as known hashes.                   *)
UnseenOrHidden(page) == {a \in page : rows[a] # "visible"}

(* getKnownListingHashesForJobAndProvider, soft-deleted rows included.      *)
Unseen(page) == {a \in page : rows[a] = "absent"}

(* getListings, _normalize, _filter, _findNew: the adverts on the page of a *)
(* provider that have no row, each once.  None left ends the run at once.   *)
FindNew(p, page) ==
  /\ run.pc = "idle"
  /\ Unseen(page) # {}
  /\ run' = [IdleRun EXCEPT !.pc = "fetched", !.batch = Unseen(page)]
  /\ held' = {}
  /\ UNCHANGED <<rows, byHand, cache, add, announced, disturbed>>

(* After the details and the geocode were awaited: the spec and blacklist   *)
(* filters leave kept, _save stores it and item.id names the row of each.   *)
Save(kept) ==
  /\ run.pc = "fetched"
  /\ kept # {}
  /\ rows' = Stored(kept)
  /\ run' = [run EXCEPT !.pc = "dedup", !.batch = kept, !.todo = kept]
  /\ held' = kept
  /\ UNCHANGED <<byHand, cache, add, announced, disturbed>>

(* One turn of _filterBySimilarListings.                                    *)
FilterSimilar(a) ==
  /\ run.pc = "dedup"
  /\ a \in run.todo
  /\ CheckAndAddEntry(a)
  /\ run' = [run EXCEPT !.todo = @ \ {a},
                        !.dups = IF Known(a) THEN @ \cup {a} ELSE @]
  /\ UNCHANGED <<rows, byHand, held, add, announced, disturbed>>

(* The duplicates are soft-deleted, then what _filterByArea finds outside.  *)
DropFiltered(outside) ==
  /\ run.pc = "dedup"
  /\ run.todo = {}
  /\ outside \subseteq run.batch \ run.dups
  /\ Hide(run.dups \cup outside)
  /\ run' = [run EXCEPT !.pc = "routing", !.dups = {},
                        !.batch = @ \ (run.dups \cup outside)]
  /\ held' = held \ (run.dups \cup outside)
  /\ UNCHANGED <<byHand, cache, add, announced, disturbed>>

(* After the travel times were awaited: _filterByCommuteBudget soft-deletes *)
(* the listings that are too far when the job says `exclude`; it holds the  *)
(* notification of them back either way.                                    *)
HoldBack(tooFar, exclude) ==
  IF exclude THEN Hide(tooFar \cap held) ELSE UNCHANGED rows

(* _notify announces the rest.  A row deleted meanwhile is announced too,   *)
(* but no longer has a row to count it.                                     *)
Notify(tooFar, exclude) ==
  /\ run.pc = "routing"
  /\ tooFar \subseteq run.batch
  /\ HoldBack(tooFar, exclude)
  /\ announced' = [a \in Advert |->
       IF a \in (run.batch \cap held) \ tooFar THEN announced[a] + 1 ELSE announced[a]]
  /\ run' = IdleRun
  /\ held' = {}
  /\ UNCHANGED <<byHand, cache, add, disturbed>>

(* _handleError: nothing new after a filter, or a step that threw.          *)
HandleError ==
  /\ run.pc \in {"fetched", "routing"}
  /\ run' = IdleRun
  /\ held' = {}
  /\ UNCHANGED <<rows, byHand, cache, add, announced, disturbed>>

(* The same in the block after _save: the distances throw, or the deletion  *)
(* of the duplicates, or, with these hidden already, the area.  What it     *)
(* leaves visible nobody may have counted.                                  *)
BlockThrows(hidden) ==
  /\ run.pc = "dedup"
  /\ hidden \in {{}, IF run.todo = {} THEN run.dups ELSE {}}
  /\ Hide(hidden)
  /\ disturbed' = (disturbed \/ \E a \in Pending \ hidden : rows[a] = "visible")
  /\ run' = IdleRun
  /\ held' = {}
  /\ UNCHANGED <<byHand, cache, add, announced>>

-----------------------------------------------------------------------------
(* Adding one listing by its URL.                                          *)

(* existingListing found nothing; the page is read.                        *)
AddStart(a) ==
  /\ LoopFree
  /\ add.pc = "idle"
  /\ rows[a] = "absent"
  /\ add' = [pc |-> "reading", advert |-> {a}]
  /\ UNCHANGED <<rows, byHand, cache, run, held, announced, disturbed>>

(* The page is read; existingListing again, which restores a hidden copy.  *)
AddRead(a) ==
  /\ LoopFree
  /\ add = [pc |-> "reading", advert |-> {a}]
  /\ add' = IF rows[a] = "absent" THEN [add EXCEPT !.pc = "geocoding"] ELSE IdleAdd
  /\ rows' = [rows EXCEPT ![a] = IF @ = "hidden" THEN "visible" ELSE @]
  /\ disturbed' = (disturbed \/ rows[a] = "hidden")
  /\ UNCHANGED <<byHand, cache, run, held, announced>>

(* ingest after its geocode: _save, then _rememberSimilar, which files the *)
(* listing in the cache unless a known one is taken for the same flat.      *)
AddStore(a) ==
  /\ LoopFree
  /\ add = [pc |-> "geocoding", advert |-> {a}]
  /\ rows' = Stored({a})
  /\ byHand' = IF rows[a] = "absent" THEN byHand \cup {a} ELSE byHand
  /\ CheckAndAddEntry(a)
  /\ disturbed' = (disturbed \/ (rows[a] = "absent" /\ Known(a)))
  /\ add' = IdleAdd
  /\ UNCHANGED <<run, held, announced>>

(* The page was unreadable, or a step threw.                                *)
AddFail ==
  /\ LoopFree
  /\ add.pc # "idle"
  /\ add' = IdleAdd
  /\ UNCHANGED <<rows, byHand, cache, run, held, announced, disturbed>>

-----------------------------------------------------------------------------
(* The API, the reload timer and a restart.                                *)

(* deleteListingsById and its siblings, soft: the cache is not told.        *)
SoftDelete(a) ==
  /\ LoopFree
  /\ rows[a] = "visible"
  /\ rows' = [rows EXCEPT ![a] = "hidden"]
  /\ UNCHANGED <<byHand, cache, run, held, add, announced, disturbed>>

(* A bug: the soft-deleted rows of the selection are evicted as well.       *)
AlwaysEvicted(a) == TRUE

(* hardDeleteAndEvict's filter: a soft-deleted row has no entry to evict.   *)
Evicted(a) == rows[a] = "visible"

(* hardDeleteAndEvict, one row of it.                                       *)
HardDelete(a) ==
  /\ LoopFree
  /\ rows[a] # "absent"
  /\ rows' = [rows EXCEPT ![a] = "absent"]
  /\ IF Evicted(a) THEN RemoveEntry(a) ELSE UNCHANGED cache
  /\ byHand' = byHand \ {a}
  /\ held' = held \ {a}
  /\ announced' = [announced EXCEPT ![a] = 0]
  /\ UNCHANGED <<run, add, disturbed>>

(* restoreListingsById: the cache is not told either.                       *)
Restore(a) ==
  /\ LoopFree
  /\ rows[a] = "hidden"
  /\ rows' = [rows EXCEPT ![a] = "visible"]
  /\ disturbed' = TRUE
  /\ UNCHANGED <<byHand, cache, run, held, add, announced>>

(* startSimilarityCacheReloader's timer.                                    *)
Reload ==
  /\ LoopFree
  /\ InitSimilarityCache
  /\ UNCHANGED <<rows, byHand, run, held, add, announced>>

(* The process is killed at any point and index.js starts over.             *)
Restart ==
  /\ InitSimilarityCache
  /\ run' = IdleRun
  /\ held' = {}
  /\ add' = IdleAdd
  /\ UNCHANGED <<rows, byHand, announced>>

-----------------------------------------------------------------------------
RunStep ==
  \/ \E p \in Provider : \E page \in SUBSET {a \in Advert : ProviderOf[a] = p} :
       FindNew(p, page)
  \/ \E kept \in SUBSET run.batch : Save(kept)
  \/ \E a \in Advert : FilterSimilar(a)
  \/ \E outside \in SUBSET run.batch : DropFiltered(outside)
  \/ \E tooFar \in SUBSET run.batch, exclude \in BOOLEAN : Notify(tooFar, exclude)
  \/ HandleError
  \/ \E hidden \in SUBSET run.dups : BlockThrows(hidden)

UserStep ==
  \/ \E a \in Advert : AddStart(a) \/ AddRead(a) \/ AddStore(a)
  \/ AddFail
  \/ \E a \in Advert : SoftDelete(a) \/ HardDelete(a) \/ Restore(a)

Next == RunStep \/ UserStep \/ Reload \/ Restart

Spec == Init /\ [][Next]_vars

-----------------------------------------------------------------------------
(***************************************************************************)
(* Properties                                                              *)
(***************************************************************************)

Settled(k) == Visible(k) \ Pending

(* No row is announced as new twice: not by a later run (its hash is       *)
(* known, hidden or not), not after a restart, not when a user added it    *)
(* while the run was on its way, not after a restore.  _findNew,           *)
(* storeListings, _filterBySimilarListings and _notify together.           *)
AnnouncedOnce ==
  \A a \in Advert :
    /\ announced[a] <= 1
    /\ rows[a] = "absent" => announced[a] = 0

(* Unless a row was brought in behind the cache's back since the last      *)
(* reload (a restore, an add taken for a known flat, a run that threw      *)
(* between storing and comparing), the counts of the                       *)
(* exact tier never fall below the visible listings: checkAndAddEntry,     *)
(* removeEntry and the soft deletes of a run never lose a hash somebody    *)
(* still needs.                                                            *)
CacheCoversVisible ==
  ~disturbed => \A k \in Key : Cardinality(Settled(k)) <= count[k]

(* What the coverage is for: a run keeps (and will announce) a listing     *)
(* only when no visible listing of the job has the same title, price and   *)
(* address, whichever provider it came from.                               *)
KeptIsNovel ==
  [][\A a \in Advert :
       (a \in run.todo /\ a \notin run'.todo /\ a \in run'.batch /\ a \notin run'.dups)
         => (disturbed \/ Settled(KeyOf[a]) = {})]_vars

(* hardDeleteAndEvict leaves an exact cache exact: it takes one count for  *)
(* a visible row, none for a soft-deleted one (the reload never counted    *)
(* it), and leaves the hash of a listing that shares it.                   *)
CacheExact == \A k \in Key : count[k] = Cardinality(Visible(k))
HardDeleteKeepsExact ==
  [][(CacheExact /\ \E a \in Advert : rows[a] # "absent" /\ rows'[a] = "absent")
       => CacheExact']_vars

(* A job run, and the add by URL, implement the promise a user sees.       *)
StageOf(a) == IF rows[a] = "absent" THEN "unknown"
              ELSE IF announced[a] = 0 THEN "stored"
              ELSE IF announced[a] = 1 THEN "announced" ELSE "announced again"
Promise == INSTANCE AdvertPromise WITH stage <- [a \in Advert |-> StageOf(a)]
KeepsPromise == Promise!Spec

-----------------------------------------------------------------------------
(***************************************************************************)
(* What comments of the source say and the code does not do                *)
(***************************************************************************)

(* hardDeleteAndEvict evicts "so future scans don't immediately            *)
(* soft-delete re-discovered copies": the similarity filter never hides a  *)
(* listing that no other stored listing resembles.                         *)
OnlyTwinsAreHidden ==
  [][\A a \in Advert :
       (/\ a \in run.dups \ byHand
        /\ rows[a] = "visible" /\ rows'[a] = "hidden")
         => \E b \in Advert \ {a} :
              rows[b] # "absent" /\ (KeyOf[b] = KeyOf[a] \/ Alike(a, b))]_vars
=============================================================================
