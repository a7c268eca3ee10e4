--------------------------- MODULE SettingsCache ---------------------------
(***************************************************************************)
(* The compiled global settings: one cached object, emptied by every       *)
(* global write and refilled by whoever asks next.  The refill reads the   *)
(* rows, awaits config.json and only then fills the cache, so the          *)
(* generation counter has to tell it of a write that overtook it.  A       *)
(* backup restore swaps the database file under the same cache.            *)
(*                                                                         *)
(* What the settings table holds is one value here.                        *)
(***************************************************************************)
EXTENDS Integers

CONSTANTS
  Caller,       \* calls of getSettings
  Restorer,     \* calls of restoreFromZip
  Value,        \* contents of the settings table
  Cold,         \* nothing cached
  MaxWrites     \* bound: global writes of one process

VARIABLES
  table,        \* the global rows of the settings table
  cached,       \* cachedSettingsConfig
  generation,   \* settingsGeneration
  read,         \* what each call is doing, and the rows and generation it took
  excuse        \* history: why the cache may differ since the last global write

vars == <<table, cached, generation, read, excuse>>

Reader == Caller \cup Restorer
Excuse == {"swapped", "torn", "failed"}
NoRead == [pc |-> "idle", rows |-> Cold, gen |-> 0]

TypeOK ==
  /\ table \in Value
  /\ cached \in Value \cup {Cold}
  /\ generation \in 0..MaxWrites
  /\ read \in [Reader -> [pc : {"idle", "reading", "swapped"},
                          rows : Value \cup {Cold}, gen : 0..MaxWrites]]
  /\ excuse \subseteq Excuse
  /\ \A r \in Reader : /\ read[r].gen <= generation
                       /\ read[r].pc = "swapped" => r \in Restorer

Init ==
  /\ table \in Value
  /\ cached = Cold
  /\ generation = 0
  /\ read = [r \in Reader |-> NoRead]
  /\ excuse = {}

-----------------------------------------------------------------------------
(* refreshSettingsCache up to its await: the rows and the generation.       *)
TakeRows(r) == read' = [read EXCEPT ![r] = [pc |-> "reading", rows |-> table,
                                            gen |-> generation]]

(* getSettings on a cold cache; a warm one answers at once.                 *)
AskSettings(c) ==
  /\ read[c].pc = "idle"
  /\ cached = Cold
  /\ TakeRows(c)
  /\ UNCHANGED <<table, cached, generation, excuse>>

(* A bug: the refill does not look at the generation.                       *)
FillAlways(r) == cached' = read[r].rows

(* The rest of refreshSettingsCache.                                        *)
Fill(r) ==
  \/ read[r].gen = generation /\ cached' = read[r].rows
  \/ read[r].gen # generation /\ UNCHANGED cached

(* config.json was read.                                                    *)
ConfigRead(r) ==
  /\ read[r].pc = "reading"
  /\ Fill(r)
  /\ read' = [read EXCEPT ![r] = NoRead]
  /\ UNCHANGED <<table, generation, excuse>>

(* It could not be read: the refresh rejects; a restore logs it.            *)
ConfigUnreadable(r) ==
  /\ read[r].pc = "reading"
  /\ read' = [read EXCEPT ![r] = NoRead]
  /\ excuse' = IF r \in Restorer THEN excuse \cup {"failed"} ELSE excuse
  /\ UNCHANGED <<table, cached, generation>>

(* upsertSettings of global settings; its block runs through.               *)
UpsertSettings(v) ==
  /\ generation < MaxWrites
  /\ table' = v
  /\ cached' = Cold
  /\ generation' = generation + 1
  /\ excuse' = {}
  /\ UNCHANGED read

(* One of its statements throws after others ran: what was written stays,   *)
(* and the cache is not told.                                               *)
UpsertThrows(v) ==
  /\ table' = v
  /\ excuse' = excuse \cup {"torn"}
  /\ UNCHANGED <<cached, generation, read>>

-----------------------------------------------------------------------------
(* restoreFromZip: from the checkpoint to the copy nothing gives way.       *)
SwapDatabase(r, v) ==
  /\ read[r].pc = "idle"
  /\ table' = v
  /\ read' = [read EXCEPT ![r] = [NoRead EXCEPT !.pc = "swapped"]]
  /\ excuse' = excuse \cup {"swapped"}
  /\ UNCHANGED <<cached, generation>>

(* runMigrations of an older backup: each migration is awaited.             *)
Migrate(r, v) ==
  /\ read[r].pc = "swapped"
  /\ table' = v
  /\ excuse' = excuse \cup {"swapped"}
  /\ UNCHANGED <<cached, generation, read>>

(* A migration throws: the restore ends there.                              *)
MigrationFails(r) ==
  /\ read[r].pc = "swapped"
  /\ read' = [read EXCEPT ![r] = NoRead]
  /\ excuse' = excuse \cup {"failed"}
  /\ UNCHANGED <<table, cached, generation>>

(* refreshCachesAfterRestore.                                               *)
RefreshAfterRestore(r) ==
  /\ read[r].pc = "swapped"
  /\ TakeRows(r)
  /\ UNCHANGED <<table, cached, generation, excuse>>

Restart ==
  /\ cached' = Cold
  /\ generation' = 0
  /\ read' = [r \in Reader |-> NoRead]
  /\ excuse' = {}
  /\ UNCHANGED table

-----------------------------------------------------------------------------
Next ==
  \/ \E c \in Caller : AskSettings(c)
  \/ \E r \in Reader : ConfigRead(r) \/ ConfigUnreadable(r)
  \/ \E v \in Value : UpsertSettings(v) \/ UpsertThrows(v)
  \/ \E r \in Restorer, v \in Value : SwapDatabase(r, v) \/ Migrate(r, v)
  \/ \E r \in Restorer : MigrationFails(r) \/ RefreshAfterRestore(r)
  \/ Restart

Spec == Init /\ [][Next]_vars

-----------------------------------------------------------------------------
(***************************************************************************)
(* Properties                                                              *)
(***************************************************************************)

(* However many refills a write overtakes, nothing older than the last      *)
(* write is ever cached: a setting just saved is in force for every call    *)
(* that begins after the save.  Excused are what goes past upsertSettings   *)
(* (a restore) and a save that threw half way.                              *)
CacheIsCurrent == excuse = {} => cached \in {table, Cold}

(* Why it holds: a refill that may still fill the cache has current rows.   *)
RefillsAreCurrent ==
  excuse = {} =>
    \A r \in Reader : read[r].pc = "reading" /\ read[r].gen = generation
                      => read[r].rows = table
=============================================================================
