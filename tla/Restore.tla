------------------------------- MODULE Restore -------------------------------
(***************************************************************************)
(* Replacing the database by a backup while the system runs, and migrating *)
(* what was put in its place.  From the checkpoint to the copy nothing     *)
(* else runs, but the process can be killed at every step; each migration  *)
(* is awaited, and meanwhile requests are served and another restore may   *)
(* begin.                                                                  *)
(*                                                                         *)
(* A database is the number of the restore that brought it, 0 being the    *)
(* one from before; how it is written to disk is SQLite's and is external. *)
(***************************************************************************)
EXTENDS Naturals, FiniteSets

CONSTANTS
  Restorer,        \* calls of restoreFromZip
  Latest,          \* the migrations of this version are 1 .. Latest
  MaxRestores,     \* bound
  Elsewhere        \* whether another process can have the database open (mcp/stdio.js)

VARIABLES
  file,            \* listings.db: whose it is, its schema_migrations, whether it is in one piece
  wal,             \* the databases with writes in listings.db-wal
  kept,            \* the databases with a copy in listings.db.bak-*
  up,              \* the process runs
  call,            \* what each restore is about to do, and what it knows
  blocked,         \* the restores between the checkpoint and their first await
  had,             \* history: the databases that were in use
  excused,         \* history: those whose safety copy or checkpoint failed, or
                   \* that were put beside the log of another
  overtaken,       \* history: a restore began while another migrated
  behind           \* history: the last restore failed halfway

vars == <<file, wal, kept, up, call, blocked, had, excused, overtaken, behind>>

Data == 0 .. MaxRestores
Migration == 1 .. Latest + 1        \* the last one a later version would bring
Upto(k) == 1 .. k
Step == {"checkpoint", "close", "keep", "sidecars", "copy", "written", "migrate"}
NoCall == [step |-> "none", zip |-> 0, schema |-> {}, marked |-> TRUE, executed |-> {}]

TypeOK ==
  /\ file \in [of : Data, applied : SUBSET Migration, whole : BOOLEAN]
  /\ wal \subseteq Data /\ kept \subseteq Data /\ had \subseteq Data /\ excused \subseteq Data
  /\ {up, overtaken, behind} \subseteq BOOLEAN
  /\ call \in [Restorer -> [step : Step \cup {"none"}, zip : Data, schema : SUBSET Migration,
                            marked : BOOLEAN, executed : SUBSET Migration]]
  /\ blocked \subseteq Restorer /\ Cardinality(blocked) <= 1
  /\ \A r \in Restorer : r \in blocked <=> call[r].step \in Step \ {"migrate"}
  /\ blocked # {} => up

Init ==
  /\ file = [of |-> 0, applied |-> Upto(Latest), whole |-> TRUE]
  /\ wal = {} /\ kept = {} /\ up = TRUE
  /\ call = [r \in Restorer |-> NoCall]
  /\ blocked = {}
  /\ had = {0} /\ excused = {}
  /\ overtaken = FALSE /\ behind = FALSE

history == <<had, excused, overtaken, behind>>
Go(r, step) == call' = [call EXCEPT ![r].step = step]
At(r, step) == up /\ call[r].step = step

-----------------------------------------------------------------------------
(* Requests write; the connection is open whenever nothing is blocked.      *)
Write ==
  /\ up /\ blocked = {}
  /\ wal' = wal \cup {file.of}
  /\ UNCHANGED <<file, kept, up, call, blocked, history>>

Used == had \cup kept \cup {file.of} \cup {call[r].zip : r \in Restorer}

(* precheckRestore has passed, or was overruled: k is what the backup was   *)
(* migrated up to, and it may lack the marker that says so.                 *)
Begin(r, d, k, marked) ==
  /\ up /\ blocked = {} /\ call[r] = NoCall
  /\ d = Cardinality(Used) /\ d \in Data
  /\ call' = [call EXCEPT ![r] = [NoCall EXCEPT !.step = "checkpoint", !.zip = d, !.schema = Upto(k),
                                               !.marked = marked]]
  /\ blocked' = {r}
  /\ overtaken' = (overtaken \/ \E s \in Restorer \ {r} : call[s] # NoCall)
  /\ UNCHANGED <<file, wal, kept, up, had, excused, behind>>

(* wal_checkpoint(TRUNCATE): what keeps it from finishing is logged.        *)
Checkpoint(r) ==
  /\ At(r, "checkpoint")
  /\ wal' = {} \/ (Elsewhere /\ UNCHANGED wal)
  /\ Go(r, "close")
  /\ UNCHANGED <<file, kept, up, blocked, history>>

(* SqliteConnection.close: the last connection takes the log with it.       *)
Close(r) ==
  /\ At(r, "close")
  /\ wal' = {} \/ (Elsewhere /\ UNCHANGED wal)
  /\ Go(r, "keep")
  /\ UNCHANGED <<file, kept, up, blocked, history>>

(* It throws, and the restore ends; the connection stays.                   *)
CloseThrows(r) ==
  /\ At(r, "close")
  /\ call' = [call EXCEPT ![r] = NoCall]
  /\ blocked' = {}
  /\ UNCHANGED <<file, wal, kept, up, history>>

(* A bug: no safety copy is made.                                           *)
KeepNothing(r) ==
  /\ At(r, "keep")
  /\ Go(r, "sidecars")
  /\ UNCHANGED <<file, wal, kept, up, blocked, history>>

(* The safety copy; a failure is logged.                                    *)
KeepCopy(r) ==
  /\ At(r, "keep")
  /\ \/ /\ kept' = IF file.of \in wal \/ ~file.whole THEN kept ELSE kept \cup {file.of}
        /\ excused' = IF file.of \in wal THEN excused \cup {file.of} ELSE excused
     \/ UNCHANGED kept /\ excused' = excused \cup {file.of}
  /\ Go(r, "sidecars")
  /\ UNCHANGED <<file, wal, up, blocked, had, overtaken, behind>>

(* removeWalSidecars; a failure is logged.                                  *)
RemoveWalSidecars(r) ==
  /\ At(r, "sidecars")
  /\ wal' = {} \/ UNCHANGED wal
  /\ Go(r, "copy")
  /\ UNCHANGED <<file, kept, up, blocked, history>>

(* copyFileSync writes over the file.                                       *)
StartCopy(r) ==
  /\ At(r, "copy")
  /\ file' = [of |-> call[r].zip, applied |-> {}, whole |-> FALSE]
  /\ Go(r, "written")
  /\ UNCHANGED <<wal, kept, up, blocked, history>>

(* It throws: before it touched the file, or leaving it torn, or removing   *)
(* what it had written, so that the next connection makes an empty one      *)
(* under its number.  The restore ends, the process goes on.                *)
CopyThrows(r) ==
  /\ At(r, "copy")
  /\ \/ UNCHANGED <<file, behind>>
     \/ /\ \E whole \in BOOLEAN : file' = [of |-> call[r].zip, applied |-> {}, whole |-> whole]
        /\ behind' = TRUE
  /\ call' = [call EXCEPT ![r] = NoCall]
  /\ blocked' = {}
  /\ UNCHANGED <<wal, kept, up, had, excused, overtaken>>

(* No marker counts as older than any.                                      *)
MustMigrate(c) == ~c.marked \/ ~(Upto(Latest) \subseteq c.schema)
Pending(executed) == Upto(Latest) \ executed

(* The copy is there and is opened: runMigrations up to its first await, or *)
(* getConnection.  A log of another database spoils it, and may keep it     *)
(* from being opened at all.                                                *)
Reopen(r) ==
  LET c == call[r]
      spoiled == ~(wal \subseteq {c.zip})
      migrates == MustMigrate(c) /\ Pending(c.schema) # {}
  IN  /\ At(r, "written")
      /\ file' = [of |-> c.zip, applied |-> c.schema, whole |-> ~spoiled]
      /\ had' = had \cup {c.zip}
      /\ excused' = IF spoiled THEN excused \cup {c.zip} ELSE excused
      /\ \/ /\ call' = [call EXCEPT ![r] = IF migrates THEN [c EXCEPT !.step = "migrate", !.executed = c.schema]
                                            ELSE NoCall]
            /\ behind' = FALSE
         \/ /\ spoiled
            /\ call' = [call EXCEPT ![r] = NoCall]
            /\ behind' = TRUE
      /\ blocked' = {}
      /\ UNCHANGED <<wal, kept, up, overtaken>>

NextMigration(executed) == CHOOSE m \in Pending(executed) : \A n \in Pending(executed) : m <= n

(* One turn of the loop of runMigrations: the transaction of the next       *)
(* migration, on the database as it is now, which may refuse it.            *)
Migrate(r) ==
  LET m == NextMigration(call[r].executed)
      done == [call[r] EXCEPT !.executed = @ \cup {m}]
  IN  /\ At(r, "migrate") /\ blocked = {}
      /\ \/ /\ m \notin file.applied
            /\ file' = [file EXCEPT !.applied = @ \cup {m}]
            /\ call' = [call EXCEPT ![r] = IF Pending(done.executed) = {} THEN NoCall ELSE done]
            /\ UNCHANGED behind
         \/ /\ call' = [call EXCEPT ![r] = NoCall]
            /\ behind' = TRUE
            /\ UNCHANGED file
      /\ UNCHANGED <<wal, kept, up, blocked, had, excused, overtaken>>

-----------------------------------------------------------------------------
(* The process is killed.                                                   *)
Kill ==
  /\ up
  /\ up' = FALSE
  /\ call' = [r \in Restorer |-> NoCall]
  /\ blocked' = {}
  /\ UNCHANGED <<file, wal, kept, history>>

(* index.js: a file that is not a database ends it; so does a migration     *)
(* that fails, and each one before it is there to stay.                     *)
Start(k) ==
  /\ ~up /\ file.whole
  /\ k \in 0 .. Latest
  /\ file' = [file EXCEPT !.applied = @ \cup (Pending(@) \cap Upto(k))]
  /\ up' = (Pending(file'.applied) = {})
  /\ behind' = FALSE
  /\ had' = had \cup {file.of}
  /\ UNCHANGED <<wal, kept, call, blocked, excused, overtaken>>

Next ==
  \/ Write \/ Kill
  \/ \E k \in 0 .. Latest : Start(k)
  \/ \E r \in Restorer, d \in Data, k \in 0 .. Latest + 1, marked \in BOOLEAN : Begin(r, d, k, marked)
  \/ \E r \in Restorer :
       \/ Checkpoint(r) \/ Close(r) \/ CloseThrows(r) \/ KeepCopy(r) \/ RemoveWalSidecars(r)
       \/ StartCopy(r) \/ CopyThrows(r) \/ Reopen(r) \/ Migrate(r)

Spec == Init /\ [][Next]_vars

-----------------------------------------------------------------------------
(***************************************************************************)
(* Properties                                                              *)
(***************************************************************************)

(* Wherever a restore is killed or fails, every database that was in use is *)
(* the one in place or has its safety copy.  Excused are those whose copy   *)
(* or checkpoint failed, and one put beside the log of another: all three   *)
(* are only logged.                                                         *)
NothingIsLost ==
  \A d \in had \ excused : (file.of = d /\ file.whole) \/ d \in kept

(* Migrations are on the database in the order of their numbers, without a  *)
(* gap, unless one restore began while another was migrating; a torn or     *)
(* spoiled file says nothing.                                               *)
SchemaHasNoGap ==
  file.whole /\ ~overtaken => \E k \in 0 .. Latest + 1 : file.applied = Upto(k)

(* Requests are served on the schema of this version, except while a        *)
(* restore migrates, after one that failed halfway, and from a torn or      *)
(* spoiled file.                                                            *)
ServesItsSchema ==
  up /\ file.whole /\ ~behind /\ ~overtaken /\ (\A r \in Restorer : call[r] = NoCall)
    => Upto(Latest) \subseteq file.applied
=============================================================================
