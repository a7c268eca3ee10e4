---------------------------- MODULE JobExecution ----------------------------
(***************************************************************************)
(* Who runs a job, and with which browser.  The self-rescheduling timer,   *)
(* the run at startup and the bus events of the UI each walk through jobs   *)
(* they picked when they began; the registry in run-state keeps two of      *)
(* them off one job.  A run starts a browser for the first provider that    *)
(* needs one, replaces it when it lost the connection, and closes it in     *)
(* its finally.  A signal closes the browsers that are registered, then     *)
(* ends the process.                                                        *)
(***************************************************************************)
EXTENDS Integers, FiniteSets

CONSTANTS
  Timer,        \* the scheduler's round
  Manual,       \* rounds of the startup and of bus events
  Job,
  NoJob,
  MaxProviders  \* bound: providers of a job

ASSUME ExecutionAssumption ==
  /\ Timer \notin Manual
  /\ NoJob \notin Job
  /\ MaxProviders \in Nat

Round == Manual \cup {Timer}

VARIABLES
  enabled,      \* jobs.enabled
  running,      \* the registry of run-state
  told,         \* jobs whose last jobs:status said they run
  round,        \* where a round is, the jobs ahead of it, providers left
  browser,      \* a run's browser: "none", "open", or "lost" (not connected)
  alive,        \* rounds whose Chromium exists and can be had hold of
  registered,   \* openBrowsers
  shutdown,     \* "no", "closing", or "gone" with the process
  snapshot      \* the browsers closeAllBrowsers closes

browsers == <<browser, alive, registered>>
vars == <<enabled, running, told, round, browsers, shutdown, snapshot>>

RunPC == {"settings", "provider", "replacing", "launching", "refused", "executing",
          "hung", "closing"}
PC == {"idle", "asking", "between"} \cup RunPC

TypeOK ==
  /\ enabled \subseteq Job
  /\ running \subseteq Job
  /\ told \subseteq Job
  /\ round \in [Round -> [pc : PC, jobs : SUBSET Job, job : Job \cup {NoJob},
                          left : 0..MaxProviders]]
  /\ browser \in [Round -> {"none", "open", "lost"}]
  /\ alive \subseteq Round
  /\ registered \subseteq Round
  /\ shutdown \in {"no", "closing", "gone"}
  /\ snapshot \subseteq Round
  /\ \A r \in Round :
       /\ round[r].pc \in RunPC <=> round[r].job # NoJob
       /\ round[r].pc \in {"replacing", "launching", "refused", "executing", "hung"}
            => round[r].left > 0

IdleRound == [pc |-> "idle", jobs |-> {}, job |-> NoJob, left |-> 0]
Between(jobs) == [pc |-> "between", jobs |-> jobs, job |-> NoJob, left |-> 0]

Init ==
  /\ enabled \in SUBSET Job
  /\ running = {}
  /\ told = {}
  /\ round = [r \in Round |-> IdleRound]
  /\ browser = [r \in Round |-> "none"]
  /\ alive = {}
  /\ registered = {}
  /\ shutdown = "no"
  /\ snapshot = {}

-----------------------------------------------------------------------------
At(r, pc) == shutdown # "gone" /\ round[r].pc = pc
GoTo(r, pc) == round' = [round EXCEPT ![r].pc = pc]

(* The provider of the loop is done, or threw: the next one.                *)
NextProvider(r) == round' = [round EXCEPT ![r].pc = "provider", ![r].left = @ - 1]

(* The timer fires, or a bus event asks: runAll awaits the settings.        *)
StartRound(r) ==
  /\ At(r, "idle")
  /\ GoTo(r, "asking")
  /\ UNCHANGED <<enabled, running, told, browsers, shutdown, snapshot>>

(* runAll takes the jobs of getJobs that are the caller's; runSingle takes  *)
(* its job, enabled or not; outside the working hours nothing is taken.     *)
TakeJobs(r, jobs) ==
  /\ At(r, "asking")
  /\ \/ jobs \subseteq enabled
     \/ r # Timer /\ Cardinality(jobs) = 1
  /\ round' = [round EXCEPT ![r] = Between(jobs)]
  /\ UNCHANGED <<enabled, running, told, browsers, shutdown, snapshot>>

(* A bug: the guard is left to whoever starts the round.                    *)
ExecuteUnguarded(r, j, providers) ==
  /\ At(r, "between")
  /\ j \in round[r].jobs
  /\ running' = running \cup {j}
  /\ told' = told \cup {j}
  /\ round' = [round EXCEPT ![r] = [pc |-> "settings", jobs |-> round[r].jobs \ {j},
                                    job |-> j, left |-> providers]]
  /\ UNCHANGED <<enabled, browsers, shutdown, snapshot>>

(* executeJob up to its first await; a job that runs already is skipped.    *)
ExecuteJob(r, j, providers) ==
  /\ At(r, "between")
  /\ j \in round[r].jobs
  /\ IF j \in running
     THEN /\ round' = [round EXCEPT ![r].jobs = @ \ {j}]
          /\ UNCHANGED <<running, told>>
     ELSE /\ running' = running \cup {j}
          /\ told' = told \cup {j}
          /\ round' = [round EXCEPT ![r] = [pc |-> "settings", jobs |-> round[r].jobs \ {j},
                                            job |-> j, left |-> providers]]
  /\ UNCHANGED <<enabled, browsers, shutdown, snapshot>>

(* No job is left; the timer sets itself again.                             *)
EndRound(r) ==
  /\ At(r, "between")
  /\ round[r].jobs = {}
  /\ GoTo(r, "idle")
  /\ UNCHANGED <<enabled, running, told, browsers, shutdown, snapshot>>

(* The settings are there; if they cannot be read the finally follows.      *)
SettingsRead(r, ok) ==
  /\ At(r, "settings")
  /\ IF ok
     THEN GoTo(r, "provider")
     ELSE round' = [round EXCEPT ![r].pc = "provider", ![r].left = 0]
  /\ UNCHANGED <<enabled, running, told, browsers, shutdown, snapshot>>

-----------------------------------------------------------------------------
(* One provider.  A browser that lost its connection is closed first.       *)
ReplaceBrowser(r) ==
  /\ At(r, "provider")
  /\ round[r].left > 0
  /\ browser[r] = "lost"
  /\ registered' = registered \ {r}
  /\ GoTo(r, "replacing")
  /\ UNCHANGED <<enabled, running, told, browser, alive, shutdown, snapshot>>

(* closeBrowser: the process tree, if its handle can be read, is killed     *)
(* whatever close() did.                                                    *)
Replaced(r) ==
  /\ At(r, "replacing")
  /\ browser' = [browser EXCEPT ![r] = "none"]
  /\ alive' = alive \ {r}
  /\ GoTo(r, "provider")
  /\ UNCHANGED <<enabled, running, told, registered, shutdown, snapshot>>

(* launchBrowser, which refuses during a shutdown.                          *)
LaunchBrowser(r) ==
  /\ At(r, "provider")
  /\ round[r].left > 0
  /\ browser[r] = "none"
  /\ IF shutdown = "no"
     THEN GoTo(r, "launching") /\ alive' = alive \cup {r}
     ELSE NextProvider(r) /\ UNCHANGED alive
  /\ UNCHANGED <<enabled, running, told, browser, registered, shutdown, snapshot>>

(* A bug: a launch that ends during a shutdown is not noticed.              *)
LaunchUnnoticed(r) ==
  /\ At(r, "launching")
  /\ browser' = [browser EXCEPT ![r] = "open"]
  /\ registered' = registered \cup {r}
  /\ GoTo(r, "executing")
  /\ UNCHANGED <<enabled, running, told, alive, shutdown, snapshot>>

Launched(r) ==
  /\ At(r, "launching")
  /\ IF shutdown = "no"
     THEN /\ browser' = [browser EXCEPT ![r] = "open"]
          /\ registered' = registered \cup {r}
          /\ GoTo(r, "executing")
     ELSE GoTo(r, "refused") /\ UNCHANGED <<browser, registered>>
  /\ UNCHANGED <<enabled, running, told, alive, shutdown, snapshot>>

(* Chromium does not start, or the one launched too late is closed: the     *)
(* provider fails.                                                          *)
LaunchFailed(r) ==
  /\ At(r, "launching") \/ At(r, "refused")
  /\ alive' = alive \ {r}
  /\ NextProvider(r)
  /\ UNCHANGED <<enabled, running, told, browser, registered, shutdown, snapshot>>

(* The pipeline of a provider that needs no browser, or has one.            *)
ExecuteProvider(r) ==
  /\ At(r, "provider")
  /\ round[r].left > 0
  /\ browser[r] # "lost"
  /\ GoTo(r, "executing")
  /\ UNCHANGED <<enabled, running, told, browsers, shutdown, snapshot>>

ProviderDone(r) ==
  /\ At(r, "executing")
  /\ NextProvider(r)
  /\ UNCHANGED <<enabled, running, told, browsers, shutdown, snapshot>>

(* Nobody answers a request of the pipeline, and the run waits for ever:    *)
(* several adapters and services are called by a fetch without a signal.    *)
Hang(r) ==
  /\ At(r, "executing")
  /\ GoTo(r, "hung")
  /\ UNCHANGED <<enabled, running, told, browsers, shutdown, snapshot>>

(* A provider's createConfig throws.                                        *)
ProviderFails(r) ==
  /\ At(r, "provider")
  /\ round[r].left > 0
  /\ NextProvider(r)
  /\ UNCHANGED <<enabled, running, told, browsers, shutdown, snapshot>>

(* Chromium crashed, or hangs without an answer.  One whose process cannot  *)
(* be read any more (processOf returns null) is as good as dead to Fredy:   *)
(* nothing it can do ends it.                                               *)
LoseBrowser(r, dies) ==
  /\ shutdown # "gone"
  /\ browser[r] = "open"
  /\ browser' = [browser EXCEPT ![r] = "lost"]
  /\ alive' = IF dies THEN alive \ {r} ELSE alive
  /\ UNCHANGED <<enabled, running, told, round, registered, shutdown, snapshot>>

-----------------------------------------------------------------------------
(* The finally: the browser is closed, then the job is marked finished.     *)
BeginClose(r) ==
  /\ At(r, "provider")
  /\ round[r].left = 0
  /\ browser[r] # "none"
  /\ registered' = registered \ {r}
  /\ GoTo(r, "closing")
  /\ UNCHANGED <<enabled, running, told, browser, alive, shutdown, snapshot>>

(* A bug: a close that throws ends the finally.                             *)
FinishUnlessThrown(r) ==
  /\ At(r, "closing") \/ (At(r, "provider") /\ round[r].left = 0 /\ browser[r] = "none")
  /\ browser' = [browser EXCEPT ![r] = "none"]
  /\ alive' = alive \ {r}
  /\ running' \in {running, running \ {round[r].job}}
  /\ told' = told \ {round[r].job}
  /\ round' = [round EXCEPT ![r] = Between(round[r].jobs)]
  /\ UNCHANGED <<enabled, registered, shutdown, snapshot>>

(* A bug: only a browser that still answers is closed.                      *)
FinishClosingOpen(r) ==
  /\ At(r, "closing") \/ (At(r, "provider") /\ round[r].left = 0 /\ browser[r] = "none")
  /\ browser' = [browser EXCEPT ![r] = "none"]
  /\ alive' = IF browser[r] = "open" THEN alive \ {r} ELSE alive
  /\ running' = running \ {round[r].job}
  /\ told' = told \ {round[r].job}
  /\ round' = [round EXCEPT ![r] = Between(round[r].jobs)]
  /\ UNCHANGED <<enabled, registered, shutdown, snapshot>>

FinishJob(r) ==
  /\ At(r, "closing") \/ (At(r, "provider") /\ round[r].left = 0 /\ browser[r] = "none")
  /\ browser' = [browser EXCEPT ![r] = "none"]
  /\ alive' = IF At(r, "closing") THEN alive \ {r} ELSE alive
  /\ running' = running \ {round[r].job}
  /\ told' = told \ {round[r].job}
  /\ round' = [round EXCEPT ![r] = Between(round[r].jobs)]
  /\ UNCHANGED <<enabled, registered, shutdown, snapshot>>

-----------------------------------------------------------------------------
(* The user switches a job on or off.                                       *)
ToggleJob(j) ==
  /\ shutdown # "gone"
  /\ enabled' = IF j \in enabled THEN enabled \ {j} ELSE enabled \cup {j}
  /\ UNCHANGED <<running, told, round, browsers, shutdown, snapshot>>

(* A signal: closeAllBrowsers takes its snapshot and unregisters it.        *)
BeginShutdown ==
  /\ shutdown = "no"
  /\ shutdown' = "closing"
  /\ snapshot' = registered
  /\ registered' = {}
  /\ UNCHANGED <<enabled, running, told, round, browser, alive>>

SnapshotClosed(r) ==
  /\ shutdown = "closing"
  /\ r \in snapshot \cap alive
  /\ alive' = alive \ {r}
  /\ browser' = [browser EXCEPT ![r] = IF @ = "open" THEN "lost" ELSE @]
  /\ UNCHANGED <<enabled, running, told, round, registered, shutdown, snapshot>>

(* All of them closed or SHUTDOWN_CLOSE_TIMEOUT_MS is over: what is left of *)
(* the snapshot is killed, and the process exits.                           *)
Exit ==
  /\ shutdown = "closing"
  /\ alive' = alive \ snapshot
  /\ shutdown' = "gone"
  /\ UNCHANGED <<enabled, running, told, round, browser, registered, snapshot>>

(* The next process.                                                        *)
StartAgain ==
  /\ shutdown = "gone"
  /\ running' = {}
  /\ told' = {}
  /\ round' = [r \in Round |-> IdleRound]
  /\ browser' = [r \in Round |-> "none"]
  /\ alive' = {}
  /\ registered' = {}
  /\ shutdown' = "no"
  /\ snapshot' = {}
  /\ UNCHANGED enabled

-----------------------------------------------------------------------------
Walk(r) ==
  \/ \E jobs \in SUBSET Job : TakeJobs(r, jobs)
  \/ \E j \in Job, providers \in 0..MaxProviders : ExecuteJob(r, j, providers)
  \/ EndRound(r)

Run(r) ==
  \/ \E ok \in BOOLEAN : SettingsRead(r, ok)
  \/ ReplaceBrowser(r) \/ Replaced(r)
  \/ LaunchBrowser(r) \/ Launched(r) \/ LaunchFailed(r)
  \/ ExecuteProvider(r) \/ ProviderDone(r) \/ ProviderFails(r)
  \/ BeginClose(r) \/ FinishJob(r)

Next ==
  \/ \E r \in Round : StartRound(r) \/ Walk(r) \/ Run(r) \/ Hang(r)
  \/ \E r \in Round, dies \in BOOLEAN : LoseBrowser(r, dies)
  \/ \E j \in Job : ToggleJob(j)
  \/ BeginShutdown
  \/ \E r \in Round : SnapshotClosed(r)
  \/ Exit
  \/ StartAgain

Spec == Init /\ [][Next]_vars

(* The timer fires; settings, launches, page loads and the close of a       *)
(* browser end, by timeouts where they wait for others; a pipeline that     *)
(* does not hang is done; and now and then the timer's round falls into the *)
(* working hours.  Nothing says that a pipeline does not hang, and nothing  *)
(* ends one that does.                                                      *)
FairSpec ==
  /\ Spec
  /\ WF_vars(StartRound(Timer))
  /\ \A r \in Round : WF_vars(Walk(r)) /\ WF_vars(Run(r))
  /\ SF_vars(TakeJobs(Timer, enabled))

-----------------------------------------------------------------------------
(***************************************************************************)
(* Properties                                                              *)
(***************************************************************************)

InRun(r) == round[r].pc \in RunPC

(* However the timer, the startup and the buttons of the UI overlap, no job *)
(* is run twice at the same time.                                           *)
OneRunPerJob ==
  \A r, s \in Round : InRun(r) /\ InRun(s) /\ round[r].job = round[s].job => r = s

(* A job counts as running, and the users were last told so, exactly while  *)
(* a round runs it: no failure leaves it "stuck as running forever".        *)
RunningIsTrue ==
  /\ running = {round[r].job : r \in {s \in Round : InRun(s)}}
  /\ told = running

(* A job is run by one round at a time, and the registry and the users know *)
(* of exactly those runs.                                                   *)
RunsAreRegistered == OneRunPerJob /\ RunningIsTrue

(* A Chromium belongs to a run in progress, and a run that is past its      *)
(* finally has none left that could still be ended, connected or not.       *)
NoBrowserOutlivesItsRun ==
  shutdown # "gone" => \A r \in alive : InRun(r)

(* During a shutdown no run gets hold of a browser nobody closes: those     *)
(* still open are the shutdown's to close, or the run closes its own.       *)
NothingOpensLate ==
  shutdown = "closing" =>
    \A r \in Round : browser[r] = "open" => r \in snapshot \/ round[r].pc = "closing"

(* A job that stays enabled is run again and again, whatever runs throw,    *)
(* browsers crash or users start in between, unless the timer's round or a  *)
(* run of the job itself waits for an answer that never comes: nothing but  *)
(* the end of the process frees either.                                     *)
Begins(j) == j \in running' \ running
HungFor(j) ==
  \E r \in Round : round[r].pc = "hung" /\ (r = Timer \/ round[r].job = j)
EveryJobRuns ==
  \A j \in Job :
    <>[](j \in enabled /\ shutdown = "no") => []<><<Begins(j)>>_vars \/ <>[]HungFor(j)
=============================================================================
