------------------------- MODULE JobExecution_proofs -------------------------
(***************************************************************************)
(* Proofs about JobExecution, for any jobs, rounds and numbers of           *)
(* providers.  That no job runs twice and that the registry tells the truth *)
(* need each other: the guard of executeJob only keeps a second run away    *)
(* because every run in progress is registered, and the finally only        *)
(* unregisters the right job because no other round runs it.                *)
(***************************************************************************)
EXTENDS JobExecution, TLAPS

(* A step that leaves the registry alone and takes no round into or out of  *)
(* a run.                                                                   *)
KeepsRuns ==
  /\ running' = running /\ told' = told
  /\ \A r \in Round : (InRun(r)' <=> InRun(r)) /\ round'[r].job = round[r].job

RunInv == TypeOK /\ OneRunPerJob /\ RunningIsTrue

(* A browser the run knows of, or is starting, is all that can be alive.    *)
HeldByRun(r) ==
  /\ browser[r] # "none" => InRun(r)
  /\ r \in alive => browser[r] # "none" \/ round[r].pc \in {"launching", "refused"}

BrowserInv == TypeOK /\ \A r \in Round : HeldByRun(r)

-----------------------------------------------------------------------------
(* Every variable keeps its type, and a round names a job exactly while it  *)
(* runs one.                                                                *)
LEMMA TypeStep ==
  ASSUME TypeOK, [Next]_vars
  PROVE  TypeOK'
<1> USE ExecutionAssumption DEF TypeOK, At, GoTo, RunPC, PC, IdleRound, browsers
<1>1. ASSUME NEW r \in Round, StartRound(r) PROVE TypeOK'
  BY <1>1 DEF StartRound
<1>2. ASSUME NEW r \in Round, Walk(r) PROVE TypeOK'
  <2>1. ASSUME NEW jobs \in SUBSET Job, TakeJobs(r, jobs) PROVE TypeOK'
    BY <2>1 DEF TakeJobs, Between
  <2>2. ASSUME NEW j \in Job, NEW providers \in 0..MaxProviders, ExecuteJob(r, j, providers)
        PROVE  TypeOK'
    <3>1. CASE j \in running
      BY <2>2, <3>1 DEF ExecuteJob
    <3>2. CASE j \notin running
      BY <2>2, <3>2 DEF ExecuteJob
    <3> QED
      BY <3>1, <3>2
  <2>3. CASE EndRound(r)
    BY <2>3 DEF EndRound
  <2> QED
    BY <1>2, <2>1, <2>2, <2>3 DEF Walk
<1>3. ASSUME NEW r \in Round, Run(r) PROVE TypeOK'
  <2>1. ASSUME NEW ok \in BOOLEAN, SettingsRead(r, ok) PROVE TypeOK'
    <3>1. CASE ok
      BY <2>1, <3>1 DEF SettingsRead
    <3>2. CASE ~ok
      BY <2>1, <3>2 DEF SettingsRead
    <3> QED
      BY <3>1, <3>2
  <2>2. CASE ReplaceBrowser(r)
    BY <2>2 DEF ReplaceBrowser
  <2>3. CASE Replaced(r)
    BY <2>3 DEF Replaced
  <2>4. CASE LaunchBrowser(r)
    <3>1. CASE shutdown = "no"
      BY <2>4, <3>1 DEF LaunchBrowser
    <3>2. CASE shutdown # "no"
      BY <2>4, <3>2 DEF LaunchBrowser, NextProvider
    <3> QED
      BY <3>1, <3>2
  <2>5. CASE Launched(r)
    <3>1. CASE shutdown = "no"
      BY <2>5, <3>1 DEF Launched
    <3>2. CASE shutdown # "no"
      BY <2>5, <3>2 DEF Launched
    <3> QED
      BY <3>1, <3>2
  <2>6. CASE LaunchFailed(r)
    BY <2>6 DEF LaunchFailed, NextProvider
  <2>7. CASE ExecuteProvider(r)
    BY <2>7 DEF ExecuteProvider
  <2>8. CASE ProviderDone(r)
    BY <2>8 DEF ProviderDone, NextProvider
  <2>9. CASE ProviderFails(r)
    BY <2>9 DEF ProviderFails, NextProvider
  <2>10. CASE BeginClose(r)
    BY <2>10 DEF BeginClose
  <2>11. CASE FinishJob(r)
    BY <2>11 DEF FinishJob, Between
  <2> QED
    BY <1>3, <2>1, <2>2, <2>3, <2>4, <2>5, <2>6, <2>7, <2>8, <2>9, <2>10, <2>11 DEF Run
<1>4. ASSUME NEW r \in Round, NEW dies \in BOOLEAN, LoseBrowser(r, dies) PROVE TypeOK'
  BY <1>4 DEF LoseBrowser
<1>5. ASSUME NEW j \in Job, ToggleJob(j) PROVE TypeOK'
  BY <1>5 DEF ToggleJob
<1>6. CASE BeginShutdown
  BY <1>6 DEF BeginShutdown
<1>7. ASSUME NEW r \in Round, SnapshotClosed(r) PROVE TypeOK'
  BY <1>7 DEF SnapshotClosed
<1>8. CASE Exit
  BY <1>8 DEF Exit
<1>9. CASE StartAgain
  BY <1>9 DEF StartAgain
<1>10. CASE UNCHANGED vars
  BY <1>10 DEF vars
<1>11. ASSUME NEW r \in Round, Hang(r) PROVE TypeOK'
  BY <1>11 DEF Hang
<1> QED
  BY <1>1, <1>2, <1>3, <1>4, <1>5, <1>6, <1>7, <1>8, <1>9, <1>10, <1>11 DEF Next

(* The variables have their types in every state.                           *)
THEOREM TypeCorrect == Spec => []TypeOK
<1>1. Init => TypeOK
  BY ExecutionAssumption DEF Init, TypeOK, PC, RunPC, IdleRound
<1>2. TypeOK /\ [Next]_vars => TypeOK'
  BY TypeStep
<1> QED
  BY <1>1, <1>2, PTL DEF Spec

-----------------------------------------------------------------------------
(* What takes no round into a run or out of it keeps the registry true.     *)
LEMMA KeepsRunsStep ==
  ASSUME RunInv, KeepsRuns
  PROVE  (OneRunPerJob /\ RunningIsTrue)'
<1>1. OneRunPerJob'
  BY DEF RunInv, OneRunPerJob, KeepsRuns
<1>2. RunningIsTrue'
  BY DEF RunInv, RunningIsTrue, KeepsRuns
<1> QED
  BY <1>1, <1>2

LEMMA RunsStep ==
  ASSUME RunInv, [Next]_vars
  PROVE  (OneRunPerJob /\ RunningIsTrue)'
<1> USE DEF At, GoTo, RunPC, InRun, browsers
<1>t. TypeOK
  BY DEF RunInv
<1>1. ASSUME NEW r \in Round, StartRound(r) PROVE KeepsRuns
  BY <1>1, <1>t DEF StartRound, KeepsRuns, TypeOK
<1>2. ASSUME NEW r \in Round, NEW jobs \in SUBSET Job, TakeJobs(r, jobs) PROVE KeepsRuns
  BY <1>2, <1>t DEF TakeJobs, Between, KeepsRuns, TypeOK
<1>3. ASSUME NEW r \in Round, EndRound(r) PROVE KeepsRuns
  BY <1>3, <1>t DEF EndRound, KeepsRuns, TypeOK
<1>4. ASSUME NEW r \in Round, NEW j \in Job, NEW providers \in 0..MaxProviders,
             ExecuteJob(r, j, providers)
      PROVE  (OneRunPerJob /\ RunningIsTrue)'
  <2>1. CASE j \in running
    <3>1. KeepsRuns
      BY <1>4, <2>1, <1>t DEF ExecuteJob, KeepsRuns, TypeOK
    <3> QED
      BY <3>1, KeepsRunsStep
  <2>2. CASE j \notin running
    <3>1. /\ running' = running \cup {j} /\ told' = told \cup {j}
          /\ ~InRun(r)
          /\ InRun(r)' /\ round'[r].job = j
          /\ \A s \in Round \ {r} : round'[s] = round[s]
      BY <1>4, <2>2, <1>t DEF ExecuteJob, TypeOK
    <3>2. \A s \in Round : InRun(s) => round[s].job # j
      BY <2>2 DEF RunInv, RunningIsTrue
    <3>3. OneRunPerJob'
      BY <3>1, <3>2 DEF RunInv, OneRunPerJob
    <3>4. RunningIsTrue'
      BY <3>1 DEF RunInv, RunningIsTrue
    <3> QED
      BY <3>3, <3>4
  <2> QED
    BY <2>1, <2>2
<1>5. ASSUME NEW r \in Round, FinishJob(r)
      PROVE  (OneRunPerJob /\ RunningIsTrue)'
  <2>1. /\ running' = running \ {round[r].job} /\ told' = told \ {round[r].job}
        /\ InRun(r) /\ ~InRun(r)'
        /\ \A s \in Round \ {r} : round'[s] = round[s]
    BY <1>5, <1>t DEF FinishJob, Between, TypeOK
  <2>2. \A s \in Round \ {r} : InRun(s) => round[s].job # round[r].job
    BY <2>1 DEF RunInv, OneRunPerJob
  <2>3. OneRunPerJob'
    BY <2>1 DEF RunInv, OneRunPerJob
  <2>4. RunningIsTrue'
    BY <2>1, <2>2 DEF RunInv, RunningIsTrue
  <2> QED
    BY <2>3, <2>4
<1>6. ASSUME NEW r \in Round, NEW ok \in BOOLEAN, SettingsRead(r, ok) PROVE KeepsRuns
  BY <1>6, <1>t DEF SettingsRead, KeepsRuns, TypeOK
<1>7. ASSUME NEW r \in Round, ReplaceBrowser(r) \/ Replaced(r) PROVE KeepsRuns
  BY <1>7, <1>t DEF ReplaceBrowser, Replaced, KeepsRuns, TypeOK
<1>8. ASSUME NEW r \in Round, LaunchBrowser(r) PROVE KeepsRuns
  BY <1>8, <1>t DEF LaunchBrowser, NextProvider, KeepsRuns, TypeOK
<1>9. ASSUME NEW r \in Round, Launched(r) \/ LaunchFailed(r) PROVE KeepsRuns
  BY <1>9, <1>t DEF Launched, LaunchFailed, NextProvider, KeepsRuns, TypeOK
<1>10. ASSUME NEW r \in Round, ExecuteProvider(r) \/ ProviderDone(r) \/ ProviderFails(r) \/ Hang(r)
       PROVE  KeepsRuns
  BY <1>10, <1>t DEF ExecuteProvider, ProviderDone, ProviderFails, Hang, NextProvider, KeepsRuns, TypeOK
<1>11. ASSUME NEW r \in Round, BeginClose(r) PROVE KeepsRuns
  BY <1>11, <1>t DEF BeginClose, KeepsRuns, TypeOK
<1>12. ASSUME NEW r \in Round, NEW dies \in BOOLEAN, LoseBrowser(r, dies) PROVE KeepsRuns
  BY <1>12 DEF LoseBrowser, KeepsRuns
<1>13. ASSUME NEW j \in Job, ToggleJob(j) PROVE KeepsRuns
  BY <1>13 DEF ToggleJob, KeepsRuns
<1>14. ASSUME BeginShutdown \/ Exit \/ UNCHANGED vars PROVE KeepsRuns
  BY <1>14 DEF BeginShutdown, Exit, vars, KeepsRuns
<1>15. ASSUME NEW r \in Round, SnapshotClosed(r) PROVE KeepsRuns
  BY <1>15 DEF SnapshotClosed, KeepsRuns
<1>16. CASE StartAgain
  <2>1. running' = {} /\ told' = {} /\ \A s \in Round : ~InRun(s)'
    BY <1>16 DEF StartAgain, IdleRound
  <2> QED
    BY <2>1 DEF OneRunPerJob, RunningIsTrue
<1> QED
  BY <1>1, <1>2, <1>3, <1>4, <1>5, <1>6, <1>7, <1>8, <1>9, <1>10, <1>11, <1>12, <1>13, <1>14,
     <1>15, <1>16, KeepsRunsStep DEF Next, Walk, Run

LEMMA RunInvariant == Spec => []RunInv
<1>1. Init => RunInv
  <2> SUFFICES ASSUME Init PROVE RunInv
    OBVIOUS
  <2>1. TypeOK
    BY ExecutionAssumption DEF Init, TypeOK, PC, RunPC, IdleRound
  <2>2. \A r \in Round : ~InRun(r)
    BY DEF Init, InRun, RunPC, IdleRound
  <2> QED
    BY <2>1, <2>2 DEF RunInv, OneRunPerJob, RunningIsTrue, Init
<1>2. RunInv /\ [Next]_vars => RunInv'
  BY TypeStep, RunsStep DEF RunInv
<1> QED
  BY <1>1, <1>2, PTL DEF Spec

(* However the timer, the startup and the buttons overlap, no job is run    *)
(* twice at a time; the registry and the last jobs:status of every job      *)
(* agree with the rounds that run it, whatever failed on the way.           *)
THEOREM RunsStayRegistered == Spec => []RunsAreRegistered
BY RunInvariant, PTL DEF RunInv, RunsAreRegistered

-----------------------------------------------------------------------------
LEMMA BrowserStep ==
  ASSUME BrowserInv, [Next]_vars
  PROVE  \A s \in Round : HeldByRun(s)'
<1> USE DEF BrowserInv, HeldByRun, At, GoTo, RunPC, InRun, browsers, TypeOK
<1>1. ASSUME NEW r \in Round, StartRound(r) PROVE \A s \in Round : HeldByRun(s)'
  BY <1>1 DEF StartRound
<1>2. ASSUME NEW r \in Round, NEW jobs \in SUBSET Job, TakeJobs(r, jobs)
      PROVE  \A s \in Round : HeldByRun(s)'
  BY <1>2 DEF TakeJobs, Between
<1>3. ASSUME NEW r \in Round, EndRound(r) PROVE \A s \in Round : HeldByRun(s)'
  BY <1>3 DEF EndRound
<1>4. ASSUME NEW r \in Round, NEW j \in Job, NEW providers \in 0..MaxProviders,
             ExecuteJob(r, j, providers)
      PROVE  \A s \in Round : HeldByRun(s)'
  BY <1>4 DEF ExecuteJob
<1>5. ASSUME NEW r \in Round, FinishJob(r) PROVE \A s \in Round : HeldByRun(s)'
  BY <1>5 DEF FinishJob, Between
<1>6. ASSUME NEW r \in Round, NEW ok \in BOOLEAN, SettingsRead(r, ok)
      PROVE  \A s \in Round : HeldByRun(s)'
  BY <1>6 DEF SettingsRead
<1>7. ASSUME NEW r \in Round, ReplaceBrowser(r) \/ Replaced(r)
      PROVE  \A s \in Round : HeldByRun(s)'
  BY <1>7 DEF ReplaceBrowser, Replaced
<1>8. ASSUME NEW r \in Round, LaunchBrowser(r) PROVE \A s \in Round : HeldByRun(s)'
  BY <1>8 DEF LaunchBrowser, NextProvider
<1>9. ASSUME NEW r \in Round, Launched(r) PROVE \A s \in Round : HeldByRun(s)'
  BY <1>9 DEF Launched
<1>10. ASSUME NEW r \in Round, LaunchFailed(r) PROVE \A s \in Round : HeldByRun(s)'
  BY <1>10 DEF LaunchFailed, NextProvider
<1>11. ASSUME NEW r \in Round, ExecuteProvider(r) \/ ProviderDone(r) \/ ProviderFails(r) \/ Hang(r)
       PROVE  \A s \in Round : HeldByRun(s)'
  BY <1>11 DEF ExecuteProvider, ProviderDone, ProviderFails, Hang, NextProvider
<1>12. ASSUME NEW r \in Round, BeginClose(r) PROVE \A s \in Round : HeldByRun(s)'
  BY <1>12 DEF BeginClose
<1>13. ASSUME NEW r \in Round, NEW dies \in BOOLEAN, LoseBrowser(r, dies)
       PROVE  \A s \in Round : HeldByRun(s)'
  BY <1>13 DEF LoseBrowser
<1>14. ASSUME NEW j \in Job, ToggleJob(j) PROVE \A s \in Round : HeldByRun(s)'
  BY <1>14 DEF ToggleJob
<1>15. CASE BeginShutdown \/ Exit \/ UNCHANGED vars
  BY <1>15 DEF BeginShutdown, Exit, vars
<1>16. ASSUME NEW r \in Round, SnapshotClosed(r) PROVE \A s \in Round : HeldByRun(s)'
  BY <1>16 DEF SnapshotClosed
<1>17. CASE StartAgain
  BY <1>17 DEF StartAgain
<1> QED
  BY <1>1, <1>2, <1>3, <1>4, <1>5, <1>6, <1>7, <1>8, <1>9, <1>10, <1>11, <1>12, <1>13, <1>14,
     <1>15, <1>16, <1>17 DEF Next, Walk, Run

(* No Chromium outlives the run that started it: the finally closes what    *)
(* is left, connected or not, and a launch that fails leaves nothing.       *)
THEOREM NoBrowserOutlives == Spec => []NoBrowserOutlivesItsRun
<1>1. Init => BrowserInv
  <2>1. Init => TypeOK
    BY ExecutionAssumption DEF Init, TypeOK, PC, RunPC, IdleRound
  <2>2. Init => \A r \in Round : HeldByRun(r)
    BY DEF Init, HeldByRun, IdleRound
  <2> QED
    BY <2>1, <2>2 DEF BrowserInv
<1>2. BrowserInv /\ [Next]_vars => BrowserInv'
  BY TypeStep, BrowserStep DEF BrowserInv
<1>3. BrowserInv => NoBrowserOutlivesItsRun
  BY DEF BrowserInv, TypeOK, HeldByRun, NoBrowserOutlivesItsRun, InRun, RunPC
<1> QED
  BY <1>1, <1>2, <1>3, PTL DEF Spec

-----------------------------------------------------------------------------
(* Until the shutdown takes its snapshot, an open browser is registered, or *)
(* its own run is closing it.                                               *)
OpenIsRegistered ==
  shutdown = "no" => \A r \in Round : browser[r] = "open" => r \in registered \/ round[r].pc = "closing"

OpenInv == TypeOK /\ OpenIsRegistered /\ NothingOpensLate

LEMMA OpenStep ==
  ASSUME OpenInv, [Next]_vars
  PROVE  OpenIsRegistered' /\ NothingOpensLate'
<1> USE DEF OpenInv, OpenIsRegistered, NothingOpensLate, At, GoTo, TypeOK
<1> DEFINE Goal == OpenIsRegistered' /\ NothingOpensLate'
<1>1. ASSUME NEW r \in Round, StartRound(r) PROVE Goal
  BY <1>1 DEF StartRound, browsers
<1>2. ASSUME NEW r \in Round, NEW jobs \in SUBSET Job, TakeJobs(r, jobs) PROVE Goal
  BY <1>2 DEF TakeJobs, Between, browsers
<1>3. ASSUME NEW r \in Round, EndRound(r) PROVE Goal
  BY <1>3 DEF EndRound, browsers
<1>4. ASSUME NEW r \in Round, NEW j \in Job, NEW providers \in 0..MaxProviders,
             ExecuteJob(r, j, providers)
      PROVE  Goal
  BY <1>4 DEF ExecuteJob, browsers
<1>5. ASSUME NEW r \in Round, FinishJob(r) PROVE Goal
  BY <1>5 DEF FinishJob, Between
<1>6. ASSUME NEW r \in Round, NEW ok \in BOOLEAN, SettingsRead(r, ok) PROVE Goal
  BY <1>6 DEF SettingsRead, browsers
<1>7. ASSUME NEW r \in Round, ReplaceBrowser(r) \/ Replaced(r) PROVE Goal
  BY <1>7 DEF ReplaceBrowser, Replaced
<1>8. ASSUME NEW r \in Round, LaunchBrowser(r) \/ LaunchFailed(r) PROVE Goal
  BY <1>8 DEF LaunchBrowser, LaunchFailed, NextProvider
<1>9. ASSUME NEW r \in Round, Launched(r) PROVE Goal
  BY <1>9 DEF Launched
<1>10. ASSUME NEW r \in Round, ExecuteProvider(r) \/ ProviderDone(r) \/ ProviderFails(r) \/ Hang(r)
       PROVE  Goal
  BY <1>10 DEF ExecuteProvider, ProviderDone, ProviderFails, Hang, NextProvider, browsers
<1>11. ASSUME NEW r \in Round, BeginClose(r) PROVE Goal
  BY <1>11 DEF BeginClose
<1>12. ASSUME NEW r \in Round, NEW dies \in BOOLEAN, LoseBrowser(r, dies) PROVE Goal
  BY <1>12 DEF LoseBrowser
<1>13. ASSUME NEW j \in Job, ToggleJob(j) PROVE Goal
  BY <1>13 DEF ToggleJob, browsers
<1>14. CASE BeginShutdown
  BY <1>14 DEF BeginShutdown
<1>15. CASE Exit \/ UNCHANGED vars
  BY <1>15 DEF Exit, vars, browsers
<1>16. ASSUME NEW r \in Round, SnapshotClosed(r) PROVE Goal
  BY <1>16 DEF SnapshotClosed
<1>17. CASE StartAgain
  BY <1>17 DEF StartAgain
<1> QED
  BY <1>1, <1>2, <1>3, <1>4, <1>5, <1>6, <1>7, <1>8, <1>9, <1>10, <1>11, <1>12, <1>13, <1>14,
     <1>15, <1>16, <1>17 DEF Next, Walk, Run

(* A launch that ends during the shutdown opens nothing: what is open then  *)
(* is the shutdown's to close, or its own run's.                            *)
THEOREM OpensNothingLate == Spec => []NothingOpensLate
<1>1. Init => OpenInv
  <2>1. Init => TypeOK
    BY ExecutionAssumption DEF Init, TypeOK, PC, RunPC, IdleRound
  <2> QED
    BY <2>1 DEF Init, OpenInv, OpenIsRegistered, NothingOpensLate
<1>2. OpenInv /\ [Next]_vars => OpenInv'
  BY TypeStep, OpenStep DEF OpenInv
<1>3. OpenInv => NothingOpensLate
  BY DEF OpenInv
<1> QED
  BY <1>1, <1>2, <1>3, PTL DEF Spec
=============================================================================
