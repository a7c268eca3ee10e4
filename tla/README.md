# Fredy in TLA+

Fredy watches real-estate portals. A job runs its searches every few minutes,
stores the adverts nobody had stored, hides copies and adverts that miss the
user's criteria, and sends one notification with the rest. Around that loop a
single Node process keeps what it stored up to date: whether an advert is still
online, what it costs, where it is, what it looks like.

This directory holds the modules that model that process, the TLC
configurations that check them, and proofs of their invariants. Line numbers
below and in `PROJECT.json` are those of the sources the modules were written
from; the `map` in `PROJECT.json` names the lines behind every definition.

## Contents

- [The system](#the-system)
- [Conventions of the models](#conventions-of-the-models)
- [Modules and how they correspond to the code](#modules-and-how-they-correspond-to-the-code)
- [Runs](#runs)
- [Fairness](#fairness)
- [Proofs](#proofs)
- [Divergences met while modelling](#divergences-met-while-modelling)
- [Only model-checked, not modelled](#only-model-checked-not-modelled)
- [Plan](#plan)
- [How to run](#how-to-run)

## The system

One Node process, one SQLite database, and Chromium processes it launches.
`index.js` runs the migrations, starts the API, the cron tasks and the job
scheduler. SQLite is used synchronously (better-sqlite3): a statement or
transaction is atomic, and several of them without an `await` in between are
one turn of the event loop, which no other handler interrupts but a kill can
end. Everything hard in this program comes from two facts: what is read before
an `await` is used after it, and each statement commits on its own.

### Inventory

| Component | State it keeps | Operations | Interacts with | Hard because | Correct when |
|---|---|---|---|---|---|
| Job run and similarity filter (`FredyPipelineExecutioner`, `similarityCache`, `listingFingerprint`, `manualListingService`) | `listings`; in memory the exact hashes with their counts and the buckets of fingerprints | fetch, find new, store, compare, hide, announce; add by URL; delete, restore; hourly reload | portals, geocoder, notification adapters, price tracking | hashes are read long before the store; rows are hidden after they were stored; the cache is maintained by hand beside the table | nothing is announced twice; nothing a visible twin exists of is announced; nothing is hidden without a twin |
| Alive check and retention (`listingActiveService`, `listing-retention-cron`) | `is_active`, the failure streak, the two dates, the mark of a correction by hand | select due rows, probe, three statements; correct by hand; nightly purge | portals, watch list, attachments | probes take minutes; a limit per run; three statements | offline only for cause; corrections stand; the purge counts real days; every due row gets a turn |
| Price tracking (`priceTrackingService`, `priceHistoryService`) | `price`, the row's hash, `listing_price_history`, `last_price_check_at` | tracker's sweep; the job run's price changes; announcement | portals, adapters | two writers with stale snapshots; two statements per change | chart and price agree; the price ends at the portal's; a quiet portal is not announced |
| Settings (`settingsStorage`) | table, cached object, generation | get, refill, upsert, restore | everyone | refills wait for `config.json` while others save | no stale value is served after a save |
| Preview captures (`previewCaptureQueue`, `listingMediaStorage`) | queue, pending set, running count, `listing_media` | enqueue, drain, capture, wait for idle | views of a listing, downloads | a counter and a set kept by hand across awaits | one capture per listing; bounded; nothing waits for ever |
| Job execution (`jobExecutionService`, `run-state`, `puppeteerExtractor`, `shutdown`) | the run registry, the timer, open browsers | rounds by timer, by event and for one job; provider loop; replace and close browsers; shutdown | job run, bus, SSE | overlapping rounds; throws anywhere; browsers die | one run per job; every mark cleared; no browser left behind |
| Listing location (`geocoding-cron`, `geoCodingService`, `distanceService`, `detailRefetchService`, the listing routes) | address, coordinates, the pin by hand, distances | sweep, look up again, fetch details again, set by hand | geocoder, portals | four writers, one row, minutes in between | the pin stands; distances match the place |
| Travel times and commute (`travelTimeSweeper`, `travelTimeService`) | a journey per address, the stamp and the failure count of a listing | sweep, job run, the page that refines, edits of the addresses, pruning | routing services, location, commute budget of the job run | three hands replace all journeys of one listing by what each believes; half of an answer may be missing | journeys start where the listing is; done means answered; what still holds is kept |
| Points of interest | a cache table | read through | Overpass | coalescing | — |
| Connectivity (`connectivitySweeper`, `connectivityService`, `connectivityCache`) | a column and a date per row; in memory the cache of answers and failures and the registers that stand off | sweep, cache, switches, pause after a refusal | public registers, location | a failure looks like an empty answer; the list of a run is limited | outages are not stamped as answers; every listing gets its turn |
| Backup, restore, migrations (`backupRestoreService`, `migrate`, `SqliteConnection`) | the database file, its log, the safety copy, `schema_migrations` | zip, precheck, checkpoint, copy, swap, migrate, start | every reader and writer | a kill at every step; requests are served while migrations are awaited | nothing that was in use is lost; migrations leave no gap; requests see the schema of this version |
| Jobs, users, sessions, adapters (`userStorage`, `sessionStore`, `security`, the login and user routes) | tables; the sessions loaded by requests in flight | CRUD, login, logout, a proxy's identity, new password, new role, expiry | API | a request saves a session after it was ended; checks before a hash is awaited | an ended session stays ended; a replaced password signs nobody in; somebody administers |
| Host pacer | a chain of promises per host | schedule | probes | a failing task must not block the chain | requests are spaced |
| Notifications | — | send, test | adapters | one of several fails | — |
| Portals (providers, extractors, translators) | — | translate, fetch, parse | the portals | the portals are the reference | — |
| HTTP API | — | routes | everything | — | — |
| Server-sent events, event bus | open responses | register, send, prune | job execution | pruning while iterating | — |
| MCP server and OAuth (`mcpOAuthStorage`, `mcpOAuthRoute`, `jobDraftStore`, `mcpAdapter`) | clients, codes, pairs of tokens in families; the draft of each user | register, consent, exchange, refresh, revoke, sweep; the interview and the job it makes | API, job storage | lost answers and retries look like replays; calls of one connection overlap | a code is exchanged once; an ended family never calls; an interview makes one job |
| Market benchmark, scam signals, finance (`affordability`, `listingFilter`, `calculate`) | the profile of a household | thresholds, verdicts, the filter's windows | listings query, detail page, jobs | four places compute one verdict | filter, chip, scan and card agree |
| Demo, tour, tracking | demo rows | seed, sweep | jobs | — | — |
| Letters, attachments, debug log | files, a ring of lines | CRUD | — | — | — |
| User interface (`store.js`, `App.jsx`, the login view) | one store per tab; the tickets of requests; flags | load, save, sign in, sign out, be turned down | HTTP API, the cookie all tabs share | answers arrive late, out of order or never | the store is of the account signed in; what is shown is what is stored |

How they interact: the job scheduler calls the job run for each provider; the
job run writes `listings`, tells the similarity cache, and after it calls for
geocoding, travel times and connectivity. Cron tasks read a batch of rows, wait
for outside services and write by row id. The API writes the same rows at any
moment. Only the similarity cache, the settings cache, the run registry, the
set of open browsers and the capture queue live in memory; a restart loses
them, and `index.js` builds the first from the table again. The cache of the
registers' answers, the job drafts and the sessions that requests have loaded
are in memory too; the first two are lost, the last were saved or never count.

## Conventions of the models

- **Grain.** An action is one turn of the event loop, or one statement of a turn
  where a kill between two statements leaves something behind. While a process
  is inside such a turn the predicate `LoopFree` is false and no other process
  moves; only `Restart` may. `Restart` is always the kill at that point followed
  by what `index.js` does.
- **Data.** An advert, a job, a listing is a model value. A hash, a fingerprint
  or an address is what the code compares it by. What a portal, a geocoder or a
  user answers is chosen with `\E`.
- **Names** are the source's where there is one: `CheckAndAddEntry` is
  `checkAndAddEntry`, `RecordFailures` is `recordActiveCheckFailures`.
- **History variables** (`announced`, `disturbed`, `misses`, `offline`, `raced`,
  `excuse`, `told`, `early`, `adrift`, `torn`, `late`, `crowded`, `ended`,
  `crossed`, `excused`, `overtaken`, `behind`, `switched`, `blurred`) are read by
  properties and by no guard.
- **What is never answered.** Where the code awaits a request that has no signal
  and no timeout, an action `Hang` may happen to it and is never fair: the await
  does not settle, and what is queued behind it stays there until a restart.
- **Operators commented `A bug:`** (and the `…Always`, `…Unguarded` forms) are
  forms a definition could plausibly have had by mistake. No action uses them;
  each shows that the property beside it in `PROJECT.json` would notice.

## Modules and how they correspond to the code

### ListingDedup, AdvertPromise

One search job. `rows` is the `listings` table under its unique index
`(job_id, hash)`; `count` and `buckets` are the two tiers of the similarity
cache; `run` is the job run between its awaits; `add` the advert being added by
URL.

| Action | Code |
|---|---|
| `FindNew` | `_getListings`, `_normalize`, `_filter`, `_findNew`: the hashes known now, soft-deleted rows included |
| `Save` | `_save` after the details and the geocode: an upsert that leaves a known row alone |
| `FilterSimilar` | one turn of `_filterBySimilarListings`: exact hash, then the buckets; a listing that is new is added |
| `DropFiltered` | the duplicates, then what is outside the area, are soft-deleted |
| `Notify`, with `HoldBack` | the travel times were awaited; the commute budget, then the adapters |
| `HandleError` | `NoNewListingsWarning`, or a step before `_save` or in the routing that threw |
| `BlockThrows` | a throw in the block after `_save`: rows are stored, and some of them compared with nothing |
| `AddStart`, `AddRead`, `AddStore`, `AddFail` | `manualListingService` and `ingest` |
| `SoftDelete`, `HardDelete`, `Restore` | the API; a hard delete evicts what was visible, the others do not tell the cache |
| `Reload`, `Restart` | the hourly reload, and `index.js` |

`AdvertPromise` is the abstract specification: an advert is unknown, stored,
announced. `KeepsPromise` is that specification under the mapping `StageOf`: a
row that exists and was announced is announced, one that exists is stored.

### ListingLifecycle

A row from its first alive check to its purge. `check` is the check in flight
with the batch it read; `StartCheck` is the due query with its order and limit,
`Answer` a probe, `RecordFailures`, `DeactivateListings` and
`MarkListingsChecked` the three statements of the block a check ends with,
`Reactivate` the correction by hand, `Purge` the nightly task. `Hang` is a probe
the portal takes and never answers: `listingActiveTester.js:43` fetches without a
signal, so the check never ends and its guard drops every later one. `Tended` are
the rows that users watch, correct and give documents to (a bound). `ahead` is the
order of `last_checked_at`, which the query sorts by, rows written by one
statement side by side; ages are counted in
days up to the window they are compared with (`Tick`).

### PriceTracking

The two lanes that learn a price. `tracker` is `runPriceTracker` with the rows
as its query returned them; `scrape` is the job run that found a known advert
under a new hash (`_splitOffPriceChanges`), with the rows as it read them. Both
call `Record`: `recordPriceChange`'s observation and update. `RestartTorn` is
the kill between the two; the price of one lane, the hash of the row and the
chart move separately. The rest are the portal (`Reprice`), the interval
(`Expire`) and users.

### SettingsCache

`read` is every call of `getSettings` and every restore in flight, with the rows
and the generation it took before it waited for `config.json`. `ConfigRead`
fills the cache only if the generation is still the one taken; `UpsertSettings`
clears it and raises the generation; `UpsertThrows` is a save of several names
that stopped half way; `SwapDatabase`, `Migrate` and `RefreshAfterRestore` are
the restore's steps as far as the cache can tell. It is checked and proved as a
part of `Services`.

### PreviewCaptureQueue

Every operation of the queue: `EnqueuePreviewCapture`, `Drain` with `Begin`,
`EndCapture` (the download settled), `Finally` (the handler that frees the
place, drains and tells the waiters), `WhenPreviewCapturesIdle`; and what
happens to the listing meanwhile.

### JobExecution

A round is the timer's, or one started by the bus, by a user or at startup
(`Manual`). `TakeJobs` reads the enabled jobs; `ExecuteJob` skips a job that is
marked, and marks it otherwise; from there a run asks for the settings, replaces
a lost browser, launches one, runs a provider, and in its `finally` closes the
browser and clears the mark (`FinishJob`). `Hang` is a pipeline that waits for an
answer that never comes: the adapters of Telegram, Discord and ntfy fetch without
a signal. The run stays marked, and a timer's round that waits for it never ends.
`LoseBrowser` is Chromium going away
at any point, alive but unconnected or dead. `BeginShutdown`, `SnapshotClosed`
and `Exit` are `shutdown.js`.

### ListingLocation

The four hands on a listing's place: the geocoding sweep, the button that looks
an address up again, the button that fetches the detail page again, and the
user's own pin (`PlaceByHand`). `sweep`, `lookup` and `details` keep what each
read before it waited. Coordinates and the distances measured from them are two
statements; `PlaceTorn` and `LookupTorn` are the kills in between. A hand can
find the coordinates of any row that carries the address (`Known`), as
`getGeocoordinatesByAddress` does. Two runs can find one advert new: the first
stores it (`Insert`), the other gets the id of that row from `storeListings`'
conflict path and writes the distances of the place *it* found (`InsertAgain`;
`twice` is the rows such a run is still to store). What is safe about it is checked and proved as
a part of `Services`; `MCListingLocation` adds the fairness of its liveness.

### TravelTimes

One listing and the hands on its journeys: the sweep (`StartSweep`), the runs
that found it (`Run`: `Find`, `Insert`, `JobGoesOn`), and the page that shows it
(`OpenPage`, `Refined`). A run whose `Insert` meets the row of another goes on from
the place it scraped, wherever the row stands, as `_calculateTravelTimes` does.
What a hand keeps of an old row it words anew (`Reworded`: mode and reference time
are those of now). `Update` is `updateListing` up to its save: it keeps
what `StillValid` says still holds, asks for the rest (`Outcomes` is what the
services can answer, an outage per address included) and leaves a plan;
`Save` writes it in one transaction. `PlaceByHand`, `LookUp`, `EditAddresses`,
`TakeOut`, `PutBack`, `Delete` and `Restart` are what happens meanwhile. A
label's origin is told apart by how it is reached: by rail (stops looked up once
per run), by road, or a kind of place near the listing.

### Connectivity

`Backlog` is the due query with its order (`Before`) and limit; `StartSweep`,
`Choose` and `Ask` are the sweep up to its request, with the settings and the
pause as they are at that moment. What comes back is an answer (`Answered`), half
of one whose other request failed (`HalfAnswered`), a refusal (`Refused`, also a
failed half with nothing in the other), or an error with status 200
(`ErrorPassedOn`): the clients in `Glossing` read such a body as an answer with
nothing in it, pause nothing, and the sweep stamps the listing. `Forget` are the
two lifetimes of the cache. A building is what the cache knows a place by.

### Accounts, OAuthGrants, JobDrafts, Restore, ClientStore, FinanceVerdicts

Six modules without shared state. `Services` composes them with `SettingsCache`
and `ListingLocation`, side by side: a behaviour of it is a behaviour of the one
part it begins with, and the variables of the other seven are "off". `MCServices`
is its instance, `Services_proofs` its proofs.

| Module | State and actions |
|---|---|
| `Accounts` | `account` and `rows` are the two tables, `req` the requests in flight with the session each has loaded. `Arrive`, `SignedIn`, `Leave` and `Respond` are the hooks around a route and the saves of the session library (external); `Login`, `RightPassword`, `WrongPassword`, `ProxyAuth`, `Logout`, `SaveUser`, `PasswordHashed` and `RemoveUser` the routes, cut at their awaits; `Touched`, `Older` and `SweepExpiredSessions` the lifetimes. |
| `OAuthGrants` | clients, codes and numbered pairs of tokens. One action per transaction of `mcpOAuthStorage`: `RedeemAuthorizationCode`, `Rotate`, `Replay`, `RevokeGrant`, `SweepExpired`; `RemoveHolder` is the cascade of a removed account. A client may use whatever it ever held, so lost answers and retries are there. |
| `JobDrafts` | the draft of each user, the calls that create a job with what each read before it waited. `Applied` is `applyDraftUpdate` with its question of refinements; `ReadDraft` and `CreateJob` the two sides of the await. |
| `Restore` | the file with whose rows and which migrations it has, the log, the safety copies, and what each restore is about to do: `Begin`, `Checkpoint`, `Close`, `KeepCopy`, `RemoveWalSidecars`, `StartCopy`, `Reopen`, `Migrate`. What the code only logs may fail and go on (the checkpoint, the safety copy, the removal of the log), what throws ends the restore and leaves the process (`CloseThrows`, `CopyThrows`: an untouched, torn or missing file). A log that is still there spoils the new file in `Reopen`. `Start` and `Kill` are the process. |
| `ClientStore` | the store of one tab, the requests under way, the session the cookie carries. `GetList`, `GetUserSettings`, `SetSetting`; `Answered`, `Refused` and `Lost`; `SessionChanges` is another tab. |
| `FinanceVerdicts` | a profile, changed section by section, and a listing. The thresholds, the verdict of the chip, the windows of the filter, the scan of a new listing and the card, each as its own operator translated from its own file. Amounts are exact; what the code's doubles decide otherwise is what is exactly equal, and there `Rounded` says for a household which comparisons turn (`Fits`, `Carries`), in any way in which a larger ceiling is not rounded below a smaller one. |

## Runs

`MC*` modules hold the instances; each `.cfg` is one run. State counts are of
one complete run. Every property of a passing run is paired in `PROJECT.json`
with a plausible bug that breaks it under the same configuration.

| Run | Shows | Instance and bounds | Why that is enough |
|---|---|---|---|
| `dedup` (451,992 states) | `AnnouncedOnce`, `CacheCoversVisible`, `KeptIsNovel`, `HardDeleteKeepsExact`, `KeepsPromise` | three adverts of two providers: `a`, `b` are exact twins across portals, `c` is their flat under another headline; one bucket of one fingerprint | both tiers have a pair, the bucket overflows, one provider's page and the next's and an add by URL overlap; a fourth advert repeats a pair. All of them are proved for any number |
| `lifecycle` (194,524) | `TypeOK`, `RetentionClockHonest`, `DeactivatedForCause`, `LaterChecksRespectCorrection`, `NothingStarved` | two rows, and a third whose provider has no probe (`Unprobed`); `Limit` 2, `FailureLimit` 2, an answered row due again after 2 days (`Stale`), a silent one after 1 (`Retry`), purged after 1 (`Retention`); users touch one row (`Tended`) | the row without a probe keeps one place of the batch for good and the other two share the second; a streak has a beginning and an end, every window is smaller than the run is long. The middle three are proved for all values |
| `price` (139,535) | `CurrentIsLastPoint`, `PriceCatchesUp`, `QuietPortalQuietFredy` | one advert, prices 100, 102 and 120 with a threshold of 5 %, and none; at most 2 moves of the portal (`MaxMoves`) | a small move, a notable move, and a second one under way; the lanes touch each advert's row alone. `CurrentIsLastPoint` is proved for all sets |
| `preview` (81,125) | `CapturedOnce`, `QueueIsSound`, `FetchStillWanted`, `EveryCaptureEnds`, `WaiterIsTold` | four listings, two places, two queue slots | places and queue full, in two orders, and one more that asks: a queue that took its last entry first would keep the other waiting for ever. The invariants are proved for all values |
| `jobs` (232,560) | `RunsAreRegistered`, `NoBrowserOutlivesItsRun`, `NothingOpensLate`, `EveryJobRuns` | two jobs, the timer's round and one more, up to two providers | two rounds meet on a job in both orders; a browser is replaced between two providers. All but `EveryJobRuns` are proved for all values |
| `location` (3,265) | `EveryRowIsAskedAbout` | one row, two addresses and "no such place"; one second run that found it new | all hands write by row id; of other rows only an address's known coordinates matter, which `Known` chooses |
| `travel` (569,868) | `JourneysStand`, `ValidJourneysStay` | one listing, two places (interchangeable: `SYMMETRY`), two lists of addresses with one reached by stops and street and a kind of place among them; two hands at a time (`MaxBusy`), two runs (`Run`), one move, edit or store over an existing row (`MaxEvents`), a listing given up after one failure (`Limit`) | hands write by the listing's id, so listings do not meet; the move or the edit falls between every read and every save of two overlapping hands, and an outage hits one of two addresses. A mode that changes under an origin that stays needs a road beside the rail, which only the proofs have. Both are proved for all values and any number of hands |
| `connectivity` (369,504) | `TypeOK`, `NothingMeansNothing`, `BacklogDrains` | two listings; a building the register knows, one it knows nothing of, one without a register; the register refuses, halves its answers and sends errors as answers; one listing per run (`Limit`) | the second listing waits behind the first, a failure is met through the cache of another's building. `NothingMeansNothing` is proved for all values |
| `services` (1,090,350) | `AccountsSound`, `EndedStaysEnded`, `GrantsSound`, `SweepCostsNothing`, `DraftsSound`, `RestoreSound`, `StoreSound`, `ListNeverGoesBack`, `VerdictsAgree`, `CacheIsCurrent`, `LocationSound`, `LaterAnswersKeepThePin` | two accounts or addresses, session ids, codes, requests or calls of each part, one restore of the settings, one draft's user, one listing; three pairs of tokens (`MaxPairs`), two interviews, two restores over two migrations, two tickets, three writes of the settings over three contents; five households, rounded in different ways, and fifteen prices on and beside every ceiling | every pair of steps of two actors; a rotation of a rotation; a restore of a restore; a refill across a write or a restore; all the arithmetic's branches. All of them are proved for all values |
| `dedup_ghost` | a violation: see below | as `dedup`, buckets of two | |
| `lifecycle_starved` | a violation: see below | one row, one without a probe, `Limit` 1 | |
| `finance_card` | a violation: see below | the households of `services`, with nothing rounded | |

Type correctness is checked on its own in `lifecycle` and `connectivity`, and as a
part of the invariants of `travel` and `services`. The other runs leave it to the
proofs.

The properties in words, and why they are the ones:

- `AnnouncedOnce` relates a history of notifications to rows that runs, users,
  restarts and restores touch. `KeepsPromise` says the same as a refinement, and
  that only a hard delete makes an advert unknown again.
- `CacheCoversVisible` is the coupling of an in-memory counter with the table it
  shadows: between two disturbances no visible row is missing. `KeptIsNovel` is
  what the coupling is for. `HardDeleteKeepsExact` is the eviction's half of it.
- `DeactivatedForCause` counts probes independently of the code's counter.
  `RetentionClockHonest` counts days independently of `inactive_since`.
- `NothingStarved` has a row nobody can probe at the front of the order for good,
  and says that the others still get their turns.
- `PriceCatchesUp` says that lost races are repaired: for a row that stays visible
  and whose page the tracker reads again and again, in executions that are not
  killed for ever in the middle of a recording. Which rows the tracker's limited
  query takes is not its subject.
- `CacheIsCurrent` holds unless something went past `upsertSettings`;
  `RefillsAreCurrent` is the reason, about refills that have not ended yet.
- `QueueIsSound` is the pool's contract: never more captures than places, never
  fewer than the work allows, and no waiter forgotten.
- `RunsAreRegistered` relates the registry, what users were told, and where rounds
  are, across every throw.
- `LocationSound` relates two columns four hands and the runs write. It excepts what
  `adrift` names: a late answer of the sweep, a kill between two statements, and a
  second run that measured from the place it scraped.
- `JourneysStand` relates what is stored of a listing's journeys to where it is and
  to what its owner wants, which move on their own; `ValidJourneysStay` says of
  what a hand saves that it loses nothing that held when it began.
- `NothingMeansNothing` holds the stored answer against what the register knows,
  through a cache that holds failures as empty answers. It excepts the answers a
  glossing client made of an error (`excused`), and is strict about all others.
- `AccountsSound` and `EndedStaysEnded` are about sessions that live twice: in the
  table, and in the requests that loaded them.
- `GrantsSound` holds however often a code or a token is sent again.
- `RestoreSound` holds at every kill between two steps and whatever step fails. A
  torn or spoiled file serves no promise but one: the database before it has its
  safety copy, unless that copy or the checkpoint was what failed.
- `StoreSound` and `ListNeverGoesBack` hold for every order of answers.
- `VerdictsAgree` compares computations that are written more than once. Filter and
  chip agree at every boundary however it is rounded, because they read the same
  numbers; the scan reckons the other way round and agrees except exactly on a
  limit (`OnALimit`).

## Fairness

Only the runs that check liveness assume any, and each in its `FairSpec`.

- `lifecycle`: the cron fires, a probe the portal does answer ends (its attempts are
  counted), a synchronous block runs to its end, days pass. No probe is assumed to
  be answered: `Hang` is never fair, and `NothingStarved` says `Stuck` of what
  follows.
- `price`: only that a page which was read is recorded and that a block, once
  begun, is run to its end: there is no await in between. Neither rounds, nor
  batches, nor answers are assumed; that the tracker goes on reading a row's page
  is a premise of `PriceCatchesUp` (`KeepsReading`), because the limited query need
  not come to the row (`priceTrackingService.js:72`).
- `preview`: a download is aborted after ten seconds, so it settles, and the
  handler of a settled promise runs.
- `jobs`: the timer reschedules itself when its round ends; settings, launches, page
  loads and a browser's close have timeouts, and a pipeline that does not hang is
  done; strong fairness of the timer's round falling into the working hours now and
  then. A pipeline may hang at any time, since adapters fetch without a signal:
  `EveryJobRuns` says `HungFor`. No fairness of manual rounds starting, of
  shutdowns, or of a job being enabled.
- `connectivity`: the cron fires; a stand-off ends; strong fairness of the sweep's
  steps, because a kill may end a sweep at any of them but not at the same one
  for ever; of a register that is asked again and again, that it answers in full
  some day. Nothing is assumed of switches: `BacklogDrains` has them on for good.
- `location`: the cron fires; the geocoder's client gives up after a minute; of
  a geocoder that is asked for ever, that it answers now and then.

Where a user or a kill could undo progress for ever, or an await never ends, the
property says so (`Disturbed`, `Stuck`, `HungFor`, `KilledRecording`,
`KilledSweeping`), and does so in terms of the action that does it.

## Proofs

`*_proofs` modules hold the theorems, checked by the TLA+ proof system with SMT,
Zenon and LS4. They hold for every value of the constants the module's
assumption admits.

| Module | Assumption | Inductive invariant | Theorems |
|---|---|---|---|
| `ListingDedup_proofs` | `AdvertAssumption`: finitely many adverts, each with a provider, a hash, a flat and a bucket or none | `AnnouncedInv`, `CoverInv` | `TypeCorrect`, `AnnouncedAtMostOnce`, `CacheCovers`, `KeepsOnlyNovel`, `EvictionIsExact`, `JobKeepsPromise` |
| `ListingLifecycle_proofs` | `LifecycleAssumption`: limits and windows positive, `FailureLimit` above one | `CheckInv` | `TypeCorrect`, `ClockIsHonest`, `OfflineForCause`, `CorrectionRespected` |
| `PriceTracking_proofs` | `PriceAssumption` | `PriceInv` | `TypeCorrect`, `ChartEndsAtPrice` |
| `PreviewCaptureQueue_proofs` | `QueueAssumption` | `QueueInv` | `TypeCorrect`, `CapturesOnce`, `FetchesOnlyWanted`, `QueueStaysSound` |
| `JobExecution_proofs` | `ExecutionAssumption` | `RunInv`, `BrowserInv`, `OpenInv` | `TypeCorrect`, `RunsStayRegistered`, `NoBrowserOutlives`, `OpensNothingLate` |
| `Connectivity_proofs` | `ConnectivityAssumption`: each building has one register or none | `ConnInv` | `TypeCorrect`, `NothingIsAnAnswer` |
| `TravelTimes_proofs` | `TravelAssumption` | `TravelInv` | `JourneysStayStanding`, `NoValidJourneyIsLost` |
| `Services_proofs` | `ServicesAssumption`, `RoundingAssumption` | one per part: `SettingsInv`, `ClientInv`, `DraftsInv`, `GrantsInv`, `FinanceInv`, `AccountsInv`, `RestoreInv`, `LocationInv` | `CacheStaysCurrent`, `StoreStaysSound`, `ListsNeverGoBack`, `DraftsStaySound`, `GrantsStaySound`, `TheSweepCostsNothing`, `VerdictsStayAgreed`, `AccountsStaySound`, `EndedSessionsStayEnded`, `RestoreStaysSound`, `LocationStaysSound`, `PinsStand` |

What the two long assumptions ask for is what the code has. A number that stands
for a count, a price, a rent or a year is a natural number; so is the equity of a
household, which the code never lets fall below zero (`financing.js:122`,
`affordability.js:159`). The names of one kind are not those of another: "nobody"
is no account and a missing journey is no journey. The bounds (`MaxPairs` and the
like) are any natural numbers, so the theorems hold however far they are raised.
`RoundingAssumption` says that rounding keeps two ceilings in their order, which
products and quotients of doubles do.

`PartsApart` is the lemma under the theorems of `Services`: a step leaves the part
a behaviour began with and is a step of that part. Each invariant is therefore
one of its part alone, and the theorem says `part = ... => Inv`.

Why each invariant had to be strengthened:

- **`AnnouncedInv`** = `TypeOK /\ AnnouncedOnce /\ BatchUnannounced /\ HeldStored`.
  That nothing is announced twice depends on what a run has in its hands: what
  it holds and will announce has not been announced, and is still stored.
- **`CoverInv`** = `TypeOK /\ PendingInDedup /\ CacheCoversVisible`. Rows are
  stored before they are compared, so the cache may lag by exactly the rows of
  the turn in progress; between turns there are none.
- **`SettingsInv`** = `TypeOK /\ CacheIsCurrent /\ RefillsAreCurrent`. A cache can
  only stay current if whoever may still fill it has current rows.
- **`QueueInv`** = `TypeOK /\ CapturedOnce /\ CountIsExact /\ NoIdlePlace /\
  FetchStillWanted`. None is inductive alone: what `Drain` begins follows from the
  counter being exact, from no place idling before, and from nothing that waits
  being in flight already. `NobodyWaitsForNothing` follows once these hold.
- **`RunInv`** = `TypeOK /\ OneRunPerJob /\ RunningIsTrue`; `BrowserInv` =
  `TypeOK /\ \A r \in Round : HeldByRun(r)` says that only a run holds a browser,
  and that a live Chromium is held by its run or is just being launched for it.
  `OpenInv` adds that an open browser is registered until the shutdown takes its
  snapshot, or its own run is closing it.
- **`LocationInv`** adds `ReadBefore`, that whoever still has a pinned row in hand
  read it before the pin was set, and `GoneIsLetGo`, that no answer is awaited
  for a row that is gone.
- **`CheckInv`** = `Types /\ Held /\ Clock /\ Streaks /\ Corrected` adds that a
  check holds only rows that are stored, that what it deactivates was answered
  for or has exhausted its streak, that the history's count of silent probes is
  at least the column's, and that a corrected row in a check's hands was
  corrected while it was there. The proof needs `FailureLimit > 1`: with a limit
  of one, a row the user corrects after its probe stayed silent, and before the
  check writes, would go offline for an answer older than the correction. The
  code's limit is 10. `Types` are the types without bounds: that the failures stay
  within `FailureLimit` rests on `Streaks`, so `TypeCorrect` is proved after it,
  with `OrderOfChecks`, that `ahead` is a strict order which agrees with the ages.
- **`ConnInv`** = `TypeOK /\ FailuresStandOff /\ NothingMeansNothing`. What
  is stamped may come from the cache, and the cache holds failures; a failure is
  never handed out because its register stands off for as long as it is cached
  (`FailuresStandOff`), and `Ask` leaves out what stands off.
- **`PriceInv`** adds `Noticed`: what a lane is about to record is stored, or is
  in the set of rows it will find gone.
- **`TravelInv`** adds `Agrees(h)` for each hand. What is stored stands only if what
  is about to be stored does: a hand that read where the listing is, or what its
  owner wants, agrees with both unless something changed since (`since`), and the
  plan it waits with is from here, answers what is wanted and keeps what holds
  (`Good`). `NowhereIsBlank` says that a listing that is not stored has no journeys and
  is in the hands of runs that found it, at most.
- **`ClientInv`**: the store is of its user because every answer still to come is
  (`AnswersAreOfTheUser`); the login screen hides nothing because nothing is under
  way behind it (`NothingBehindTheLogin`); the setting shown is the one stored
  because one request at a time is about it, which carries what the server has once
  it is answered (`OneAtATime`, `AnsweredIsStored`).
- **`DraftsInv`**: an interview belongs to one user, in the draft or in the calls that
  read it (`InterviewsAreOwned`); nothing is left of one that was saved
  (`NothingIsLeft`); the draft still has the answers a waiting creation read, unless
  the two crossed (`NothingOvertook`). `EveryoneHeard` carries `ReadyMeansAsked`.
- **`GrantsInv`**: a family is one consent with one client and one account
  (`FamiliesAreConsents`), redeemed from a code that is gone; only its last pair has a
  token that is good for a refresh (`LastIsLive`); a pair that calls has one in its
  family that refreshes (`FamilyIsListed`); a code still pending is of an account and
  a client that are there (`CodesAreGood`).
- **`FinanceInv`** is typing; the work is arithmetic: the windows of the filter are in
  order because the ceilings are, also where rounding decides (`FitsInOrder`,
  `CarriesInOrder`), and beside the limits the comparison the chip makes and the one
  `classify` makes are the same inequality (`ClassifyIs`).
- **`AccountsInv`** adds, for each request in flight, what it has in its hands
  (`InHand`), that the account it signs in to or the administrator it leaves behind is
  there unless it was overtaken (`NotTold`), and that the id of an unanswered sign-in
  has no row and is in no other hand (`OwnId`).
- **`RestoreInv`** adds that one restore runs at a time unless it was overtaken, and
  that what it executed is what the database has (`Alone`); what is safe by the step
  it is at (`HasDone`: the old file is kept or its loss was named before it is
  replaced); what it read (`HasRead`); and, since a step that throws ends a restore
  before it wrote anything, that the database it began with was fit to be served
  (`Steady`).

`JobKeepsPromise` is the refinement: initial states map to initial states, and
every step to `Discover`, `Announce`, `Forget` or a stutter. Its steps are taken
from `AnnouncedInv`, without which the mapping would leave `Stage`.

### What the prover cannot do

Liveness under fairness and `ENABLED` are out of its reach, and so is induction
over data; these stay with TLC. No model needs a recursive operator: the two
limited queries are sets of rows or sequences, stated by their order (`Batches`,
`FirstOf`). Every invariant and every action property a passing run checks is
proved.

## Divergences met while modelling

Three have a run whose counterexample shows them.

| Run | Code | Said elsewhere | What happens |
|---|---|---|---|
| `dedup_ghost` | `listingsStorage.js:1665` | `listingsStorage.js:1653`: evict "so future scans don't immediately soft-delete re-discovered copies" | a listing that was soft-deleted and later deleted for good keeps its count until the reload, and its rediscovery is hidden as a duplicate of nothing |
| `lifecycle_starved` | `listingActiveService.js:120` | `listingsStorage.js:552`: the order is such that "nothing is starved" | a check writes nothing about a row whose provider has no probe, which therefore sorts first at every run; as many such rows as the limit, and a row that was checked once never has its turn again |
| `finance_card` | `calculate.js:74` | `affordability.js:184`: "filter, the verdict chips and the detail card can never disagree" | with a fixed instalment the card judges every price by that instalment, also one the loan never repays; the chip of the same listing says otherwise. In the trace an instalment of 1200 beside an old debt is unaffordable on the card at a price whose chip says stretch |

Others were met on the way, have no run of their own, and are kept apart from
the properties by a named exception (`disturbed`, `raced`, `adrift`, `torn`,
`excuse`, `late`, `crowded`, `crossed`, `excused`, `overtaken`, `behind`,
`switched`, `blurred`, `Stuck`, `HungFor`, `OnALimit`) or left as hazards:

Listings and their place

- `FredyPipelineExecutioner.js:853`: a run in flight stores the advert the user has
  just added by URL, finds it in the cache and hides the user's row, though line
  207 says no filter decides about a listing "the user picked".
- `listingActiveTester.js:43`: a probe fetches without a signal; `Tracker.js:54`
  says of such a call: "without a signal a silent endpoint held the caller
  forever". One that does ends alive checking until a
  restart, since `listingActiveService.js`' guard drops every later check.
- `FredyPipelineExecutioner.js:196`: a throw in the block after `_save` is caught,
  and rows already stored are visible, announced to nobody and not counted by the
  cache until its next reload (`BlockThrows`).
- `listingsStorage.js:1079`: storing an advert another run has just stored returns
  the id of that row, and `FredyPipelineExecutioner.js:716` writes to it the
  distances of the place this run scraped, whatever place the row has.
- `listingsStorage.js:1896`: a sweep that read the row before moves the pin after;
  line 2594 says the mark "is what stops the geocoding sweep from undoing the
  decision later".
- `listingsStorage.js:1993`: a row whose address was changed by its detail page is
  its own answer, with the old coordinates, to `geoCodingService.js:45`: "Check if
  we already have this address geocoded".
- `similarityCache.js:201`: a restored row is not counted, so removing its twin
  can forget the one that stays.
- `similarityCache.js:159`: the exact tier does not look at the provider, so two
  units of one house with one text and price on one portal count as one.
- `listingsStorage.js:685`: a correction made while the check was probing is
  undone by that check's answer.
- `listingsStorage.js:644`: a kill between counting and deactivating leaves a row
  at its limit and listed until the next unanswered check.
- `priceHistoryService.js:63`: both lanes can record one move, which leaves two
  equal points in a chart.
- `priceTrackingService.js:72`: rows of providers without an extractor are
  dropped after the limit was applied.
- `backupRestoreService.js:283`: a refill in flight when the database is swapped
  can serve the old settings until the next save.
- `puppeteerExtractor.js:181`: a browser whose launch resolves after the shutdown
  took its snapshot is closed by its run or by nobody; Puppeteer's own exit hook
  may still end it.
- `detailRefetchService.js:212`: a detail page that was asked for before the user
  set an address overwrites it.
- `geocoding-cron.js:39`: a trigger that arrives during a sweep is dropped.

Jobs

- `FredyPipelineExecutioner.js:594`: a run awaits its adapters, and those of Telegram
  (`telegram.js:173`), Discord (`discord_webhook.js:129`) and ntfy (`ntfy.js:95`)
  fetch without a signal. One that is never answered keeps its job running and, in
  a round of the timer, every other job waiting until a restart.

Travel times

- `travelTimeSweeper.js:869`: journeys from the old coordinates are saved after
  the user moved the listing; a lookup that moves it leaves its journeys.
- `FredyPipelineExecutioner.js:755`: a run that meets the row of another asks from the
  place it scraped and saves the journeys under that row.
- `travelTimeSweeper.js:869`: a listing with two addresses is stamped for the month
  when one of the two could not be asked about and the other was answered.
- `travelTimeSweeper.js:1044`: the page keeps the minutes of an estimate under an
  address that was changed meanwhile.
- `travelTimeSweeper.js:1146`: a deleted listing makes the save throw on the foreign
  key, and the sweep leaves the rest of its list.
- Saving addresses makes listed rows due again; those that are hidden or inactive at
  that moment come back with the journeys of the old addresses.

Connectivity

- The German client passes on one half of an answer when the other request failed,
  and it is stored as the whole for half a year.
- `breitbandatlasClient.js:143` and `breitbandatlasAtClient.js:137` look at the status
  alone, and an error that comes with status 200 is an answer with nothing in it, for
  which the listing is stamped; `coberturaEsClient.js:147` knows that "ArcGIS reports
  its own errors with a 200", and `connectivitySweeper.js:86` says that a "lookup that
  failed rather than came back empty must not be stamped".
- `listingsStorage.js:2615`: an address set by hand leaves the connectivity of the
  old one; an answer for the old place may also arrive later.
- `connectivitySweeper.js:73`: a register that is switched off during the lookup is
  stamped as having nothing, which the comment at line 66 sets out to prevent.
- `listingsStorage.js:1834`: rows whose register is switched off stay in front of the
  limited list and can keep others from it.

Accounts, grants and drafts

- `loginRoute.js:99`: a sign-in that verified the old password creates its session
  after the new one was saved; the rehash at line 108 may even write the old
  password's hash over the new one's.
- `userRoute.js:123`: two administrators who take the role from each other are both
  checked before either is written.
- `mcpOAuthStorage.js:239`: a code that was issued and not yet redeemed survives the
  revocation of its grant; line 101: a client that lost the answer to a refresh and
  tries again loses the family.
- `mcpOAuthStorage.js:271`: the sweep also drops clients whose grants have all run
  out.
- `mcpAdapter.js:838`: two calls that create a job of one draft at the same time make
  two jobs; answers given during the await are not in the job and go with the draft.

Restore, store and finance

- `backupRestoreService.js:341` says of the dropped log "The checkpoint above means
  nothing is lost with them", but a checkpoint or a safety copy that fails is only
  logged.
- `backupRestoreService.js:259`: a log that cannot be removed is only logged, though
  line 340 says that beside another file it makes SQLite "replay the old WAL into the
  new file or refuse to open it".
- `backupRestoreService.js:345`: a copy that throws ends the restore with the
  connection closed; the next request opens what is there, a torn file, or an empty one
  where the copy was taken back.
- `migrate.js:165`: a failed migration is thrown so that nothing is served on a schema
  behind; after a restore the process goes on serving on it.
- Two restores may run at once, the second swapping the file under the migrations of
  the first; a kill inside the copy leaves a torn file beside its safety copy.
- `store.js:360`: an answer that arrives after the store was emptied fills it behind
  the login screen; overlapping actions clear each other's flag; another tab's
  sign-in mixes two accounts until the page is loaded again.
- `affordability.js:65`: a ceiling is a rounded product, the share in `classify` (line
  96) a rounded quotient. With an income of 2880 and a rent of 1008 with charges the
  chip says stretch (2880 * 0.35 is 1007.9999999999999) and the scan affordable.
- `amortization.js:52`: a loan with no or almost no repayment is never paid off, which
  the scan says and the chip does not.

## Only model-checked, not modelled

Checked by TLC alone: `NothingStarved`, `PriceCatchesUp`,
`QuietPortalQuietFredy`, `EveryCaptureEnds`, `WaiterIsTold`, `EveryJobRuns`,
`EveryRowIsAskedAbout`, `BacklogDrains`: the liveness properties.

Left out of the modules above, and what stands for it:

- What a portal's page is parsed into, and which adverts a filter drops: inputs.
- How a fingerprint is computed: `FlatOf` and `BlockOf` are what it tells apart.
- Price and address of a row inside `ListingDedup`, where they do not change; so
  the entry a repriced row leaves in the cache is not covered.
- The number of attempts inside one probe, and `mapLimit`'s concurrency: a probe
  ends with one of three answers, in any order.
- Which due rows a tracker's round takes: any of them.
- A browser whose process handle cannot be read counts as gone in `JobExecution`:
  Fredy can do nothing about it.
- How a double is rounded: which comparisons of equals it turns is a constant.
- Demo mode and the onboarding tour's job in `JobExecution`.
- The pause a geocoder's refusal starts: a refusal ends the sweep.
- The caches and limits of the three routing services: one answer per journey.
- In `Connectivity`, the listing page's own lookup, which stores nothing.
- Wording and scopes of OAuth, PKCE, redirect addresses; what a job draft's answers
  are, beyond what the next question depends on.
- What a migration does to the rows, and what a zip holds.
- All lists of the user interface but one, and all settings but one.
- Rates of interest: `Discount` and the terms of the instance stand for the annuity.

Components not modelled are listed in `PROJECT.json` with the reason. Portals,
notifications, the market benchmark, scam signals, attachments and the debug log
have nothing to interleave: they translate, parse, format or count. The host pacer
is a chain of promises per host, and the server-sent events a map that is written
and pruned in synchronous blocks. Points of interest are a read-through cache
nothing else depends on. The window limiter of the login and the demo's rows hold
no promise about listings.

## Plan

Done, in this order: `ListingDedup` with `AdvertPromise`, `ListingLifecycle`,
`PriceTracking`, `SettingsCache`, `PreviewCaptureQueue`, `JobExecution`,
`ListingLocation`, `TravelTimes`, `Connectivity`, the six other modules of
`Services`, and the proofs of each.

Next, most important first:

1. Prices and addresses that change inside `ListingDedup`, with the entry a repriced
   row leaves in the cache.
2. `PriceCheckQueue`: which rows get a turn under the limit per run, the
   counterpart of `NothingStarved`, refining the open choice in `PriceTracking`.
3. `ListingFingerprint`: the fingerprint as a pure function, checked against a
   reference definition over small inputs, so that `FlatOf` is derived.
4. Composition: the job run inside `JobExecution`'s provider step, so that a
   browser lost in the middle and a batch half stored are one behaviour.

## How to run

    tlc -workers 2 -config ListingDedup.cfg MCListingDedup
    tlapm ListingDedup_proofs.tla

and likewise for the other modules. The longest run takes about three minutes on
two cores.
