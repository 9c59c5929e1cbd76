# A TLA+ verification of the HA Tools Email integration

HA Tools Email is a Home Assistant (HA) custom integration: it analyses energy use, sends log
digests and energy reports by SMTP or HA notifications on stored schedules, keeps its settings and
tariffs in one Store document, shares hourly cost statistics with HA's Recorder, and serves all of
this to cards over a WebSocket API. Everything runs on one asyncio event loop. Blocking work (file
writes, SMTP, calculations, the Recorder) runs in executor threads or queues that outlive the task
that awaits them. Between two `await`s a task is never interrupted; at each `await` anything may happen:
another callback, a cancelled caller, an unload and a reload of the entry, a crash.

The actions of the modules are therefore the code between two awaits, and the interesting
properties are the ones that span several of them. Paths below are relative to
`src/custom_components/ha_tools_email/`.

## Running it

    tlc -workers 2 -config snapshot.cfg MCEnergySnapshot   # one run; PROJECT.json lists all
    tlapm EntryProofs.tla                                  # one proof module

## Inventory

| Component | State | Operations | What is hard |
|---|---|---|---|
| **Schedule dispatcher** `scheduler.py` | trackers, generation, fire lock, consumed periods | reload, stop, minute callback, send | a callback acts across ten awaits while schedules are edited, the entry reloads, a write fails, the process dies |
| **Store document** `storage.py` | published document, revisions, lock, status lane | load, migration, confirmed save of each section, status card | HA's Store may fail after or before the file is durable; a cancelled caller cannot stop its file write |
| **Attempt history** `history.py` | attempts in the document | one record around one handoff, retention | the record must tell what happened although the record itself may fail |
| **Native delivery** `delivery.py` | none of its own | one composition, up to 32 targets | fences before each target; a partial result is never retried |
| **Snapshot coordinator** `energy.py` | data, event bits, lock, CPU lane shared by all coordinators | tick, refresh, override, price query, stop | three locks taken in different orders; threads outlive callers; answers may be overtaken |
| **Statistics publisher, ledger, Recorder adapter** `energy_statistics_{publisher,ledger,recorder,api,hours}.py` | consent, facts, intent, cursor | enable, disable, refresh, automatic update, save, verify | write-ahead intent against a queue that drops, delays or half-executes jobs |
| **Statistics runtime** `energy_statistics_runtime.py` | adopted consent, timer, task, requests | start, request, run, settle, stop | coalesced requests, a lock taken twice per run, successor runtimes |
| **Setup and services** `__init__.py`, `config_flow.py` | the `hass.data` bucket | setup, failed setup, unload, services, options | components start and stop in a fixed order, any step may raise or be cancelled |
| **WebSocket API** `websocket_api.py` | subscriptions | 25 commands, one subscription | authorization is awaited, so it is repeated before each answer |
| **Analysis service** `analysis_service.py`, `analysis_provider.py`, `native_pricing_provider.py`, `report_actor.py`, `report_window.py` | one cached result, pending count, lock, normalization | analysis, patterns, report, statistics hours, validation | a context captured before dozens of awaits must still hold at the end |
| **Email native coordinator** `email_native.py` and its entity files | seen attempts, delivery problem, refresh task | refresh, request, send, stop | coalesced refreshes, events neither missed nor repeated |
| **Registry membership** `registry_adapter.py`, `energy_registry.py` | revision, pending notification | start, event, capture, stop | revisions move at once, notifications coalesce |
| **Source device, Repairs** `energy_source_device.py`, `energy_repairs.py` | registry links, owned issues | reconcile, publish, clear | an old owner must not undo its successor's facts |
| **Pure algorithms** tariffs (`tariff*.py`, `energy_live.py`), calendars (`analysis_periods.py`, `energy_patterns_periods.py`), comparisons (`energy_comparison*.py`, `energy_group_*.py`, `energy_mean7_costs.py`), projections (`report_status.py`, `native_report_projection.py`, `energy_*_bins.py`, `energy_model.py`, ...), policy (`feature_access.py`) | none | functions | boundaries: zone changes, gaps, empty sets, cents |
| **Rendering** `composer.py`, `energy_report.py`, `mail_*.py`, `energy_format.py` | none | HTML, text, CSV | no state |

How they interact: the WebSocket API and the minute callbacks call everything else. The dispatcher,
the publisher, the coordinator and the analysis service read and save through the one `EmailStorage`
and its lock. Tariff edits validate their book in the coordinator's CPU lane *while* they hold the
storage lock, and refreshes hold the coordinator's lock while they wait for the storage lock. The
publisher asks the analysis service for facts; the service calculates in the same CPU lane. Changes
are announced by bus events (`_energy_updated`, `_report_status_updated`, `statistics share changed`), which
make cards and runtimes read again.

What makes each part correct, and which of it is checked, is the subject of the modules below;
`hazards` in PROJECT.json lists the places where this is hardest to test, with the properties that
cover each or the reason why none does.

## The modules

| Module | Models |
|---|---|
| `OncePerPeriod` | abstract: a period is stamped before its report leaves, at most once |
| `Scheduler` | the dispatcher, the Store writes it makes, edits, setup, unload, restart |
| `SchedulerInv` | the inductive invariants of `Scheduler` |
| `SchedulerProofs` | its proofs: types, attempt log, trackers; periods and the refinement |
| `HourlyUpdates` | abstract: automatic updates complete every hour once its facts are recorded |
| `StatisticsSharing` | publisher, ledger, intent, Recorder queue, crash |
| `StatisticsSharingProofs` | its invariant and the refinement |
| `StatisticsRuntime` | the runtime's task, timer, requests and the publisher's lock |
| `StatisticsRuntimeProofs` | its proofs |
| `EmailStore` | the document: migration, saves of each section, durability, revisions, status lane |
| `EnergySnapshot` | the coordinator, the tariff reads and edits it meets, the CPU lane |
| `EnergySnapshotProofs` | its proofs |
| `AnalysisService` | requests for analyses, reports, patterns and hourly facts: capture, guards, cache, normalization, validation, stop |
| `AnalysisServiceProofs` | its proofs |
| `Delivery` | one report to several targets, manual sends and the button, a record around each handoff, retention |
| `EmailNative` | the Email coordinator: coalesced refreshes, announced attempts, the delivery problem (extends `Delivery`) |
| `DeliveryProofs` | the proofs of both |
| `Access` | the feature policy and the roles of people |
| `Commands` | every WebSocket command as a program of awaits under that policy (extends `Access`) |
| `Subscription` | the cards' subscription, its listeners and its reason task (extends `Access`) |
| `Lifecycle` | setup, failed setup, unload of everything an entry owns; Repairs issues; registry notifications |
| `EntryProofs` | the proofs of `EmailStore`, `Commands`, `Subscription` and `Lifecycle` |
| `Comparison` | two periods streamed side by side: household and groups, common hours, costs, reconciliation |
| `TariffBook` | versions, validation, edits and their acknowledgement, rates of instants and intervals |
| `CalculationProofs` | the proofs of `TariffBook` and `Comparison` |
| `Calendar` | fires, periods, report windows and analysis windows across clock changes |
| `MCEntry` | one instance of the parts of an entry that share no state; `MCBackground` one of the two workers whose liveness is checked; the other `MC*`: instances for TLC |

### Scheduler

`FireStarts` … `FireWriteEnds` are one callback `_fire` cut at its awaits: it takes the fire lock,
matches the schedule, reads the last stamp (`AlreadyStamped`), marks the period consumed and saves
the stamp (`FireReserves`, `FireSavesStamp`), compares the generation and re-reads the schedule
(`FireRechecks`; the comparison comes first, as in the code), and enters `async_send_report`, which
freezes the generation and revision it finds (`FireRereads`), prepares (`PreparationFails`,
`HandoffFence`), hands the message to the SMTP executor job (`HandsOff`) and records the attempt and
the digest. `WritesEnd` is HA's Store: a write ends confirmed, unconfirmed, or durable and
unconfirmed. `ReloadBegins` and `ReloadFinishes` are the two halves of `async_reload_schedules`,
between which the listing is awaited, so that reloads overlap. `EntrySetsUp` … `EntryUnloads` are the
entry's lifecycle as the dispatcher meets it, `Restart` a crash and a new process.

Time is a minute counter and a period basis (cadence and zone) maps a minute to a period number; what
the calendar does at the end of a month or at a zone change is not here. `era` is a history variable: it
tells apart the lives of a schedule id and its period bases. A single `last_fired` key cannot remember
a daily period across an edit to weekly and back, so "once per period" is stated per basis, and
`OncePerPeriod` makes the exception explicit (`Renews`).

### StatisticsSharing, StatisticsRuntime

One operation at a time holds the lock of the entry's publishers (`op`); its steps are the code
between awaits. The document is the ledger's (`points`, `share`, `pending`, `cursor`, `archived`),
and a save publishes it, fails, or fails after it became durable (`CacheAfterFailure`). The Recorder is
external: a queue whose first job may already run, whose jobs may fail silently, and that a crash
empties. The barrier of `async_verify` answers when the queue seems empty, which is before a
dequeued job has ended: `Repeats` in the refinement stands for that. `OpAborts` is any exception of a
collaborator (permission, busy lane, timeout).

`StatisticsRuntime` keeps of the publisher only its consent and its lock, granted in order, and
models the task, its timer and every exit of `_run` exactly: the run reads its context under one
acquisition of the lock and refreshes under a second one, so an administrator's call can sit between
the two. A run never finds `energy_statistics_busy`, because the author's lookup between the two does not
suspend.

### EmailStore

The document has a legacy SMTP file beside it, the settings, a tariff and policy with revisions, and
the other lists. `SaveBegins`/`SaveEnds` are `async_save_confirmed` under the storage lock;
`SaveCancelled` releases the lock while the executor goes on to `OrphanLands`. Editors keep their
revision over restarts, as a dialog in a browser does. A status card (`StatusBegins` … `GivesBack`) is
admitted once and keeps its admission until its worker thread ends. The storage is always created
through `_async_get_storage` and loaded first; a first load that fails discards the instance.

### EnergySnapshot

A task is a tick, a read, an override, a price query or a tariff edit. Its `pc` says what it awaits
(`coord`, `store`, `lane`: locks; `measure`, `run`, `fence`, `write`: the Recorder, the executor thread,
the sources, the Store), its `stage` which part of the refresh it is in; the locks are derived from the two. `co` is the
coordinator that owns the task and `via` the one whose lane job checks run under (the book is
validated by whatever coordinator is current). A cancelled caller whose thread runs stays in the
lane until the thread ends (`Shielded`), as `_async_run_cpu` does. `Publishes` is the whole
uninterrupted code from the final comparison to the event: fence, data, and for a tick the bits of
`_publish_energy_update` (`Accept`, `Purge`).

Sources (with their normalization and the household's time zone), the five-minute cutoff (with the
hour and the day) and the tariff revision are counters. A book is configured, so its reads validate
it in the lane. The user access guards only add awaits and refusals and are left out. The names of
coordinators nobody works for are used again, which keeps reloads unbounded.

### AnalysisService

A request is admitted, waits for the lock, captures its context, checks access, reads the tariff book and
then works through `todo`: chunks of Recorder rows, native costs, CPU jobs, each between guards. A
guard is itself a program of awaits (`stage`): access, units, normalization, access again, and for
native prices their metadata and states. The facts are version numbers. `tariff`, `registry`, ... are compared
without an await (`Current`); `units`, `costs` and `prices` are known only by awaited reads, and what the
last reader saw (`normal`) is shared by everybody: validators, which run outside the lock, overwrite
it and drop the cache. `Turns` and `Revokes` change facts and roles at any await, `Stops` unloads.

Guards that follow each other without a read between them are one; a CPU job is part of the read of
its chunk; the loops over windows, comparisons and chunks are one chunk each, which is enough
because every chunk is followed by the same guards. Versions never return to an earlier value: a
stopped validator may publish an older normalization, which makes an analysis under way fail closed.

### Delivery, EmailNative

A send takes one turn per target, and `Steps` are the awaited steps of a turn in the order of the code; a batch
has a turn before its first target, which composes the payload. Everything `fence` and `validate` compare with
a captured value is kept as the set of things that changed since (`TurnedStale`). `HandoffOutcomes` and `PreparationRaises` are the exits of the two attempt dispatchers,
`Records` and `RecordCancelled` write the record, whose append retains the log at the time the dispatch *started*
(`Retained`).

`EmailNative` reads the history and the schedules in one projection under the Store's lock
(`RefreshReads`), and `Publishes` is the uninterrupted code after it: fire one event for each unseen attempt,
judge the delivery problem, tell the entities. Requests coalesce into another round, a refresh whose context
changed is dropped (`Drops`) and not asked for again; the 30-second timer and the next write repair it.
Entities exist as soon as their schedule is published, and errors of the device registry are not modelled.

### Access, Commands, Subscription

`Command` gives each of 24 commands (`set_schedule` is in `Scheduler`) a record: the feature and operation it needs or the person it admits, what
it awaits (a read or a save in the Store, a preview, a calculation), how it is authorized again, and
what must not have changed since it looked. `Arrives` … `Replies` run any such record, so that a difference
between two handlers is a difference in data. Looking a person up does not suspend, so a second
authorization is one step with the answer or the start of the save (`TakesStore`).

A card's `task` authorizes the reason "schedules changed". With an eager start that task can end before
`schedule_task` is assigned (`websocket_api.py:215`): the finished task then stays there and the
next change of the schedules is not told with a reason. The model contains this; no property demands the opposite.

### Lifecycle

`entry.at` is the place of `async_setup_entry` or `async_unload_entry`; every await of it may raise or be
cancelled (`SetupFails`). `alive` are objects with listeners, timers or tasks. `CleansUp`
and `Unloads` take back what was published. A failed setup leaves the dispatcher armed, because
`_async_ensure_setup` set it up for the whole of Home Assistant; an interrupted forwarding leaves entities.
`NothingLeft` names both exceptions. An Energy Repairs issue belongs to whoever published it
(`marked`): a stopped coordinator clears its own issue, never its successor's.

### Comparison

An hour is a position in its period and has a *frame*, its place in the calendar (say day and hour of a month).
`ReadsChunk` is one pass of the service's loop: choose the side that is dry (`NeedsSide`), read up to
`ChunkHours`, push the chunk to the accumulators of household (`HouseAfter`) and groups (`RowAfter`,
`MarksAfter`), drain what matches (`Turn`, `Drained`), drop what can no longer match (`Dry`). `Finishes` decides complete periods or
common hours, costs, and whether the deltas of groups add up to the household's (`Reconciles`). Both accumulators drain alike, so one pair
of cursors stands for both. Energy is counted in hours of a source instead of decimal kWh, and the
mean of seven days, fees, charts and the allocation of cents are left out. The second test of the cost mask in `finish` never refuses.

### TariffBook

A book is a set of versions per tariff with profiles of limited validity. `ValidTariff` is
`validate_tariff_book` (chaining, open ends, unknown starts, `ProfileCovers`), `SavesBook` and `SavesVersion` are the two edits,
`HistoricalChanges` the ranges of the past an edit must acknowledge, found only at boundaries
(`PastPoints`, `Changes`). `RateAt`, `IntervalRate` and `NextChange` are the readers. The choice of the active tariff is not
here: the code compares edits per tariff, so switching `active_tariff_id` reprices the past without naming
a change.

### Calendar

An instant is an hour of UTC, a zone an offset per instant. `Wall` is `datetime` with `fold`, in gaps included.
`Fires` is the minute callback with its stamp, `NextFire`, `NextReport`, `Occurrences` what status cards
and the calendar entity promise, `CompletedPeriod` what a report covers, `SelectedWindow` a report requested
for a date, `CurrentWindow`, `PreviousWindow`, `Baseline`, `YearAgo` and `WeekAgo` (the ISO week of the same number)
what an analysis compares. The day and the year before are computed by `composer.py` and by `analysis_periods.py`
independently (`PreviousDay`, `Targets`). `BaselinesAlign` compares every baseline with a definition of its own (`CutAlike`):
a window that ends in the middle of a period is compared with one that ends on the same place of its period (`PlaceIn`) at the
same local hour, the second one if that hour comes twice; only a shorter month or a missing hour is an exception, and the
definition says where such a baseline ends instead. Where both implementations align the same period, their windows are equal.

`entry` checks zones whose clock does not jump from the last hour of a day over midnight into the next day. There the
code disagrees with itself, which the run `announced` shows (finding 5). No zone misses a whole day, and clocks
move by one hour.

## Runs

Each run finishes within the time a continuous check allows (the longest in about three minutes, two workers).

| Run | Distinct states | Checks |
|---|---|---|
| `sched` | 0.7 M | `OncePerPeriodInv`: no period of a schedule is handed over twice, whatever is edited, lost or restarted. `LogIsTruthful`: "preparation_failed" means that nothing was handed over. `ArmedMatchesStore`: once the reloads are over, the trackers are those of the published schedules. `NoEditBehindHandoff`: what leaves is what was matched. `EnergySilentWhenStopped`. `ImplementsOncePerPeriod`. `FireLockReleased`: the fire lock is always released again |
| `sched_stop` | — | violated: `SilentWhenStopped` (finding 1) |
| `stats_share` | 3.6 M | `DurableStateLoads`: no order of operations writes a document the next load refuses. `CacheIsDurable`. `IntentCoversRecorder`: whatever the Recorder holds that the facts do not say, a durable intent will repair. `OnlyConsentedJobs` |
| `stats_hours` | 6.8 M | `ImplementsHourlyUpdates`: no hour is skipped or completed without its facts |
| `stats_consent` | — | violated: `ReauthorizationTaken` (finding 2) |
| `store_cancel` | — | violated: `SerializedSaves` (finding 3) |
| `history` | — | violated: `RecordsStay` (finding 4) |
| `snapshot` | 6.0 M | `OneJob`, `NothingStale`, `StoppedIsSilent`, `TicksTell`; `SnapshotInv`, the invariant of the proofs |
| `background` | 0.5 M | `OneTask`: one automatic update at a time. `NeverSilent`: an adopted consent always has a timer or a task. `RequestsServed`. `RequestsEnd`: the three locks around a snapshot never deadlock and every request ends |
| `announced` | — | violated: `AnnouncedFires` (finding 5) |
| `analysis` | 3.2 M | `AnswersAreCurrent`: an answer goes to somebody who may read it now, and all its facts, chunks and prices are current. `StoppedKeepsNothing` |
| `entry` | 2.0 M | seventeen properties of nine parts, below |

**The `background` run** explores the runtimes of the statistics and the snapshot coordinator the same way as `entry` explores
its parts: the worker that rests has no step that fairness could ask for, so it restricts nothing.

**The `entry` run.** Nine parts of an entry share no state in the models, so one run explores each from its own
initial states while the others rest (`part`): the states add up instead of multiplying. Its properties:

| Part | Properties |
|---|---|
| Store | `AckedIsDurable`: what was confirmed is on disk. `NoLostUpdate`: an edit replaces what its author saw. `LegacyKept` |
| Delivery | `BatchTruthful`: one truthful record per target, and a failed target ends the batch. `HandoffCurrent`: what is handed over is allowed and current then |
| Email native | `AnnouncedOnce`: no event twice, none missed. `IssueTells`, `IssueClears`: the problem follows the newest report, not the last to finish |
| Commands | `AnswersHold`: who gets an answer may have it at that moment. `SavesHold`: no save over something unseen or under another policy |
| Subscription | `QuietAfterEnd`: no event after the end, no listener left |
| Setup | `NothingLeft`: after a failed setup or an unload nothing listens, waits or is published; one generation lives; registry changes are told |
| Comparison | `ComparisonIsExact`: the streamed result equals its definition over both whole periods, and parts add up only where they are made of the same hours |
| Tariff | `RatesAreExact`: both readers agree with the price of every single instant. `PastIsAcknowledged`: an unacknowledged edit changes no past price |
| Calendar | `NextReportFollows`: the announced report is the next one sent, of the next completed period. `BaselinesAlign`: baselines lie in their periods, end on the same local day and hour as the window they are compared with, and two implementations agree |

Every property of a passing run has a mutant, a plausible bug in the modelled code (a dropped comparison, a
missing reset, an off-by-one, an unshielded cancel), kept as a `*_Mutant` operator before the definition
it would replace; with the mutant TLC finds the property violated.

**Bounds.** `sched` has one schedule with two minutes of one day, either kind and a weekly basis that is
switched off, and three generations: two callbacks of one period, with an edit, a reload or a
restart between or under them. (What happens beyond the first day is covered by the proofs.) `stats_share` has two bindings and two
epochs (enable, disable, enable), three queued jobs and one reload or crash; `stats_hours` one series,
three hours and a lag of two, so that a pause, a catch-up and a correction of an earlier sum happen.
`background` has two runtimes and three consents. `snapshot` has two tasks of any kind and two coordinators; two
lane places and two admissions fill up and are refused. Three tasks add only a third waiter for a lock: every
decision compares a task with the shared state or with the one holder of a lock. The coordinator of `background` needs no
changing data, because the refusals it causes only end tasks earlier, but it keeps unlimited reloads,
cancellations and new requests. `analysis` has three requests, so that a validator acts between the guards of one
request while another waits for the lock, two of them fill the admission, and a change of each kind.

In `entry`: two dialogs, three edits, a restart and a cancelled save; two sends of any path with two targets and one change
around them; four dispatches, two of which start at the same time, for the Email coordinator and one reload of it; any
command beside one that saves a tariff or the policy, with a change of a role, of the policy and of the context; three setups. Calendars of up to three
hours cover a frame that is missing, additional, repeated in another order, shifted, and a longer
period, with chunks of two hours and a coverage of five tenths instead of nine, so that a period of
two or three hours can be on either side of it. Tariffs have three days of four instants in minutes
of two: a boundary between days, a price that changes inside a minute, and a profile that ends. There is a
single tariff, so removing one of several is not exercised. Days have four hours, weeks three days,
months two to five days, years two months, and the zones move forward and back at night and forward at midnight: every
window starts and ends on both sides of a change, and the second of two hours is compared with a day of the year before
whose hour is missing. A week of the year before exists for some weeks and not for others. `announced` has the same calendar
and the zone that jumps into the next day.

**Deadlock** is checked where the system cannot stop. `Scheduler` has a step `Rest` for the system that waits for
the next minute when the clock's bound is reached, and `StatusReads` plays that part in
`StatisticsSharing`. The parts of `entry`, `analysis`, `announced` and `history` end when their bounded sends,
edits, requests or hours are used up.

**Fairness.** Only where a liveness property is checked, and only of things that do happen: an executor job or
a Store write ends (WF), a task that is ready runs, and a lock that is free again and again is granted
(SF, because asyncio serves the waiters of a lock in order and the models do not keep that order). No
request, edit, reload, minute or cancellation is ever forced to happen.

## Findings

1. **A digest leaves after the stop** (`sched_stop`, `scheduler.py:308`). `_fire` compares the generation and
   only then awaits the re-read of its schedule; a stop in that await is not seen, and
   `async_send_report` freezes the generation *after* it. Energy reports are protected by the analysis
   service that is gone (`EnergySilentWhenStopped`); log digests are sent although
   `async_stop_scheduler` promises to "invalidate jobs already queued by HA".
2. **A new consent is thrown away** (`stats_consent`, `energy_statistics_runtime.py:153`). An enable queued
   between the two lock acquisitions of a run makes the run fail, and its handler discards the request that
   announced the new consent: updates stay paused after the very reauthorization it asks for.
3. **An orphaned write reverts a confirmed save** (`store_cancel`, `storage.py:87`). The save is not
   shielded against the cancellation of its caller, unlike the publisher's
   (`energy_statistics_publisher.py:69`).
4. **An older dispatch erases a newer record** (`history`, `storage.py:499`). A record is appended with the start of
   its dispatch as the present time, and retention keeps only records up to that time. When two dispatches overlap and
   the one that started first finishes last, the record of the other one is dropped although it is not old
   ("Persist insertion order; the last 128 completed dispatches win.").
5. **A report announced for a missing hour is never sent** (`announced`, `scheduler.py:148`). Where the clock jumps from the
   last hour of a day into the next day (America/Nuuk, 28 March 2026), a schedule of that hour has its candidate shifted past
   midnight. `calculate_next_fire` finds it from the earlier day and the status announces it; `should_fire_schedule` looks
   only for the candidate of the callback's own local day (`scheduler.py:228`) and does not match. That day's report is
   skipped, although the README promises that a gap "moves forward by the offset change" and that "The same resolver computes `next_fire`."
   (`README.md:340`), and `calculate_next_fire` the "same candidate resolver as actual minute callbacks".

## Proofs

All proofs are for any value of the constants (any sets of schedules, editors, ... and any bounds), under the named
assumptions of the modules, which only type the constants.

*Scheduler.* `TypeCorrect` and `Inductive` (`IInv`), then `OncePerPeriodHolds`, `NoEditSlipsIn` and
`Implements`. `OncePerPeriodInv` alone is not inductive: a callback that is about to hand over must
not belong to a reported period, which depends on the stamp in *every* document that may become the
published one (`Docs`: published, durable, in flight). `IInv` says that each of these documents remembers
the stamp of every report of its era (`Remembered`), that eras and edits grow on the disk first
(`ErasGrow`), that callbacks act in the order of their minutes (`InOrder`), that an unpublished document
differs only in an unreported period (`Unreported`), and what the callback holding the fire lock knows at each
step (`JobInv`). The refinement maps the stamp to the published one and stutters everywhere else.
Two smaller invariants carry the rest. `LogInv` proves `LogIsTruthfulHolds`: a callback is named by its schedule,
generation and minute, so that a queued one has left no trace (`WaitingIsNew`, which needs that nothing is ahead of
the clock), and the callback in progress is recorded last, with the outcome of what it did (`JobTells`); the records
meant are those of every document a restart could load or a write is about to publish. `TrackerInv` proves
`ArmedMatchesStoreHolds` and `EnergySilentWhenStoppedHolds`: while the newest reload awaits its listing it has armed
nothing and the scheduler runs (`ReloadsArmOnce`), a callback's own write leaves the schedules alone, and a stopped
dispatcher has no analysis service.

*StatisticsSharing.* `SharingInductive` (`SharingInv`), then `DurableStateLoadsHolds`, `CacheIsDurableHolds`,
`IntentCoversRecorderHolds`, `OnlyConsentedJobsHolds` and the refinement `ImplementsHourlyUpdatesHolds`.
`IntentCoversRecorder` speaks of the durable document, but a save publishes the candidate of the operation in
progress, so the same coverage is an invariant of every candidate (`GoodDocument`, `Candidate`), together with
what the operation may rely on at each await (`GoodOp`). Two facts about the Recorder make it inductive: every
row and every queued job was planned from facts the ledger still has (`RowsKnown`, `Planned`, `Grown`), and when a plan is
verified, the one job that may still run repeats the plan (`LastRepeats`), because the barrier returns when the queue
is empty and not when its last job is done. The refinement needs that an automatic update works for the hour of the
durable cursor (`AtHour`) and that the hour's facts are recorded before the cursor moves (`AllRecorded`). Over
the same invariant `SharingTyped` proves the types (`TypeOK`; `Typed` adds the bounds of the counters and the hours an operation
looks at). That `make_plan` writes numbers, whatever the facts, is a recursion over the hours: the sums up to a last
hour exist (`SumsExist`) and are numbers (`SumsAreNumbers`), each by the least hour that would refute it.

*StatisticsRuntime.* `RuntimeInductive` (`RuntimeInv`), then `OneTaskHolds` and `NeverSilentHolds`. A runtime between
two runs waits for its timer or was asked (`Waits`); a request that no loop of its own will see is remembered by the lane
(`Remembered`); the lane hands over to what it remembers. `OneRunning` is where the setup order of the entry comes in.

*AnalysisService.* `AnalysisInductive` (`AnalysisInv`), then `StoppedKeepsNothingHolds` and `AnswersAreCurrentHolds`.
An answer is current because of what the guards around each reading saw, not because of any lock. Versions only
grow: a reading is not older than the normalized units (or costs metadata) of its request's context and not newer than
what the next guard reads (`Between`), so if that guard finds the same version, the reading is of that version. The
context takes the native metadata and its prices together and decides once about the permission to read them
(`GoodContext`), a whole guard has been passed before anything is calculated (`Complete`), and native costs are in a
plan only with that permission (`Planned`). What the cache holds rests on its context in the same sense (`GoodCache`).

*Delivery.* `DeliveryInductive` (`DeliveryInv`), then `BatchTruthfulHolds` and `HandoffCurrentHolds`. A send in the
turn of its n-th target has recorded and handed over only earlier targets, each of them accepted, and this target is handed
over exactly if the send stands at its answer, or at a record other than `preparation_failed` (`InTurn`). That
`normalize_channels` drops repeated targets is what makes a record's target name its turn (`PositionFacts`). For
`HandoffCurrent` the last validation and the fence behind it suffice, except for an edit of the schedule before
the last validation read it: that one shows in the revision as well (`RowChecked`).

*EmailNative.* `NativeInductive` (`NativeInv`), then `AnnouncedOnceHolds`, `IssueTellsHolds` and `IssueClearsHolds`. An
attempt that was announced stays seen as long as the history has it (`AnnouncedStaysSeen`). This survives an unload, which
forgets what was seen, because a setup's first refresh announces nothing, and the retention, because what left
the history does not come back. A refresh publishes the present history since it holds the Store's lock from its read to
its end (`ReadsTheStore`), and the issue is the problem of the present setup (`IssueIsProblem`).

*EmailStore.* `StoreInductive` (`StoreInv`), then `ConfirmedStaysDurable`, `NoUpdateIsLost` and
`SettingsAreNeverLost`. `StoreInv` relates the documents in use to what was acknowledged and to what each
open dialog knows; the conjunct `DiskAhead` (an unconfirmed document that became durable is
never behind the published one) is what makes it inductive over restarts. Acknowledged edits and lost updates are
proved as long as no caller was cancelled during its write (finding 3 is the exception); the SMTP
settings are safe even then.

*EnergySnapshot.* `SnapshotInductive` (`SnapshotInv`), then `SnapshotOneJob`, `SnapshotNothingStale`,
`SnapshotStoppedIsSilent` and `SnapshotTicksTell`. `OneJob` needs that a running thread is always the one of a
caller still in the lane, cancelled or not (`Threads`). `NothingStale` needs the order of the three reads of
the sources (`ReadInOrder`): they only grow, so equal first and last reads enclose the state the
calculation saw. `TicksTell` needs what the cards were told in terms of the two bits that decide about the next
event (`Told`). The proof has one lemma for a task's step (`MoveKeeps`: the lane's count, the thread, the record),
one lemma per way a step ends (fails, waits for the lane, stays outside), and one per action.

*Commands.* `CommandsInductive` (`CommandsInv`), then `AnswersHoldHolds` and `SavesHoldHolds`. The table of commands is
reduced to what the argument needs (`Sound`): what asks again by its feature was admitted by it, what shows the tariff
compares it, and so on. A command that captured a policy then either knows that another one was saved (`"policy"` is stale)
or the stored policy is still the captured one (`KnowsPolicy`). This is inductive although the policy is
saved by another command, because that command holds the Store's lock and tells every command under way (`Overtaken`);
and a revision that was compared under the lock stays the stored one until the lock is released (`HoldsStore`).

*Subscription.* `SubscriptionInductive` (`SubscriptionInv`) and `QuietAfterEndHolds`: a card without listeners has no
reason task, so that no task outlives its connection, and none listens to a service that is not running.

*TariffBook.* `TariffInductive` (`BookInv`), then `PastIsAcknowledgedHolds` and `RatesAreExactHolds`. What validation and
chaining make of any proposal is `GoodVersions`: starts are unique, every version ends where the next one starts, and none
outlives its profile; then at most one version governs an instant (`OneGoverns`) and between two bounds it is the same
one (`SameVersion`). An instant of the past has a last point before it, and no version changes from there to that point's
stop, so the named ranges are exactly the changed ones (`ChangesAreExact`). For the readers, suppose an interval of one rate
had an instant with another price: the first such instant is no point that was tested, so it has the price of the
instant before it. Dates are natural numbers, so that least and greatest elements exist (`LeastExists`, from the
well-foundedness of `<`).

*Comparison.* `ComparisonInductive` (`ComparisonInv`), then `ComparisonIsExactHolds`, for any two calendars whose frames are unique
(the code refuses others), any sources, groups and tariffs, whatever the hours hold and however long the chunks are. The
heads of the two chunks never have one hour of a shared frame behind them and the other before them (`NoCrossing`). That is
why the code may compare ranks of one calendar only: in aligned periods the pairs come in one order (`PairsInOrder`), so a skipped hour has no partner
left (`SkipKeeps`) and a chunk is dropped only when no hour before its end can be matched (`DrainFacts`). The merge itself is a recursive function of its turns; what it does
in any number of turns is shown by looking at the first turn that would break it (`MergeTo`). Every counter is then
the cardinality of what was read and of the pairs behind the heads (`HouseFor`, `RowFor`, `MarksFor`), which a chunk extends by sets
disjoint from the old ones (`HouseStep`, `RowStep`, `MarksStep`). One chunk is always used up, and a period that is
used up leaves no chunk (`Spent`), so that the loop ends only when both accumulators accept to finish (`ReadInFull`).
From these sets the claims follow by counting: a set of pairs as large as the period is the whole period
(`KnownFills`), and usage with as many priced hours as hours is priced throughout (`AllPriced`).

*Lifecycle.* `LifecycleInductive` (`LifecycleInv`) and `NothingIsLeft`. Every list of keys and objects a setup
takes back names only its own; that this leaves nothing needs `OneGeneration`: what lives, waits or is published
belongs to the present setup, because each setup begins `Clean`. An issue is cleared by a coordinator that
is no longer published (`Clears`), which `IssueOwned` allows: whoever published it is marked and alive until then.

`StoreInv`, `IInv`, `LogInv`, `TrackerInv`, `SharingInv`, `RuntimeInv`, `AnalysisInv`, `DeliveryInv`, `NativeInv`, `LifecycleInv`,
`CommandsInv`, `SubscriptionInv`, `BookInv`, `ComparisonInv` and the type invariants hold by these proofs and are not checked again by the runs, except `SnapshotInv`. Each of them was checked
by TLC on the instance of its run before it was proved.

Model-checked only: all liveness properties and their fairness (`FireLockReleased`, `RequestsServed`, `ENABLED` is
behind each of them); `Calendar`, whose `RECURSIVE` operator over the fires of a schedule is out of the provers' reach and whose
windows are arithmetic over tables of offsets, months and weeks that only an instance gives.

## Not modelled

HTML, text and CSV (`composer.py`, `energy_report.py`, `mail_*.py`, `energy_format.py`), the report model, the
sums of an analysis, native five-minute cells and the entities' projections turn data into data and keep no
state; SMTP's blocking send only has outcomes. Decimal arithmetic, byte limits, names, schemas, error codes and
localized text are data that no property above distinguishes. HA's Store, Recorder, bus, registries and user accounts are
external and modelled by what the code can observe of them. Known abstractions of modelled parts are listed per module
above; the others are cancellation during the legacy migration, `handle_save_config` (which reads the password, awaits,
and writes the whole SMTP document back: a password saved in between is lost, `__init__.py:357`), the access
guards and override price queries of the coordinator, the contents of its measurements (an override can empty the
short measurement of a refresh under way, `energy.py:617`), two first users of the storage (`__init__.py:311`), the
mean of seven days and the allocation of cents. The status-card lane of `EmailStore` is modelled and has no
property of its own.
The entity of an attempt (`event.py:17`) shows "accepted by notify" under the name `attempt_error`; its texts are not modelled.

Consequences of deliberate choices, visible in the models and demanded by no property: a single `last_fired` key cannot remember a daily period across
an edit to weekly and back (`Renews`); any edit bumps the generation, so a callback of another schedule that has
already stamped its period is dropped and that period is lost; a request that restores a withdrawn snapshot does not
clear the purge bit, so a second failed tick withdraws it without an event.

## What is left

Cent allocation and the mean of seven days against reference definitions; the groups of a registry
(attribution) as a function of its rows; the measurement's short cells inside `EnergySnapshot`.
