# TLA+ models of the CK3 Chronicler

The Chronicler watches the autosaves of Crusader Kings III, turns what changed
between two saves into events of a per-campaign database, and has a language
model write biographies of the characters the player follows.  One process runs
it all: a FastAPI server with its browser portal, one *save-tail* per campaign
being played, and schedulers that run the biographies, on one asyncio event loop
with worker threads beside it.  It is meant to run for hours, to be killed at any
moment, and to lose nothing; sealed campaigns travel to the user's other machines
through an archive directory.

Paths below are relative to `src/src/chronicler/` unless they begin with
`frontend/`.

## The system

| Part | State | Operations | Meets | What makes it correct |
|---|---|---|---|---|
| Queue state (`narrative/queue_state.py`) | items, recent ring, totals, per-character counters | enqueue, mark_started/completed/failed, remove, find_recent | every scheduler, the queue routes, SSE | counters and ring agree with what the tasks did |
| Scheduler (`narrative/scheduler.py`) | semaphore, per-character locks, tasks | schedule, regenerate, cancel_item, reorder_queued, drain, `_run` | queue state, pipeline, routes, save-tail thread | one generation per character, FIFO, nothing lost by reorder, drain ends |
| Pipeline and provider (`narrative/pipeline.py`, `claude_code.py`) | prose files v1, v2, ..., biography rows | read, generate, write file, commit, insert row | the DB, git, the CLI | a stored biography keeps its file; later versions know more |
| Save-tail (`save/ingest.py`, `tick.py`, `watcher.py`, `baseline.py`) | baseline on disk and in memory, events, pin | boot, seed, watch, consume, persist, stop | cache, parse pipeline, scheduler, orchestrator | nothing recorded twice, nothing lost, only its own playthrough |
| Save cache (`save/cache.py`) | numbered copies, sidecars, protected set | cache_save, protect, tag, mark_processed, gc | producer, consumer | what is in flight stays |
| Parse pipeline (`util/async_pipeline.py`) | window of workers | fill, await head, yield, close | producer, consumer | in order, never stuck |
| Orchestrator (`orchestrator.py`) | task and scheduler per campaign | spawn, switch, done callback, halt, teardown | every tail, adopt and migrate routes | the right campaign has a tail; teardown ends |
| Pause and deaths (`narrative/pause.py`, `ingest_common.py`, `api/routes/settings.py`) | setting, its cache, death dates, biographies | gates, reset, drains | tick thread, loop, restart | a pause is honoured and no death is forgotten |
| Parsing, diff, schema (`save/parse.py`, `diff.py`, `schema/events.py`) | two snapshots | one parser per table, one differ per stream, one class per event | tick | what happened is told, once, and nothing else |
| Rows and prompts (`db/repository.py`, `save/worldbuilding.py`, `narrative/prompt_builder.py`, `event_rendering.py`) | character rows with JSON columns, events | refresh, insert, render | tick, pipeline | the prompt says what the newest save says |
| Tracked lives (`save/autotrack.py`, `api/routes/tracked.py`, `db/registry/tracked.py`) | rules, tracked rows with pause and bump | add, delete, pause, bump, rules, auto-track, tick | user, tick, adoption | the kin the rules name are tracked, the user's marks stay |
| Library (`db/registry/campaigns.py`, `api/routes/campaigns.py`, `closing.py`, `sync/`) | registry rows, live DBs, archive directory with tombstones | adopt, seal, un-archive, delete, export, bootstrap, backfill | two machines and a file-sync vehicle | deletions stand, seals carry their chronicle, libraries converge |
| Log tailer (`tailer/`) | offset, tag waiting for its dump | feed, flush, rotate, reset | the game's mod, registry | every tag accounted, right owner |
| Live stream (`api/events.py`, `sse.py`, `log_buffer.py`; `frontend/src/api/`) | subscriber queues, log ring, the page's channel | publish, register, poll, reconnect, resync, reduce | tail, browser | no frame vanishes, the strip settles on the truth |
| Migration (`migrate/`) | DB schemas, backups | run, restore | orchestrator | only halt-save-tail is modelled |
| Providers over HTTP, heraldry, export, read-only routes, CLI | no protocol | | | not modelled |

What is hard in this system: code that awaits between reading and using a value
(scheduler, pipeline, closing ceremony), work handed between threads and loop
(`schedule`, switch posts, the pause cache, the bus), cancellation at any await,
the process being killed between two durable writes, foreign or repeated saves in
a shared directory, files that reach another machine in any order, and a long
chain parse - diff - schema - row - prompt in which a wrong assumption about one
save shows up many saves later.  `PROJECT.json` lists the hazards line by line
with the properties that cover them.

## The modules

| Module | Models | Notes |
|---|---|---|
| `NarrativeQueueState` | the queue's methods, each atomic under its lock | operations are reused by the scheduler module |
| `NarrativeScheduler` (extends it), `MCNarrativeScheduler` | schedulers, tasks, files and rows | `pc` is the await a task is suspended at; asyncio's FIFO semaphores and locks serve the smallest waiting id |
| `NarrativeSchedulerProofs`, `SaveTailProofs`, `OrchestratorProofs`, `DeathBiographiesProofs`, `CampaignLibraryProofs`, `LiveStreamProofs`, `TrackedLivesProofs`, `ChronicleProofs` | | each extends its component's module with its theorems; those of `OrderedPipeline` are in `SaveTailProofs`, those of `LogTailer` in `OrchestratorProofs` |
| `SaveTail`, `MCSaveTail` | a campaign's tail with its cache, crash and restart | a save is a playthrough and a date; a happening is a date; the diff stamps it with the newer save's date |
| `OrderedDelivery` | what the parse pipeline promises | abstract |
| `OrderedPipeline` | `map_ordered_bounded` | refines `OrderedDelivery`; justifies the single FIFO in `SaveTail`; its specification is `PSpec` |
| `Orchestrator` | the tails of the process, the two dicts, posted switches | |
| `DeathBiographies` | deaths, pause, drains, restart | uses the scheduler only as a queue |
| `SaveParse` | `parse_save`: raw tables with holes to a snapshot with reverse indexes | operators |
| `SnapshotDiff` (extends it) | every differ of `diff_snapshots` | operators on two snapshots |
| `EventSchema` | which payloads the strict event classes accept | operators |
| `Briefing` (extends both) | row refresh, event insert, rendering, world blocks, kinship labels, clusters | operators from snapshot and rows to what the prompt says |
| `Chronicle`, `MCChronicle` | a world the game moves through, saved, parsed, diffed, stored and briefed | composes the four modules above; the part of the tick `SaveTail` abstracts to dates |
| `TrackedLives`, `MCTrackedLives` | the tracked set of one campaign | game moves against user, routes and tick |
| `CampaignLibrary` | registries, databases and archive of two machines | the file vehicle delivers one file at a time in any order |
| `LogTailer` | the debug-log transport | lines stand for bytes; its specification is `LogSpec` |
| `LiveStream` | bus, SSE response, log ring and one browser page | one behaviour looks at one channel, `kind` |

Definitions named "Faulty variant" are plausible mistakes in the definition that
follows them; replacing the definition by one must break a property.

Data is abstracted: names, texts, timestamps, token counts and wording are left
out.  Control is kept: every guard, early return, `except` branch and the order of
durable writes.  External parts (asyncio's primitives, the game, the file-sync
vehicle, the operating system killing the process) are modelled from how the code
uses them.  `PROJECT.json` maps the main definition of each stretch of code; a
helper used by one mapped definition belongs to that definition's lines.

Particular abstractions:

* `NarrativeScheduler`: one kind of work (biographies).  A client cannot cancel a
  task before its first step, since it learns the id later.  `Known` are the
  characters with a row.  `raced` remembers the characters that two schedulers of one
  campaign have generated at the same time.
* `SaveTail`: the parse window and the queue are one FIFO.  Adoption of other
  campaigns' saves is in `Orchestrator`.  A blank playthrough id is left out.
  The tick's registry writes are one fault, `"registry"`.  The tag that a save gets
  before it is refused as a first baseline goes with its file in the same step; a kill
  between the two is left out.
* `Orchestrator`: a task slot is reused once its thread and callback are gone.
  Startup of the configured campaign is an `Adopt`.  A halt may be followed by the
  teardown; after a tail has failed neither is looked at.
* `DeathBiographies`: a tick ingests at most one death; all characters are
  tracked; the handler is atomic on the loop but not for the tick's thread.  The tick
  passes the gates one by one in its thread, what they let through waits in `posted`
  until the loop enqueues it (`LoopEnqueues`).  A drain may skip a campaign or raise half way:
  it schedules any part of what it should, and the rest is `skipped` until another
  drain looks.  The cache's two fields are written as one, and the lazily built
  scheduler's missing per-character gate is left out.
* `Chronicle`: the world moves along one facet at a time (life, person, court,
  family, mourning, titles, wars, bonds, works, dynasty), and deaths fall in every facet:
  each differ looks at its own tables and at whether the character is dead.  A save is written from the
  world with the holes the game leaves (`Junk` records, a death date before the
  bucket changes, an unwired title).  Dates are the number of moves so far.
* `CampaignLibrary`: one id stands for one campaign's uuid; names, and with them
  renaming, are left out, as with one campaign they decide nothing; a snapshot is a file
  that is there or not; `told` is the closing chronicle.  Only machines in `Homes`
  play the game.  A delete's database, snapshot pair and tombstone may each fail.
* `TrackedLives`: `world` is the newest save; a tick reads rules and ids at its
  start and writes at its end.
* `LiveStream`: a connection's queue stands for the subscriber queue and the bytes
  behind it; pings and responses a browser does not retry are left out.

## The runs

All runs pass.  Together they check 40 properties, each of which has a faulty variant
of the code that breaks it.

| Run | Bounds | Shows |
|---|---|---|
| `scheduler` | the live and the lazily built scheduler of one campaign, interchangeable (symmetry), 2 permits each, 2 characters, one of them without a row, 3 items, 1 event, ring of 2 | one generation per character and scheduler, with items of one character that hold permits of both schedulers; `QueuePageTruthful`: items, counters and ring agree with the tasks, the ring rolls over at the third item; no prose overwritten, later versions read no less, except where both schedulers have generated the character at once, and each generation stored once even then |
| `scheduler_order` | 1 permit, 1 character, 4 items | FIFO dispatch and lossless reorder (two queued items and their two heirs), items settle, `drain` returns |
| `save_tail` | two scripts of 3 saves, one of them with a foreign save in between; 3 cache numbers, queue of 1, cap of 1, 1 kill, every fault | recorded once, own playthrough only, nothing lost, recovery window closes, tail catches up; a fault that keeps a save from becoming the baseline happens at most once per behaviour (`Mars`).  With one kill no sidecar it orphans is read back; the theorems about the first three properties hold for any number of kills |
| `pipeline` | width 3, queue 3, 8 saves | in-order delivery with liveness |
| `orchestrator` | 2 campaigns, 3 task slots, 2 changes of campaign, 1 adoption, a failure, or a halt and a teardown | never without a tail, no superseded scheduler, the tail follows the player, teardown ends |
| `deaths` | 1 character, 3 toggles, 2 restarts, torn cache reads, failed commits, drains and generations | no death forgotten, pause honoured, a restart recovers what was missed; characters meet only in the pause, so one is enough |
| `library` | 2 machines, 1 campaign, 2 requests at a time, 1 crash or failure at any step, of the tombstone too | deletions stand, sealed means told |
| `library_live` | 2 machines, 1 campaign sealed before the archive directory moved, 1 request at a time, no faults | only deletion destroys data, broken cards heal, libraries converge |
| `tracked` | 4 characters, 3 titles with a liege cycle, 2 game moves, 2 user calls, a rule edit in flight | kin tracked and nobody else, marks survive |
| `tailer` | 3 events, one malformed and one invalid, 1 line of noise, 2 faults | tags accounted, right owner |
| `chronicle` | 2 tracked and 1 other character, 3 moves, ten facets | deaths and holdings told, nothing invented, no save refused, lines, briefing and realm true, titles remembered; three moves allow a state, its change and its change back, in one, two or three saves |
| `stream` | both channels, queue of 4, ring of 2, 1 save, 3 lines, 1 break or crash, 2 visits, 2 starts of the tail | frames accounted, log complete, strip settles; replies come in the order of the requests (`InOrder`) |

Deadlock checking is off in all of them: users and the game may stop doing
anything, and the bounds end every behaviour.

Exceptions the properties make, with the ghost variables that carry them:

* `RecordedOnce`, which is about pinned campaigns, and `CatchesUp` except behaviours in which a fault has kept a save
  from becoming the baseline (`marred`): a save that does not parse, a baseline that
  cannot be written, a registry write that raises inside a tick, or (after a kill
  inside a delete) a file that stays although it was dropped for a sidecar not its own.  With
  `Faults = {"registry"}` and without the exception: the events of the save are
  committed, `last_snapshot` stays, and the next save finds the same happenings
  under a later date, which the UNIQUE constraint does not catch.  `NothingLost`
  holds under all faults.
* `NoDeathForgotten` excepts a process in which a torn read of the pause cache has
  outlived the unpause (`misled`), and the deaths the last drain skipped because it found
  no scheduler or raised (`skipped`); `RestartRecovers` covers the next process.
* `PauseHonoured` is about what the gates and the drains let through.  The one
  biography a tick's gates had passed before the handler answered is still posted and
  enqueued after it; the loop does not look again.
* `ProseNeverLost` excepts the characters two schedulers of one campaign have generated
  at once (`raced`).
* `RealmTrue` says of a character the newest save places in no kingdom only that its
  realm stays as it was.
* `RightOwner` excepts logs that a rotation cut under the tailer (`cut`), and
  `TagsAccounted` the tag that waited at a crash (`lost`).
* `LibrariesConverge` excepts an export cut off between snapshot and sidecar.
* `TailFollowsPlayer` is about processes whose tails were neither stopped nor
  failed (`Undisturbed`).

## Fairness

* Scheduler: every task step is weakly fair: the loop runs what is ready and the
  CLI and git calls have timeouts.  `drain` has one too.  Users need do nothing.
* Save-tail: startup, producer and consumer are weakly fair, and the watcher sees
  every write.  Neither the game nor the user has to go on.
* Pipeline: the generator and each worker (rakaly has a timeout); not the producer.
* Orchestrator: every tail step, and the game goes on saving; nobody changes
  campaign, adopts or stops the server of necessity.
* Deaths: the tick, once begun, what it has posted to the loop, the handler, the
  generations and the restart.
* Library: requests and the startup thread run on once begun, the vehicle delivers
  every file in the end, and every machine is stopped and started again and again
  (strong fairness of `Stop`, since a request in flight disables it).
* Stream: browser and back end get on with what they have begun.  Nothing is
  assumed of saves, log lines, restarts or visits; `StripSettles` speaks of
  behaviours in which back end, tail and page stay.

## The proofs

`tlapm` checks the theorems below for every value of the constants: any number of
schedulers, campaigns, machines, tasks, saves, kills and faults, of which the runs
see a few.  Each component's proof has the same shape: an inductive invariant `IInv`
(checked by TLC as an invariant before it was proved), one lemma per action or group
of like actions, and a last temporal step.  The named assumptions on the constants
(`SchedulerAssumption`, `SaveTailAssumption`, ...) say that bounds are numbers and
that a marker such as `None` is not one of the values it stands beside; what goes
beyond that is said below.

| Theorem | Property | What the inductive invariant adds, and why |
|---|---|---|
| `TypeCorrect`, `SchedulerSafe`, `PermitsInOrder` | types, `OneGenerationPerCharacter`, width, `DispatchInOrder` | ids not yet handed out are blank; tasks before their first step are the youngest (or a fresh task could find the semaphore free beside an older one still waiting); a task cancelled before its first step has had its item removed (or it would end and leave its item queued) |
| `PageTruthful` | `QueuePageTruthful` | `SafetyInv` is enough; each step settles one item or is quiet for the page, and the counters are the cardinalities of what has ended |
| `ReordersKeep` | `ReorderKeepsEveryItem` | `HeirsKnown`: an item taken out is still listed by the reorder that took it, or has its heir, which is the heir of no other; a requested order of the queued ids names each of them (pigeonhole).  It holds for any number of schedulers: an item that another one's reorder takes comes back there, but it comes back |
| `ProseKept` | `ProseNeverLost` | `VersionsHeld`, `StoredIsOver`: the version a task has read stays the newest while it holds the character's lock, as long as no other scheduler of the campaign works on the character, and a task stores once; `RacesSeen`: two that do are in `raced` |
| `PipelineSafe`, `PipelineImplements` | `Conveyed`, the safety half of `DeliversInOrder` | the generator awaits a head only with a window; every step is one of `OrderedDelivery` or a stutter.  Not even a positive width is assumed, as the code clamps it |
| `NothingEverLost`, `PlaythroughsApart` | `NothingLost`, `OnePlaythrough` | `Shape`: backlog, queue and the producer's hand form one line of protected files in the order of their numbers, the consumer works on its head; `Accounted`: what the consumer holds in memory is as accounted for as the baseline on disk |
| `NeverTwice` | `RecordedOnce` | `Behind`: a file that waits in no line is behind the baseline; `Redo`: rows past the baseline (a kill between commit and baseline write) come from one file, the first of its campaign to be diffed again, so they get the same stamp; `TagsOwn`: no sidecar makes the process skip a save of its own campaign |
| `AlwaysTailed`, `SchedulerCurrent` | `NeverUntailed`, `NoSupersededScheduler` | a task leaves `ingest_tasks` no later than it is cancelled (`RegisteredAtWork`); what is registered for a campaign is a task of that campaign (`Registered`); tails are told only of campaigns not their own (`Foreign`); a superseded task is cancelled or on its way out |
| `DeathsAwaited`, `PauseHolds` | `NoDeathForgotten`, `PauseHonoured` (action property) | `CacheHonest`: cache and file differ only between the handler's save and its reset; `TickAwaited`: a death about to be committed was posted, or what kept it out is still on or about to drain.  `PauseHolds` counts what has passed the gates and not begun (`Passed`): moving it from thread to loop to queue does not add to it |
| `DeletionsStand`, `SealsTold`, `FilesKept` | `DeletionStands`, `SealedIsTold`, `KeptUnlessDeleted` (action property) | `Known`: whatever bears an id was created, and ids are handed out once (uuids), so a new campaign cannot revive a deleted id; `Struck`: tombstones, deletes in flight and removals under way are of campaigns someone deleted; `ToldFirst`: the ceremony seals what it has told |
| `EveryTagAccounted`, `OwnersRight` | `TagsAccounted`, `RightOwner` | `DumpFollowsTag`: the next line after a tag that is not noise, in the file or still to be written, is its dump; `PendingMatched`: the tag that waits will meet its own |
| `NoFrameVanishes` | `FramesAccounted` | a frame a worker thread posted still has its connection when the loop gets to it; an ingest page's queue is registered from the first byte; on the log page nothing is published |
| `LogPageComplete` | `LogComplete` | `Repetitions`: a line still to come, in the queue or in the ring, whose number the page will take for a repetition is already on the page, lost to the ring, or below a number of an earlier boot; the queue ascends up to the cursor; a reply under way is the ring of some moment of this boot (`Backfill`) |
| `WalkExact`, `Candidacy` | | operators, no behaviour: a walk of five lieges meets every title of a chain that `ChainAssumption` bounds; the order of the cases in `auto_track_candidates` decides the role, never who is a candidate |
| `KinAlwaysTracked`, `MarksAlwaysSurvive` | `KinTracked`, `MarksSurvive` (action property) | `TrackedInv`: what a request or a tick has read and not yet written was kin of a character played when it was read, and `kin` only grows; a row an auto-track or a tick meets keeps its marks |
| `DeathAlwaysTold` | `DeathTold` | `DeathInv`: per character, what the baseline says of its death against what has been told: nothing as long as neither signal is in it, one event since, none if the first baseline had it; a character the baseline lacks is pruned or has not been told.  `WorldOK`: a life has a date of death exactly when it is past "alive" |
| `HoldingsAlwaysTold` | `HoldingsTold` | `HoldInv`: `Balanced` (what was held at first, plus gains, less losses, is what the baseline says) for who is alive in it, `Mirrored` for two characters and a title; events of these streams are dated no later than the baseline, so that those of a new save are new rows and not duplicates of old ones; `SnapOK`: the index of the titles is that of their holders, and a baseline with no title at all, which the differ takes for stale, does not occur |
| `TitlesAlwaysRemembered` | `TitlesRemembered` (action property) | `HeldInv`: the column of a character the baseline gives titles to is the baseline's; the identities an event brings leave the column alone |
| `NoSaveEverRefused` | `NoSaveRefused` | `SoundInv`: the game's records hold what it writes (`Written`, kept by every move: a table of field and value for each, `Fine`), and the baseline was parsed from such records, so that no id, key or name a differ puts into a payload is `None` (`SnapSound`); each differ's payloads are what the schema accepts of their types (`DiffAccepted`) |
| `NothingEverInvented` | `NothingInvented` | `ToldInv`: of every happening, what has been told plus what the next save would tell (`Owes`: a spouse, a divorce or a war the baseline does not know, a contract ended since, a building under way that stands, a pregnancy gone without a birth) is no more than has happened (`Accounted`).  A move of the game makes the next save tell only what it did itself (`Honest`); a tick tells of a happening one event at most and only if it is owed (`TickTold`); after it nothing is owed (`ReadsSettled`).  `Past`: the baseline's memories are still remembered and its contract has its owner; `Indexed`: its reverse indexes are those of its rows |
| `LinesAlwaysTrue` | `LinesTrue` | `NamesInv`: whoever of the baseline a told event's line looks up has a row with a name, and every told event has a renderer (`Renderable`).  What a line looks up is among the participants whose rows the tick hydrates before it inserts the event (`Introduced`, `*Spoken` per differ) and among the ids the extractor collects (`LooksReferenced`); a name, once written, is not cleared (`UpsertNames`).  Untracked characters stay in the game and so in every baseline; a tracked one is named by each refresh |
| `BriefingAlwaysTrue` | `BriefingTrue` | `BriefedInv`: record and cause of a tracked row are those of the baseline whenever the baseline has the character (`TickRecord`: the refresh writes both, and a `None` cause clears the column; the identities an event brings touch neither), and an untracked row has no record.  `FamilyRead`: a family in the baseline is as the moves leave it (`FamilyOK`): a primary spouse is a spouse, a parent is tracked and nobody's child, spouse or concubine.  A label is that of the first entry of the family table that has the person (`KinLabel`), and "parent" stands only where none has |

The theorems about `Chronicle` go through every operator of the chain: the tree
of the save, its parse with buckets and reverse indexes, every differ, the stored
form of an event.  They say of each differ which event types it can tell
(`TitlesLiving`, `WarsLiving`, ..., `PlainEvent` for the rest), of each move what it keeps
of the world (`Kept`, `Passed`), and of a tick which rows it adds (`TickStores`).
Their hypothesis `Atoms` says that `None` and `Junk` are no record, number,
character or event type; TLC's model values are such.  `NoSaveEverRefused` has one
more, `Vocabulary`: `None` is no word or number of a save and no set of events, perks
are numbers, and the pregnancy trait resolves to an id (otherwise the code
tells no miscarriage, and `Pregnant` is no trait); `NothingEverInvented` has that
`None` is no terminal status, `BriefingAlwaysTrue` that it is no label of kinship;
`LinesAlwaysTrue` has the first two.  `SoundInv` and `ToldInv` were checked by TLC before
they were proved.

`TrackedLives` has one assumption beyond types, `ChainAssumption`: the lieges above a
county are met within five steps, or repeat.  The game has five ranks, barony to empire,
and a liege is of a higher one, so that a chain without a circle has at most four
steps above a county.

What proof attempts have corrected in the models:

* `SaveTail`: a kill inside a delete leaves a sidecar that a later save of that number
  inherits; if the unlink of a file so mistaken for a foreign one fails, its sidecar is
  gone and it is taken in at the next boot, behind a newer save, and a happening is
  found by two saves.  It takes three kills, more than the run's bound.
  `Seed` now counts such a file as a fault (`marred`).  And `RecordedOnce` is about pinned
  campaigns: in one without a pin, saves of two playthroughs take turns as baseline.
* `LogTailer`: lines a rotation takes from a tailer that reads the log again, from
  behind what an earlier process had read, did not count as cut; with three faults,
  more than the run's bound, `RightOwner` failed.
* `CampaignLibrary`: nothing had said that a campaign sealed before the archive moved
  (`Old`) is a campaign.
* `LiveStream`: a step publishes one frame or two, and a poll returns an interval of
  numbers; both are said so now instead of by folding over or sorting a set, which
  the prover cannot follow.
* `TrackedLives`: five steps up a liege chain are enough only for chains that five
  ranks allow; nothing had bounded them (`ChainAssumption`).
* `SaveParse`, `Briefing`: the walks over lieges and families are recursive functions and
  folds now, the moves of the game have names, and the differs of alliances,
  artifacts and court positions are three definitions as in the registry of the code.
  The reachable states are the same.
* `Chronicle`: with six moves, more than the run's bound, `NothingInvented` failed, as
  the game could build again what already stands in a slot, and cancel it, and could
  give the id of a contract that was gone to another character.  `SiteMoves` and
  `ContractMoves` now exclude both; the second is an assumption about CK3 the code
  makes too (see Observations).
* `BriefingTrue` also spoke of the realm a briefing describes; that part, which no proof can
  reach, is now `RealmTrue`, and the rest is proved.
* `EventSchema`: the union of the payload tables is a set of tables instead of one
  table put together with `@@`, which the provers cannot expand.

Only model-checked, and why:

* liveness, under the fairness above (`RecoveryEnds`, `CatchesUp`, `WorkEnds`,
  `TailFollowsPlayer`, `TeardownEnds`, `RestartRecovers`,
  `BrokenCardsHeal`, `LibrariesConverge`, `StripSettles`, the fair half of
  `DeliversInOrder`);
* `RealmTrue`: the realm of a world context is found by a recursive function over the
  family and by `FoldLeft` over a chain of lieges, among titles in sorted order, and what a
  recursive definition computes is out of this prover's reach (induction over data).

## Observations

Places where the code and a comment, a document or a reasonable expectation part.
The models show them when a bound or a guard named here is changed.

Four comments or docstrings say what the code does not do:

* `resolve_or_build_scheduler` (`api/dependencies.py:146`) may give a campaign a second
  scheduler with locks of its own, so a regeneration and a scheduled run of one character
  can overlap, write the same vN and lose a prose file (`raced`); the docstring of
  `regenerate` (`narrative/scheduler.py:219-221`) says it "Still serialises through the
  same single-lane semaphore + per-character lock so a concurrent scheduled run can't
  race-insert two biography rows."
* `reorder_queued` (`narrative/scheduler.py:348`) takes its snapshot of the process-wide
  queue; with two campaigns' schedulers it removes the other's items and respawns them on
  itself, for its own campaign.  The route's docstring
  (`api/routes/narrative_queue.py:359-361`) says "the queue items each scheduler owns are
  reordered independently."  No item is lost (`ReordersKeep`).
* A death that the unpause drain skipped (`api/routes/settings.py:497`) waits for another
  drain, at the next unpause, stop or start; the comment (488-491) says "its work will be
  picked up by the next save-tail tick", which offers only the deaths of its own save.
* The region of a character who lost the last title stays (`db/repository.py:57`); the
  comment on the column (`db/models.py:81-87`) says it is "NULL when the character holds no
  kingdom-tier title".

Scheduler, tails and deaths:

* A generation that wrote its file and failed to insert its row leaves file and row
  versions apart for good (`StoreFails`).
* Playing A, B, then A again before A's first tail has ended: its done callback
  (`orchestrator.py:293`) deregisters the new tail, and a second one is spawned.
* A gate that loaded the pause before the unpause and stores it after the reset
  (`narrative/pause.py:64`) makes the drain skip every death (`misled`).
* A drain looks for stored biographies only, so it may queue a second one of a
  character whose first is under way; and a biography scheduled inside the tick may
  read the character before the death event is committed (`"blind"`).
* Deaths that fall before a discarded baseline are never told.
* `gc_oldest` never collects a backlog, since all of it is protected; a kill between
  the two unlinks of `mark_processed` (`CrashInDelete`) leaves a sidecar that the
  next save of that number inherits.

Diff, rows and prompts:

* Death clusters are never found in stored events: `narrative/clusters.py:84` reads
  `memory_type` at the top level of a payload that is stored under `p`.
* Region, primary title and nickname stay when the save no longer gives them, as
  `None` is skipped.  For the dead, whose titles have passed to the heir, this is what
  keeps their world in the biography.
* A great cause is cleared when the dead leave their war; the comment of
  `narrative/prompt_builder.py:447-454` says the cause of a death without conclusion
  stays.  `BriefingTrue` is about the column.
* `summarise_region` "returns None when the character holds no titles at all"
  (`save/worldbuilding.py:277-278`); it returns the spouse's or a parent's realm, as
  the docstring of `_primary_realm_of_character` (127-138) says.  `RealmTrue` asserts the latter.
* An event whose insert raises (`save/tick.py:896-932`) is logged and lost, as the
  baseline advances past it; `SaveTail` models it (`"event"`), `Chronicle` does not.
* The glossary misses `primary_attacker_id`, `primary_defender_id` and
  `deceased_killer_id` (`narrative/names.py`); the renderers do not show them either.
* Two undated memories of one type, and two contracts without an id completed in one
  save, collapse to one event.
* `_diff_contracts` (`save/diff.py:1650`) takes a contract's owner from either snapshot:
  an id given to another character's contract between two saves would be told of both.
* The tier memo of `save/parse.py:1391` keeps what was inferred inside a cycle.

Library and tracked lives:

* Delete by name (`db/registry/campaigns.py:483`) takes the first of two campaigns of
  one name; adopting twice at once makes two active campaigns.
* A kill inside a delete, before the tombstone, or a tombstone that cannot be written,
  lets the next startup insert the campaign again where the pair is still found; a
  locked file leaves an orphan DB.
* Sealing an un-archived projection again backs the snapshot up onto itself; an export
  cut between snapshot and sidecar is not retried.
* The closing prompt dates the end of the campaign by `last_event_at`, a wall clock.
* Adoption's auto-track (`api/routes/campaigns.py:478`) ignores stored rules; two rule
  updates at once lose one; a tick writes roles from the ids it read at its start; an
  emptied tracked set is never auto-tracked again; a request that ends after a delete
  leaves rows of no campaign.

Tailer and stream:

* A crash loses the tag that waits for its dump (`tailer/ingest.py:309` saves the
  offset past it); a log truncated and grown beyond the old offset is not noticed.
* With `InOrder = FALSE`, two resyncs under way leave the strip on the older answer.
* A missed `chronicler_recovered` frame leaves the banner up; a burst longer than the
  queue can displace the last `cache_state`; the log page drops lines of a restarted
  back end until their numbers pass the last one seen, and those logged between a
  stream's first byte and its cursor; a blip of the stream of a stopped tail clears
  the page's "dead" mark; `EventSource` does not retry after an HTTP error.

## Not modelled, and why

* `LogTailer`: noise never carries an Internal ID, so that a foreign root line taken
  for a dump (`tailer/parser.py:279-286`) is outside; a tag times out after
  `ScopeTimeout` lines, which one line of noise does not reach (`EveryTagAccounted` is
  general).
* `LiveStream`: the page asks for the newest 500 lines of a ring of 2,000
  (`LogsPage.tsx:40`, `api/log_buffer.py:48`), the model for all of its ring.  Lines the
  page drops because their number is below the last one seen are excused (`gone`).
* `SaveTail`: a kill between tagging and discarding a save refused as first baseline.
  `Chronicle`: its tick is one step; `SaveTail` has the kills inside it.
* `EventSchema`: the types of the fields; which fields there are is modelled.
* The HTTP providers (`narrative/anthropic.py`, `openai_compatible.py`): the same
  interface as the modelled provider, a call that returns or raises.
* The migration itself: Alembic on one file behind a backup; the gate in front of it
  is planned.
* Heraldry, export, search, cost, hall and the other read-only routes: queries and
  rendering, no state of their own.
* The command line: argument parsing around the parts above.
* Localization and name tables: lookups of text.

## Plan

1. Migration steps, backup and restore with the gate in front of them, and the engine
   cache they evict.
2. An abstract chronicle (happenings, told once) that `SaveTail` and `Chronicle` both
   refine.
