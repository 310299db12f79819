# A TLA+ model of the autonomous game agent

This directory is a verification development for `src/`: TLA+ modules that model
the agent and the tools around it, TLC configurations that check them on small instances,
and TLAPS proofs of the properties that matter most.

## The system and its parts

The agent plays an RPG-Maker game through an operating-system window. A planner
(an LLM) proposes a task, the Manager grounds, queues and starts it, the Body runs
a skill for it, a verifier judges the outcome, and only verified outcomes lead to
the next plan. A plugin in the game, the bridge, answers snapshot requests through
files. Everything the agent does is meant to be on record. Around it stand the
controlled live smoke runs with their audit artifacts, the spatial perception corpus
and benchmark, learning code, the research atlas that publishes an architecture
registry and a private research vault, and `projectctl`, which says whether a
checkout may be handed over.

Paths below are relative to `src/src/fh_agent/` unless they start with `src/`.

### The control plane (one module each, with a module of proofs)

| Part | State | Operations | Module |
|---|---|---|---|
| A. Manager scheduler, orchestrator, completion events | queue, running task, closed tasks, recorded events | submit, start, tick, mark, cancel, complete from a skill run, record | `TaskLifecycle`, `TaskContract` |
| B. Skill runner and guarded input | step counter, latest verdict, rate-limit timestamp, stop latch, event log | run, execute, send, append | `SkillRun` |
| C. Bridge snapshot exchange | request file, response file, JSONL feed and its read offset, evidence log, watcher's memory of names | preflight, publish, wait, relay, consume, synchronise | `SnapshotExchange` |
| D. Hierarchical step, replan loop, budgets | idle/running scheduler, planning context, attempt counters | run_once, run_bounded | `HierarchicalLoop` |

### What the agent sees, decides and learns

| Part | State and operations | Module |
|---|---|---|
| Visible surface of the plugin (`src/bridge/rmmv_visible_bridge.js`) | a stack walk over display objects and their parents | `SceneWalk` |
| Visible payloads and observations (`bridge/sanitizer.py`, `bridge/firewall.py`, `observation/`, `perception/ui_state.py`, `perception/offline_processor.py`) | raw data, sanitized data, observation; three doors: plugin, feed, saved frame | `VisiblePayload` |
| Planner and grounding (`planner/`, `manager/grounding.py`, the catalogs, `manager/task_manager.py`) | context, answer, grounding, task, note; over and over | `PlanAndGround` |
| Skills, verifiers and rewards (`body/skills/`, `verifier/`, `manager/verified_reward.py`) | positions, dialogue pages, steps, verdict, reward | `VerifiedSkills` |
| Focus guards and key backend (`game/linux_focus_guard.py`, `game/xdotool_adapters.py`) | the desktop, the commands of one check, the key sent | `FocusCheck` |
| Offline pilot step (`pilot_step.py`, `bridge_runtime.py`) | one recorded scenario against budgets | `PilotStep` |
| Observations of an attempt (`observation/primed_source.py`, `manager/task_events.py`) | what planner, skill and verifier look at; the event's row | `ObservationChain` |
| Learning plumbing (`rl/`) | environment, recorder, buffer, relabelling | `ReplayLearning` |

### What is stored and reported

| Part | State and operations | Module |
|---|---|---|
| Entity risk (`memory/entity_risk.py`) | score rows and events; read, add, write on several connections | `EntityRisk` |
| Room graph (`memory/room_graph.py`) | rooms, visits, edges; three transactions a passage | `RoomGraph` |
| Facts, strategies, skill results (`memory/facts.py`, `strategy_graph.py`, `skill_registry.py`) | rows, open transactions; failing statements and commits | `KnowledgeMemory` |
| Evidence capture and lookup (`perception/capture_session.py`, `memory/evidence.py`) | files, event log, index; two sessions, deaths | `EvidenceCapture` |
| Controlled live smoke runner and validator (`evals/controlled_live_smoke_*.py`) | counters, clock, gates, report | `LiveSmoke` |
| Live audit pipeline (`evals/live_*.py`) | preflight, manifest, plan, report, summary as files | `SmokePipeline` |
| Smoke evidence review | validation, review, verdict, stability review as files | `SmokeEvidence` |
| Spatial benchmark (`evals/spatial_perception_metrics.py`, `reference_spatial_producer.py`) | components of a picture, matching of points | `SpatialBenchmark` |

### Research atlas, vault and project tooling

| Part | State and operations | Module |
|---|---|---|
| Reference index and navigation (`research_atlas/private_reference_index.py`) | declared references, roles, paths | `ReferenceNavigation` |
| Component knowledge graphs (`knowledge_graph.py`) | selection, skeleton, overlay over the references | `KnowledgeGraph` (extends the former) |
| Source resolution, intake (`source_resolution.py`, `research_intake.py`) | catalog, alias, notes, publications | `SourceHistory` |
| Registry, hierarchy, page paths (`validator.py`, `preferred_paths.py`) | titles and part_of edges, the walks over them | `AtlasPaths` |
| Final Research Map (`final_projection.py`) | routes, pages, links, owners, manifests | `ResearchMap` (extends the former) |
| Research question readers (`rq_presentation.py`) | contents, revisions, a conclusion's review | `ReviewedConclusions` |
| Zotero projection (`zotero_projection.py`) | versions on disk, index, manifest | `ZoteroHistory` |
| Technical projection, direct views (`private_projection.py`, `private_views.py`) | two roots of files, late checks, manifests | `DirectViews` |
| Vault migration (`product_migration.py`, `workspace_harness.py`) | vault, restore points, receipts, running command | `VaultMigration` |
| Public workspace (`workspace.py`) | registry, notes on disk, running writer | `WorkspaceWrite` |
| Spatial annotation and corpus (`evals/spatial_annotation_*.py`, `spatial_corpus_assembler.py`) | workflow file, window with drafts, overlapping commands | `SpatialCorpus` |
| Project control (`projectctl.py`) | checkouts, server, tracking refs, one doctor's questions | `Handoff` |

What is not modelled at all is listed at the end.

### How the parts interact, and what is hard

- **A** closes a task before it records the completion event: the two can come
  apart (a refused insert, a failed commit, an invalid event). Results of skill
  runs come back after the task they belong to may have timed out or been
  cancelled. SQLite stores share one connection and therefore one transaction.
- **B** reads the clock, the stop file and the focus one after the other and sends
  last, so each may be stale when the key goes out; an exception can leave `run` at
  any point; one executor's rate limit and one event log span many runs.
- **C** is a protocol between two processes over files, with a deadline, torn
  writes, restarts, late answers and a consumer that keeps a byte offset.
- **D** composes A, B and C; an exception or a nonterminal result leaves the
  scheduler busy, and budgets are counted in different scopes. It hands one
  observation from the planner to the skill (`ObservationChain`), however old.
- **What the agent sees** passes five filters written separately (plugin walk,
  sanitizer, firewall, builder, context): hidden state must get through none of them,
  and they must not lose a death screen either.
- **The memory** reads, merges and writes back in Python: two connections can overwrite
  each other's updates, and some operations commit in several transactions.
- **Live smoke runs** read gates, clock and budgets one after another; their reports,
  reviews and verdicts are files made from each other at any time, in any order.
- **The atlas** works on declarations that authors change one at a time; what is
  published rests on many of them, through walks written several times over.
- **The commands over the vault, the workspace and the corpus** write file by file and die in
  between, over files that people edit; ownership is told from bytes and manifests.
- **The doctor** asks git one question after another while fetches and pushes go on.

## Plan

The modules were written in this order: the control plane (A to D) and its first proofs; the memory
stores and the live smoke runs; what the agent sees and decides; the vault, the atlas and the corpus; the suites.
The proofs followed the same order: the four control-plane modules, all their safety
properties and both refinements; then the parts of the suites one by one; then the suites of the vault and of the agent as a whole.
What is left:

1. `RecordsProofs` covers the protocols of `MCRecords`. The suite as a whole also has `SpatialBenchmark`, whose
   search is recursive; written as a function of the points that are left it could be reasoned about.
2. `IndexesRun` of `EvidenceCapture`, stated without the filter over the log, `VisitsCoverPassages` of `RoomGraph` without its sums.
3. The rest of the atlas. `ReferenceNavigation` is nearly first-order; the walks of `AtlasPaths` and `KnowledgeGraph` can be
   taken by a least counterexample, as `SceneWalk` was. (`SourceHistory` and `ReviewedConclusions` are proved.)

## What is modelled

### TaskLifecycle and TaskContract (part A)

`TaskLifecycle` is `manager/scheduler.py`, `manager/orchestrator.py`,
`manager/completion_event.py`, `manager/executor.py` and the two sinks
(`manager/event_sink.py`, `memory/manager_event_log.py`).

| Model | Code |
|---|---|
| `queue`, `current`, `completed` | `TaskScheduler._queue`, `_current_task`, `_completed_tasks` |
| `runs` | skill runs started for a task whose result is not back yet |
| `rows`, `pending` | recorded events; rows inserted into an open SQLite transaction |
| `Enqueue`, `StartNext`, `Tick`, `MarkSuccess`, `MarkFailure`, `CancelCurrent`, `ApplyMockCompletionSignal` | the scheduler methods and the orchestrator methods that call them and record the event |
| `BeginExecution`, `CompleteFromSkillRun` | the executor reading the running task; `complete_from_skill_run` with its three branches |
| `Record` with `MemoryRecord`, `SqliteRecord` | the sink: nothing recorded (no sink, an event that does not validate, an insert that raises), recorded, or inserted with a commit that fails |
| `OtherStoreCommits`, `ClearSink`, `Restart` | a commit by another store on the same connection; `clear()`; the process starting again with an empty scheduler and the committed rows |

Closing and recording are one action: the code closes first and records second on
one thread, with nothing in between that others see; what can come in between, an
exception, is the branch of `Record` that records nothing and leaves the task closed.

`ticket` numbers submissions and is not in the code. The code tells tasks apart by
the caller's `task_id` only, and `ResultClosesItsOwnTask` states which task a late
result closes in terms of tickets; it needs the constant `UniqueTaskIds`.

`TaskContract` is the promise without queue, transactions and events: tasks run one
at a time in submission order, end once, a crash forgets the scheduler's tasks, and the
log of outcomes only grows, by outcomes tasks really had. `TaskLifecycle` refines
it (`RefinesContract`), and so does `HierarchicalLoop` (`KeepsTheContract`).

### SkillRun (part B)

`SkillRun` is `SkillRunner.run` (`manager/skill_runner.py`) with
`InputExecutor.execute` (`game/input_executor.py`) and `EventLog.append`
(`memory/event_log.py`) taken apart: `pc` names the places between two reads of the
outside world, and the stop file, the focus, the clock and an exception act at each.
`Choose`, `OutOfSteps`, `Observe`, `LogAction`, `Verify`, `LogVerifier`, `LogReward`,
`LogStop` and `Finish` are the steps of the loop in its order; `ReadClock`,
`CheckStop`, `CheckFocusAndRate` and `Send` those of `execute`, which takes its
timestamp before the other checks and charges it after the send. A send may deliver
the key and then raise (`xdotool` killed at its timeout), so an input can reach the
game without being charged or logged. The skill's choice, the observation and the
verdict are nondeterministic, within what their types allow.

### SnapshotExchange (part C)

The host is `bridge_snapshot_observation.py` with `bridge/snapshot_request.py`,
`bridge/snapshot_relay.py` and `bridge/observation_source.py`; the game is
`src/bridge/rmmv_snapshot_request_watcher.js` and
`src/bridge/rmmv_snapshot_file_transport.js`. One observation is the actions
`Capture`, `Bind`, `Publish`, `Await`, `Relay`, `Consume`, `Return`, in the order of
`observe()`; the game answers (`PluginAnswers`), gives up on a name
(`PluginGivesUp`), or dies while a temporary file exists (`GameDies`). Another
writer of the run may log a screenshot (`OtherEvidence`), a file of someone else may turn up
as a response (`ForeignResponse`), and the host may fail anywhere (`Abort`) or be
started again (`HostDies`).

Abstractions: a request id is a cycle number (the code draws a fresh token per
cycle); a payload is the screenshot it claims; the feed is a sequence of lines, each
with the record it holds (0: bytes that are no JSON object), whether the sanitizer
accepts it and whether it ends in a newline. A relay that fails leaves nothing, a
fragment, or the whole record, and what is appended after a fragment continues it.

### HierarchicalLoop (part D)

`run_bounded` (`bridge_assisted_runtime.py`) over `manager/replan_loop.py`,
`manager/hierarchical_step.py` and `manager/skill_runner.py`. The other parts appear
as their outcomes: an observation is taken, is exhausted, or raises; an input is
sent, blocked, or raises after it may have gone out; a verdict is any verdict; an
event is recorded or the sink raises. Each counter lives where it does in the code: `turn`
in one call, `snapshots` and `actions` in the wrappers that last for the runtime's life.
Between calls the caller may start the oldest pending task or cancel the running one.

### The other modules

Each has its own `Init`, `Next`, type invariant and properties, and is written over its own
variables; the suites below instantiate them. What matters about the abstractions:

**Seeing.** `SceneWalk`: any tangle of parent links and child lists of three nodes, circles
included. `VisiblePayload`: one payload of one of three doors ("plugin", "feed", "frame") from
raw data to `Observation`; the offline door accepts negative coordinates, and a hint "field"
invents the position (0, 0), as a test expects.
`EvidenceCapture`: two sessions on one run directory; a record written after a torn line is
lost with it, and the lookup raises on that log from then on.

**Deciding.** `PlanAndGround` lets the model answer anything its schema can express. `VerifiedSkills` plays the three
skills against a game that reacts, or interrupts by itself (`Calm = FALSE`); the
shortest-walk property is about moves no longer than the tolerance (a longer
move oscillates around the target). `FocusCheck` is both guards, command by command, on a desktop that changes.
`PilotStep` is given what planning, grounding and the verifier decide. `ObservationChain`:
the first input and the verifier's reference may be as old as the planning, and a change
while the planner was busy counts into the verdict; the status "stopped" merges timed out and failed.
`ReplayLearning`: rewards are success or cost; the driver resets when an episode is done;
relabelling a buffer of several episodes may pick a goal of another one.

**Remembering.** `EntityRisk`, `RoomGraph` and `KnowledgeMemory` take each call apart into its
SQL statements and commits, on two connections whose calls interleave and raise anywhere.
`RowAgreesWithEvents` and its neighbours say what survives that: lost updates of a
score do occur with two connections, so the sum of the events bounds the score in general and
equals it only for updates that did not overlap.

**Reporting.** `LiveSmoke` reads clock, gates and budgets in the order of the loop. `SmokePipeline` and `SmokeEvidence`
treat each artifact as a file whose command may run at any time. `SpatialBenchmark` compares squared distances; player points and
confidence are left out, and the matching is of maximum size, not of least distance. Its search is
recursive, so the module is for TLC only.

**Atlas.** `ReferenceNavigation` and `KnowledgeGraph` take any set of declared references from a menu; at
most one record is withdrawn; titles and note text are left out. `SourceHistory`: a note that is deleted, or pointed
elsewhere and back between publications, may retarget: the code compares consecutive publications only. A catalog
that is unavailable is merged with a version that does not resolve. `AtlasPaths` and `ResearchMap`: names stand for normalised,
portable stems; a preferred page moves on a rename, a homonym or a change of an ancestor, and
on nothing else; the views need their fixed anchors declared (`Complete`). `ReviewedConclusions`: every revision
of a record bumps its version, as `src/docs/research-atlas/Research Intake and Maintenance.md:33` demands of authors; the review
state and the maturity of a document are one value, `checked` stands for depth, sections, date and
resolved version, and a record that is removed is archived. A record refers to records of the kinds the intake lets it refer to
(`Fits`); of the gap states the code treats `unassessed` like `insufficient_evidence` and `narrowing_required` like
`covered_by_prior_art`, so the model has one of each pair.

**Files.** `VaultMigration`: a file is the version it was emitted from and how it was touched. A leftover temporary file
blocks both commands until it is moved away; `recover` needs exactly the inputs of its receipt;
edits made after the safety copy are overwritten. Writes within a phase come in any order. `ZoteroHistory`: identities are values, rendering is left out.
`DirectViews`: the two roots `T` and `V`; outputs are of the classes that differ in how ownership is shown. A first generation that is interrupted
leaves files nobody owns, and moving a whole root away forgets the source history.
`WorkspaceWrite`: two records, notes of identity, name and relations; copies of a generated note that keep its mark are pruned by design; a
generated note that was torn stops the writer. `SpatialCorpus`: frames are one row of pixels; assembly is the initial state. A
review that passed counts although a later one of the same content asked for a revision; an obsolete one blocks
freezing until the annotation is what it was; a frozen version still accepts reviews. `Handoff`: a commit is the set
of changes in its history, one doctor runs at a time, work on a checkout voids its report, and a verdict is relative to
the last fetch; there are no force pushes or rebases, and at most one command of a report fails.

## The suites

A component that shares no state with the others is checked in a suite together with its
kind: `MCEnds`, `MCAgent`, `MCRecords`, `MCAtlas` and `MCVault`. `Init` of a
suite chooses the `part`, the part's module runs over the slots `x1`, `x2`, ..., and `Next` keeps the part. Nothing is lost
against separate runs, as no behaviour of one part depends on another: the parts really are
separate programs, or pass finished records to each other. Where two parts do share state
(the scheduler and its sink, the runner and its log, the loop and the scheduler, the two projectors, references and graphs) one module holds both.
A suite's property conjoins the properties of its modules, each under its part:

| Run | Property | Of the parts |
|---|---|---|
| `loops_end` | `EveryLoopEnds` | skill run, snapshot cycle, bounded call, live smoke run, planning attempt, verified skill, scene walk, pilot step: `RunEnds`, `CycleEnds`, `CallEnds`, `AttemptEnds`, `WalkEnds`, `PilotEnds` and the live run's end |
| `agent` | `DecisionsRestOnWhatIsSeen` | `SurfaceIsWhatIsSeen`; `NothingHiddenGetsIn`, `SpritesKeepTheirLook`, `EvidenceIsTheFrame`, `PluginIsUnderstood`, `DeathIsNotMasked`; `EvidenceWasShown`, `TargetIsPlain`, `AcceptedTasksBind`, `TargetIsTraceable`, `TasksAreClean`; `StillDesktopIsToldRight`, `NoTargetOfTwoWindows`; `NoInputToALostGame`; `OnlyTheFirstActsOnOldNews` |
| | `OutcomesAreEarned` | `SuccessIsReal`, `RewardTellsOutcome`, `GreedyWalkIsShortest`; `VerdictSpansTheAttempt`, `OneAuthority`; `ReplayIsReproducible`, `BudgetsTellTheRun`, `SuccessFollowsAnInput`; `RelabelledIsReplayed`, `ExamplesReachTheirTarget`, `NewestAreKept` |
| `records` | `StoresKeepWhatTheyTook` | `RowAgreesWithEvents`, `SerialUpdatesAddUp`, `ReturnedRecordsAreCovered`, `ListedInOrder`, `RaisedCallsWriteNothing`; `VisitsCoverPassages`, `EdgesJoinKnownRooms`, `MemoryOnlyGrows`; `EvidenceBacked`, `ReturnedIsCommitted`, `StatsCountResults`; the scheduler over its list of events; `EventsHaveTheirFrame`, `AtMostOneUnlogged`, `IndexesRun`, `LatestMovesForward` |
| | `ReportsTellTheRun` | `WithinLimits`, `StopIsHeeded`, `ReportTellsTheInputs`, `ValidatedRunsAreClean`, `FullRunsValidate`, `ObservationIsReported`; `SummaryDescribesPlan`, `LegacyDrivesNothing`, `OfficialArtifactsAreClean`, `AllowedRunFindsItsPathTaken`; `VerdictStandsOnReview`, `PoliciesAgree`, `VerdictIsNotInherited`, `StabilityCountsThreeRuns`, `StabilityIsOfReviewedRuns`; `MatchingIsMaximum`, `ScoreIgnoresOrder`, `ComponentsAreBlobs` |
| `atlas` | `ReadersShowWhatWasDeclared` | `BuilderMeetsContract`, `ReadingsNameTheirPaper`, `RolesAreNotInherited`; `OnlySubtreeSelects`, `LinksHaveBothEnds`, `OverlayOnlyAdds`, `NoRecordStranded`; `ReadingSpeaksForItsPaper`, `PreferenceStaysAtHome`; `DescentMirrorsAncestry`, `ViewsAcceptWhatValidates` |
| | `ChangesReachWhatRestsOnThem` | `ReviewedTextIsCurrent`, `GapsAreReviewed`, `WithdrawnSourcesSilence`; `EveryOldPathArrives`, `LinksLandOnTheirText`, `CompleteRegistriesPackage`; `PathsFollowDeclarations`, `ReadStaysPut`, `PagesStay` |
| `vault` | `InterruptedCommandsRecover` | `WholeOrRecoverable`, `LastCheckHolds`; `LineageEnds`, `ManifestIsLast`; `InterruptedViewsGoOn`; `UndisturbedRunsConverge`, `DoneLeavesNoTrace` |
| | `WorkByHandSurvives` | `EditsOutliveMigration`; `HistoryIsKept`, `UnchangedSourcesKeepTheirBytes`; `EditsOutliveProjection`, `ViewsStandOnTheirRecords`, `PublishedSourcesStay`; `AuthoredStays`; `SafeMeansHandedOver`, `SafeHeadsAreOneLine`, `DoubtHasACause`; `FrozenWasReviewed`, `UndoLeadsBack`, `DrawnWhereClicked`, `FrozenVersionStays`, `SaveChangesOneFrame` where the commands on a corpus do not overlap, `OnlyStaleCopiesLose` where they do |

## What the runs show

| Run | Question | Bounds |
|---|---|---|
| `tasks_sqlite` | lifecycle, budgets, ownership of late results, durability and refinement over SQLite | 2 submissions, 2 task ids, 2 event ids, 1 restart |
| `skill_runs` | late inputs, rate, log and terminal authority | 2 runs of 2 steps on one executor, clock up to 2 |
| `skill_run_unlogged` | expected to fail: every input sent is on record | 1 run |
| `snapshot_cycles` | observations are of their own cycle, files are final, the feed stays readable in order | 3 cycles, 4 screenshots, 1 death, `maxRequests` 2 |
| `snapshot_relay_after_tear` | expected to fail: a relay that returned is readable | 2 cycles |
| `loop_calls` | looking before acting, one open task, plans from verdicts, reports, the contract | 2 calls of 2 attempts, 3 actions, 5 snapshots, 2 steps |
| `loops_end` | every loop of the agent ends | 1 skill run, 2 cycles, 2 calls; live runs of up to 2 frames; the smaller instances of the rest |
| `agent` | what is decided on could be seen, what is credited happened | 2 evidence names, 2 sprites, 3 nodes, 3 steps, 2 windows and 1 change during a check, 4 observations of a pilot step, a grid of 2 by 2 |
| `records` | what is stored and reported is what happened | 2 connections and 3 or 4 calls, 3 tasks, 2 capture sessions of 3 frames, 3 frames and a clock up to 2, 3 writes of an artifact, 2 runs reviewed, 3 points |
| `atlas` | pages show what was declared, changes stay where they belong | 5 of 15 references, 3 of 12 in a graph, 2 publications of 2 families, 3 revisions of 8 records |
| `vault` | work by hand is kept, but for what a stale copy of a corpus is written over; what was left half done can be gone on from | 2 deaths of a migration or 2 restore points, 1 death of the others, 1 or 2 edits or input changes a part, 2 records, 2 workstations, 2 frames and 5 commands (4 that overlap) |
| `corpus_rewritten` | expected to fail: a frozen version is not rewritten | 1 frame and 5 commands that overlap |

Three properties are narrower than their names may suggest. `StoresKeepWhatTheyTook` bounds the lost updates of a score and the
late publication of a transaction that was left open; it does not exclude them, as they happen, and that a call that raises writes nothing is
claimed of the risk store only. `StabilityIsOfReviewedRuns` is of runs that are not repeated under their name (see the table of
disagreements). `WorkByHandSurvives` says of commands that overlap on one corpus only who can lose something: a window or a
command whose copy of the file is stale. Which authority wins when a stop and a verdict meet is told by
`ReportTellsTheState`: no task that was stopped carries a decisive verdict, and one that was decided carries no stop.

Why the bounds are enough to be worth something:

- In `TaskLifecycle` two submissions make a running and a waiting task, or a closed
  and a running one, which is what a late result can confuse; one spec times out on its first tick
  and one on its second, one constrains its conditions and one does not; two
  event ids make both a duplicate and a fresh insert; a restart puts a second
  life after rows of a first. The part "tasks" of `records` adds a third task over the list sink.
  Task ids and event ids are only compared, so they are symmetric.
- In `SkillRun` two runs are what it takes for the rate limit, the latch and the log
  to carry over, two steps for a stop to come between steps; the clock's bound lets
  an interval pass between any two sends.
- In `SnapshotExchange` a late answer and a record left in the feed each need an
  earlier cycle, and both can meet a third; `maxRequests` is below the number of cycles, so
  the watcher closes; a fourth screenshot is one logged by another writer. The bound
  on deaths is shared by the host and the game, so no run has both die.
- In `HierarchicalLoop` both lifetime budgets run out in the second call, before or in
  the middle of an attempt; two attempts are one replan.
- In the memory stores an update is lost between two connections, and a third or fourth call is what
  finds or publishes what the earlier ones left.
- In the file commands one death leaves a mixture, a second one dies while that is repaired, an edit
  and a change of the inputs can come before, between and after, and a second restore point (part "repeated") is of another version
  than the first.
- In the atlas each kind of record and role occurs, twice where two of a kind can be confused; two publications are the smallest history,
  and three revisions undo a review, go on and come back.

`CHECK_DEADLOCK FALSE` is set where the bounds stop the system (submissions, runs,
cycles, calls, edits are used up) or where it really ends (a pilot step, a report, a scene walked).

Every property of a passing run is broken by a mutant: a definition of the model
with one plausible bug (a dropped check, a `>` for a `>=`, a missing
commit). They stand in the modules before the definition they replace, marked
as mutants, and no action uses them.

### Fairness

In `MCEnds` one action is weakly fair, `Scheduled`: a step of the thread that runs the part's loop. It is `RunnerStep`,
`HostStep`, `LoopStep` and the live run's `Runner`, the pilot step's own actions, and every step of planning, of a
skill's attempt and of the scene walk, which have no other actor. The code they stand for is straight-line Python
(or, for the walk, JavaScript) on the caller's own
thread: it never waits for another thread of its own, every external call
has a timeout (`xdotool`, the response wait) or is local file I/O, and the loop's
steps are the return of one such call. Nothing is assumed of the game, the user, the
stop file, the focus, the clock, the caller or other writers; a host that waits for an answer
that never comes is ended by its own deadline, which is one of `Await`'s disjuncts. The ends also rest on the
limits in the code: `MaxSteps`, the attempts of a call, the frames of a live run, the visited lists of the walk.

### Where code and documents disagree

Three disagreements are shown by runs:

1. **An input can leave no event.** The `action_result` event is appended after the
   post-action observation (`manager/skill_runner.py:208`). An exception of the
   observation, or of the backend after the key went out, loses it; the
   architecture document wants every execution durably logged. What does hold
   (`InputsAccounted`): the log invents nothing, and misses at most the last input of a
   run that did not return.
2. **A relay after a torn append is not readable.** The relay appends to whatever the
   feed ends with (`bridge/snapshot_relay.py:106`). After a failed append left a
   fragment, the next relay returns and its record continues the fragment. What does hold
   (`FeedDiscipline`, `ReturnsTheLastRecord`): the consumer raises and never steps over it.
3. **A frozen corpus can be rewritten.** A window holds the workflow it read when it was opened, and
   `save_current` (`evals/spatial_annotation_ui.py:264`) writes a revision of that copy over the whole file. When commands
   annotated, reviewed and froze the corpus meanwhile, their work is gone, the freeze included. `SPATIAL_ANNOTATION_WORKFLOW.md:37` says that
   annotation changes "must not rewrite the frozen version", and the window's message after a save (`:502`) that "Reviews remain
   unchanged". What does hold: a save whose copy is still the file changes the frame on show and nothing else
   (`OnlyStaleCopiesLose`), and even a rewritten corpus was reviewed if it is frozen (`FrozenWasReviewed`).

The following definitions say what a document, a docstring or a test says, and do not hold; no run checks
them, and TLC refutes each as an INVARIANT or PROPERTY of its module with the constants of its part and the change named.

| Definition | Module, part | What the code does instead |
|---|---|---|
| `TaskBudgetHolds` | `HierarchicalLoop` | `max_task_attempts` is compared with the step ids of one call (`bridge_assisted_runtime.py:206`), though the docstring lists it with the two budgets that last for the runtime's life; what does hold is `ticket <= calls * MaxTaskAttempts`, in `OneOpenTask` |
| `EveryEndIsReported` | `LiveSmoke`, "smoke" | an exception, or a report its own validator refuses, ends a run with no report (`evals/controlled_live_smoke_runner.py:309`) |
| `StabilityIsOfReviewedRuns` with `RepeatRuns = TRUE` | `SmokeEvidence`, "stability" | a stability review takes a review made before its run was repeated (`evals/controlled_live_smoke_stability_review.py:242`); the part has it hold when no run is repeated |
| `ReadsBackAsRecorded` | `ObservationChain`, "chain" | the event's row has no columns for the verifier's result and the Manager's stop (`memory/manager_event_log.py:25`) |
| `InterruptedApplyCanBeRepeated` with `MaxEdits = 0` | `VaultMigration`, "migration" | a listed file that already has the new bytes counts as edited, and only `recover` goes on (`research_atlas/product_migration.py:236`) |
| `CurrentDriftIsRegenerated` with `MaxLosses = 0` | `ZoteroHistory`, "lineage" | a drifted current file makes the projection refuse (`research_atlas/zotero_projection.py:564`) |
| `InterruptedRecordsGoOn` | `DirectViews`, "views" | an interrupted technical projection is refused until the inputs are put back (`research_atlas/private_projection.py:673`) |
| `GeneratedIsOverwriteable` with "torn" in `Leftovers` | `WorkspaceWrite`, "workspace" | a generated note cut inside its frontmatter, or an authored note that starts with a lone `---`, stops the writer (`research_atlas/workspace.py:951`) |
| `DoubtHasACause` with `Forms = {"https", "ssh"}` | `Handoff`, "settings" | `FETCH_HEAD` names an ssh remote without its user, so such a fetch never counts as fresh (`projectctl.py:209`) |

The documents are the docstring of the bounded loop (`bridge_assisted_runtime.py:49`), the smoke protocols (`13_4b`, line 33), `Private Research Wiki Projection.md:114`, `Zotero Source Projection Contract.md:201`,
`Research Atlas.md:19` and `tests/test_manager_event_log.py:89`.

## What is proved

The proofs are for every value of the constants.

| Module of proofs | About |
|---|---|
| `TaskLifecycleProofs` | `TaskLifecycle`, refining `TaskContract` |
| `SkillRunProofs` | `SkillRun` |
| `HierarchicalLoopProofs` | `HierarchicalLoop`, refining `TaskContract` |
| `RecordsProofs` | `SnapshotExchange`; `Smoke!`, `Audit!`, `Reviews!`, `Memory!`, `Graph!`, `Risk!`, `Recorder!`, `Sources!`, `Reader!`, that is `LiveSmoke`, `SmokePipeline`, `SmokeEvidence`, `KnowledgeMemory`, `RoomGraph`, `EntityRisk`, `EvidenceCapture`, `SourceHistory`, `ReviewedConclusions` |
| `AgentProofs` | `Cycle!`, `Body!`, `Scene!`, `Payload!`, `Focus!`, `Pilot!`, `Chain!`, `Replay!`, that is `PlanAndGround`, `VerifiedSkills`, `SceneWalk`, `VisiblePayload`, `FocusCheck`, `PilotStep`, `ObservationChain`, `ReplayLearning` |
| `VaultProofs` | `VaultMigration`; `Zotero!`, `Views!`, `Workspace!`, `Desk!`, `Corpus!`, that is `ZoteroHistory`, `DirectViews`, `WorkspaceWrite`, `Handoff`, `SpatialCorpus` |
| `MCAgent` | the suite of the eight parts of `AgentProofs`, for all values of its constants |
| `MCVault` | the suite of the six parts of `VaultProofs`, for its own constants |

A module of proofs extends a model or takes the models as named instances, over variables of
their own where two models use the same name for different things. An instance changes nothing: its theorems are about the
module's own `Spec`, for every value of its constants. Bounds that differ between neighbours (`ZCrashes`, `VCrashes`, `WEdits`, ...) stand for
the `MaxCrashes` or `MaxEdits` of the module they are given to.

The proofs assume only the named assumptions of the modules. In the control plane
these are `ASSUME`s: the specs handed over are specs (`SpecsAssumption`), `None` is not one of the
values it is compared with (`NoneAssumption`), the sink is one of the three (`SinkAssumption`), the limits
and bounds are natural numbers (`StepsAssumption`, `IntervalAssumption`,
`BoundAssumption`). In the modules of the suites they are hypotheses of the theorems, and the suite's
`ASSUME` has TLC evaluate them for its instance: `LimitsAssumption` (the limits of a live run are positive
where the configuration's validation demands it), `CaptureAssumption` (finitely many
sessions, at least one frame each), `SizeAssumption` (the ground, the step and the pages of a screen), `SceneAssumption` (finitely
many display objects), `NoneAssumption`, and the ranges of constants that the
others name (`ReplayAssumption`, `FocusAssumption`, `PayloadAssumption`, `CapabilityAssumption`, `OptionsAssumption`, `EvidenceAssumption`,
`ZoteroAssumption`, `ViewsAssumption`, `WorkspaceAssumption`, `HandoffAssumption`, `CorpusAssumption`,
`ChainAssumption`, `PilotAssumption`, `SourceAssumption`, `ReaderAssumption`, `BoundAssumption`). `MCAgent` gathers those of its parts in `SuiteAssumption`.

Five theorems have one hypothesis more, which says where the property holds at all:

- `DoubtAlwaysHasACause`: no origin is written in the ssh form;
- `FrozenVersionsAlwaysStay`: the commands over a corpus do not overlap;
- `SummariesDescribeTheirPlan`: no command is told to overwrite (`TRUE \notin Overwrites`), as only then a plan can be replaced under its summary;
- `StabilityStandsOnItsRuns`: no run is repeated under its own name (`~RepeatRuns`);
- `GreedyWalksAreShortest`: `OpenGround`, that is a calm game, moves no longer than the tolerance, and a target at least one move
  from the walls. A longer move oscillates around the target, and a wall holds the player up.

TLC refutes each of these properties without it, or the model's constant says which runs it is about (see the tables above).

Every inductive invariant below was checked by TLC on the instance of its run before it was proved.

### TaskLifecycle

- `TypeCorrect`, `FifoAccountingHolds`, `TimeoutBudgetHolds`: with the types both invariants are
  inductive. `StepShape` reduces every action to six kinds of scheduler step (a submission, a start, a
  tick, a closing, a restart, and leaving the tasks alone), so each later proof has six cases.
- `ClosingIsFinalHolds`: an action property, from the types and `StepShape`.
- `ResultClosesItsOwnTaskHolds`: under `UniqueTaskIds`. The property is not inductive: that a
  result matches the running task's id says nothing until ids are known to name one
  task each and every attempt in flight to be of a known task
  (`AttemptsNameTheirTasks`, with `FifoAccounting` for the tickets).
- `AcknowledgedIsRecordedHolds`: an acknowledged event is in the sink, through later
  refused inserts, failed commits and restarts.
- `EventsAgreeWithTasksHolds`: a task is recorded once over all lives, and an event of this life has the status its
  task closed with. `RecordInv` follows the rows of an open transaction too, and those of earlier lives, whose tasks
  the scheduler has forgotten.
- `RefinesContractHolds`: every step is a step of `TaskContract` or a stutter. `ContractInv` relates the log
  of outcomes to what has closed; a restart maps to the contract's crash. It is proved for a sink that
  outlives the process: the list in memory loses its events with it, so the theorem has the hypothesis
  `Sink # "memory"`, and TLC checks the list without restarts (`records`).

### SkillRun

`RunInv` says what each place in `run` and `execute` has established; the other invariants stand on it.

- `SkillRunTypeCorrect`; `AtMostOneLateInputHolds`: past the stop check no input has gone out since the stop was
  raised, and at the send none since the focus was lost (`LateInputInv`).
- `StopsAreFinalHolds`: the runs follow each other in the log (`Ordered`), and what the current run has logged leaves
  room for what it may log next (`LogFits`).
- `EventLinksHolds`: the entry of a verdict or a reward names the entry it is about, which is in the log by then
  (`LinkInv`, `ReadyToLink`).
- `OneAuthorityHolds`: what a run returns is the last verdict on record or the one stop on record
  (`Authority`, `VerdictOnRecord`, `StopOnRecord`).
- `AmortisedRateHolds`: `RateInv` says how far the limiter's timestamp is from each charged input, by the number of
  inputs charged since; the limiter lets the next one through only an interval later.
- `InputsAccountedHolds`: the log misses at most the input in flight of a run that did not return (`Pending`), and
  invents none.

### SnapshotExchange

- `ObservationIsOfItsCycleHolds`. The feed may hold records
  of earlier cycles and the response file answers of anyone, so the invariant
  (`ExchangeInv`) is about the requests: their screenshots grow with the cycles and the
  current request's is the newest, whatever can be read from the feed is the record
  of some request, and what was returned is ordered. A record whose screenshot is the
  latest of the event log can then only be of the current request.
- `ExchangeTypeCorrect`, `ReturnsTheLastRecordHolds`, and `FeedDisciplineHolds`: only the last line can lack its
  end, and the offset never passes a line that could not be read (`FeedInv`).
- `FilesAreFinalHolds`: requests and responses are never replaced and ended lines never change (an action property).
- `AnswersEchoRequestsHolds`: a response is to a published request and has its screenshot, and one life of the plugin
  attempts at most `maxRequests` names (`AnswersEcho`, `AttemptsCounted`).

### HierarchicalLoop

- `NoBlindInputHolds`: `LookInv` says where in an attempt no unseen input can be: everywhere an input may still be sent.
- `LoopTypeCorrect` and `OneOpenTaskHolds`: `LoopInv` ties the place in a call to the scheduler, the attempt and the
  events that are out (`ControlInv`, `AttemptInv`, `EventInv`, `PhaseInv`). `Budget` bounds the tasks of all calls together.
- `PlansFollowVerdictsHolds`: within a call a plan is made from the outcome of the task before, which the
  verifier decided and the sink has (`PlanInv`; `CountInv` for the counters it is told).
- `ReportTellsTheStateHolds`: every event in the sink is the only one of its task and has its status (`SinkInv`), the tasks a
  call has behind it were decided by the verifier (`BehindInv`), and a result is a stop or a decisive verdict, never both (`AttemptInv`).
- `KeepsTheContractHolds`: the loop refines `TaskContract`, step by step.

### LiveSmoke

`SmokeInv` has one conjunct per concern: types, the place in a frame (`FrameInv`), what was counted (`AccountInv`,
`LimitInv`), what was late (`LateInv`), the keys sent (`TapInv`) and the report (`ReportInv`). From it:
`WithinLimitsHolds`, `StopIsHeededHolds`, `ReportTellsTheInputsHolds`, `ValidatedRunsAreCleanHolds`,
`FullRunsValidateHolds`, `ObservationIsReportedHolds` and the types. The conditions of the validator are
gone through one by one on a report that `ReportInv` ties to the run.

### SmokePipeline

`AuditInv`. A command that derives one artifact from another reads what anybody may have written meanwhile, so what it says of an
artifact must hold by itself: `FilesAreClean` (an official plan has no errors, an official summary is of an official
plan of its own mode), `LegacyIsFirst` (a manifest of version 1 is of a directory in which nothing was planned). While `pipeline` runs
each stage goes on from what the one before has written (`StagesFollow`). `OfficialArtifactsAreAlwaysClean`, and
`SummariesDescribeTheirPlan` from the same invariant and that there is then one plan ever (`OnePlan`).

### SmokeEvidence

`EvidenceInv` counts the attempts at a report. A validation or a review names the attempt it is of, which is never later than the report that
is there; that it says what is the case of it needs them to be the same attempt (`ValidationFits`, `ReviewFits`). So a verdict on an
earlier report cannot pass for one on a later. `VerdictsStandOnReviews`, `StabilityStandsOnItsRuns`.

### VaultMigration

`MigrationInv` says what holds between commands (`RestInv`: the vault is whole, or a receipt and a restore
point explain every row of it), during `apply` (`ApplyInv`: which rows are written and which are gone so far) and during `recover`
(`RecoverInv`: which have been put back). The argument rests on three facts about the code: the rows a command touches are decided by the owner
manifests alone, a temporary file is listed nowhere, and what a receipt explains is
a version nobody has made his own. From it: `VaultMigrationTypeCorrect`, `LastCheckAlwaysHolds`,
`InterruptedMigrationsRecover` and `EditsOutliveEveryMigration`.

### KnowledgeMemory

`KnowledgeInv`: what any connection can read, committed or not, is sound by itself
(`Sound`: evidence behind every row, no row under an id that is not given yet, everything that was
told), and at most one connection has changes the others do not see. A call that leaves its
transaction open thus publishes later what is sound at any time. Four lemmas say what writing one row keeps, four how
a call can end, and each call is an instance of both. From it: `MemoryTypeCorrect`, `EvidenceIsBehindEverything`,
`ReturnedStaysCommitted` and `StatisticsCountResults`.

### RoomGraph

`GraphInv`. That an edge joins rooms which know at least as much as it does is not inductive: the edge is
written two transactions after the first room. `VisitedRoomsCover` says what a call under way may rely on: the
rooms it has been through have its confidence and its evidence. Another connection cannot take that away, as an upsert only adds
(`RoomGrows`, `EdgeGrows`), and the same two facts are the action property. `EdgesAlwaysJoinKnownRooms`, `RoomMemoryOnlyGrows`.

### EntityRisk

`RiskInv`. A row follows its events: it is the one the latest event wrote (`RowFits`), and each
event added to the score of the events its call had read, which may be fewer than there were (`EventsAddUp`, `seen`). What a call holds
between its read and its write is what the events came to then (`ReadFits`); if each event had read all those before it,
nothing was lost and the totals are exact. A returned record comes from three reads, each later than the one before
(`OwnEventIsThere`, `BackFits`). `RiskRowsTellTheirEvents`, `ReturnedRisksAreCovered`, and `OnlyReturningCallsWrite`.

### EvidenceCapture

`CaptureInv` gives every file of the run a slot of its own, one of the frames some session is asked for
(`SlotInv`). It shows that a session that is asked for another frame finds a fresh id, however many sessions died
with files half written, and that a file without its event has the slot of a session that is writing or died. With what is in the sessions'
hands (`HandInv`): `CaptureTypeCorrect`, `EventsAlwaysHaveTheirFrame`, `OnlyTheFrameInHandIsLost` and
`TheLatestMovesForward` (an action property).

### SourceHistory

Which paper a reading speaks for is found by counting the matches in a catalog. `MatchesCount` says what the count means, `ResolvedExactly` that a source
resolves to the one entry that matches it and to nothing when two do, `ReadExactly` what the reader takes a note for. With them
`ReadingsSpeakForTheirPapers` follows for every catalog, and `ReadingsStayPut` says that publishing does not move a reading whose
note has not moved. `CatalogIsAlwaysSound` is the type invariant behind them.

### ReviewedConclusions

A conclusion is current if every version it was reviewed at is still the version of its record. That this says something about the text is `PinsHold`, the heart
of `ReaderInv`: a pin that still holds is of a record that says what it said at the review. An edit bumps the
version of what it changes, so it can only break pins. `DependenciesCover` says that the pins reach everything the conclusion rests on:
what the reader follows through sources, notes and findings stays among the records that are pinned. `ReviewedTextStaysCurrent` puts
both together, with withdrawal, which takes a record out without a new version.

### SceneWalk

`SceneInv` is about what the walk has met (`Met`): all of it is in the scene, and until a window was found, what has been left behind is no
visible window and has all its children met. When nothing is pending, what was met is closed under children, and
`Contained` is the least such set (`ContainedIsLeast`). That the plugin's own climb to the root agrees with visibility as the player has it is
`UpFindsTheWayOut`: the climb is a function of the nodes visited so far, and the lemma takes a longest visited list on which it is wrong. The parents may
go in a circle. `SurfaceTellsWhatIsSeen`.

### VisiblePayload

`PayloadInv` follows one payload through the stages: what was given and may still be in the data (`Given`, `SameFields`), what was looked
for before it was let through (`IsLetThrough`), what the observation is made of (`IsObserved`). It is by cases of the door, as
each filters in an order of its own. `WhatIsObservedIsVisible`.

### PlanAndGround

`CycleInv`: what was seen is on record as shown, and so is what the notes cite (`SeenIsShown`); a plan is one the
model was asked for (`PlanIsGated`); a target is what the grounding finds on the observation the plan was made from (`GroundIsFound`);
a task is what the Manager makes of both once both passed (`TaskIsAccepted`). Evidence from earlier rounds comes back through the
notes, which is why `SeenIsShown` speaks of all that was ever shown. `TasksRestOnWhatWasShown`.

### FocusCheck

The desktop may change between any two commands, so an answer only says what was held of a window at some time of the check.
`FocusInv`: `HeldFits` (what a window fits now has been held of it), `AnswersAreHeld` (each answer is about the window asked for, and on a desktop
that did not change still true), `YesStands`. `FocusChecksTellRight`.

### VerifiedSkills

`SkillInv` needs little more than the types: what a skill has in hand is an observation of this run (`ObservationsFit`), and a run goes on for as long as it is
undecided and what decided it was paid (`RunFits`). `SuccessIsEarned`.

`GreedyWalksAreShortest` is an optimality result about the walk that `basic_reach_target` does, always along the axis on which the target is farther. `WalkInv` says
where the player is after `n` moves: `k` across and `n - k` down, with neither axis ahead of the other by more than a move made along it (`Balanced`). Of all ways to split `n` moves
none ends nearer to the target than a balanced one (`BalancedIsNearest`), so if that does not reach it no other does
(`NoOtherSplitReaches`); a move that goes past the target ends within a move of it, which is near enough (`PastTheTarget`). The number of moves that are needed is the least
one that reaches (`NeededIsLeast`). The arithmetic is in lemmas about squares, as the provers have no theory of products.

### ReplayLearning

`ReplayInv`: the buffer holds transitions the environment makes (`Moves`), and after a reset the recorder has what the environment
shows (`RecorderKeepsUp`). The two tables of actions, written apart in the code, agree (`CodesAgree`, `TablesAgree`). Relabelling replays the recorded actions:
`WalksEndWhereRecorded` says that the replay of a consistent stretch ends where the recording does, by a least
place at which it would not. `AddKeepsNewest` is the law of the bounded buffer. `ExamplesTeachTheTruth`.

### ObservationChain

`ChainInv` orders observations and inputs by the changes of the world they were made at. The runner's first
observation is the planning's (`PrimedUntilRead`); from then on the latest is newer than every input that went out
before it was asked for (`LatestIsNew`), so only the first input can rest on old news. A verdict is of that latest
observation or of the one before, never of an earlier attempt's (`VerdictIsRecent`), and what closes a task is either decisive
or a stop (`ClosedByOne`). `OnlyFirstInputsActOnOldNews`, `VerdictsSpanTheirAttempts`.

### PilotStep

`PilotInv`: evidence, feed and what was read back advance together (`ReplayIsInStep`), the figures are functions of
each other at every point of the scenario (`FiguresFit`). That a run is reproducible relates two behaviours; it is proved as a
statement about one: the outcome is `Fate(k)`, a function of the constants of the run, at the first step `k` that has not come to
"open" (`FirstStepDecides`, `Undecided`). `PilotReportsTellTheRun`, `PilotsAreReproducible`.

### ZoteroHistory

`ZoteroInv`. The manifest is written last, so what is listed is what an earlier projection finished. A running projection is judged by what
it is going to list (`TreeKeepsHistory`): all that is listed, with the same predecessors, changed only where a
current version's notes did; a new version follows a listed one. A death leaves files of a tree nobody lists, which the next
projection owns or finds lost. `ListedVersionsAreWhole`, `HistoryIsAlwaysKept` (an action property).

### WorkspaceWrite

`WriterInv` says what an undisturbed run has achieved in each phase: nothing obsolete or torn among what it has looked at, and
what it has written is what its registry says. An edit by hand ends the claim (`touched`). `PagesInPlace` says that the two generated pages are nowhere but in their places, since people copy notes only; without
it the phases would not be disjoint. `UndisturbedRunsAlwaysConverge`, `AuthoredAlwaysStays`.

### DirectViews

`ViewsInv`. A running projector owns what it will write over, except for what was edited after its checks (`late`), and has listed
what it removes (`ProjectorInv`). One of the views stands on the technical tree of its own Registry (`RecordsStand`) and has checked that no published
source disappears (`ViewsRunInv`). `IndexKnows` ties the two files that carry the source history, which a death can leave at
different versions: the index is never behind the manifest. `InterruptedViewsAlwaysGoOn`, `ViewsPublishSafely`.

### Handoff

A doctor asks one question after another while the checkouts, the server and the tracking refs move. `HandoffInv` rests on two facts. What a
running doctor has learned of its checkout still holds (`Knows`): work on the checkout stops the doctor, and a fetch or a push disturbs none of
the answers this says something about. And the commits that are known to have been the tip of the issue branch (`Published`: fetched from there, proved by a doctor, or held by
a safe checkout) are one line of history which the server has (`OneLine`); each step adds to them at most the server's tip.
`SafeIsAlwaysHandedOver`. `DoubtAlwaysHasACause` goes through the questions in order: as long as there is no cause to doubt,
each is answered as a safe handoff demands (`Learned`).

### SpatialCorpus

`CorpusInv`: whatever holds a workflow (the file, a command that has read it, the window) holds one whose freeze record is sound
(`SoundlyFrozen`), so even a write of something old is a write of something sound. That gives `FrozenWasAlwaysReviewed` for
commands that overlap too. Where they do not, the window's copy is the file and what a command will write follows it
(`Follows`), which gives `FrozenVersionsAlwaysStay`. For all of them, a save of a copy that is still the file changes one frame:
`OnlyStaleCopiesEverLose`. `DrawnWhereClicked` is arithmetic: four lemmas about division carry it for every `Width`, `MaxDisplay`
and click.

### The suites of the vault and of the agent

`MCVault` proves its own three properties for its own constants: `SuiteTypeCorrect`, `InterruptedCommandsAlwaysRecover`,
`WorkByHandAlwaysSurvives` (of the part "overlap" it says what the property says: only a stale copy loses anything, by `OnlyStaleCopiesEverLose`); `MCAgent` proves its own for all values of its constants that meet `SuiteAssumption`: `SuiteTypeCorrect`,
`DecisionsAlwaysRestOnWhatIsSeen`, `OutcomesAreAlwaysEarned`. A behaviour of a suite is one of its part, as no step changes `part` and every step of the suite is one of the part
or leaves its slots alone (`SlotsOfTheSuite`, `StepsOfTheParts`). One lemma a part says that the part's properties hold of it, by the theorems of
`VaultProofs` or `AgentProofs`, and `EveryPart` puts them together.

A suite instantiates its module of proofs over its slots, twice where a part occurs with two sets of constants: `First` and `Second` in `MCVault`, and in
`MCAgent` `Game`, in which things interrupt and hide, and `Ground`, the open ground on which the greedy walk is shortest. TLC runs the very same instances, with
the constants of `MCAgent.cfg`.

### What the proofs changed in the model

- Some operators had a `CASE` whose arms overlap. TLC takes the first that holds and TLA+ any of them, so they had no definite value for the prover;
  they are chains of `IF` now, in the order of the code.
- The walk of `ReplayLearning` is a recursive function over the actions, no longer a fold; the child lists of `SceneWalk` are a constant, as
  a proof for every finite scene cannot enumerate sequences.
- `UNION A \cup B` is `(UNION A) \cup B` to TLC and `UNION (A \cup B)` to the proof system; the atlas modules say which one is meant.
- What a conclusion of `ReviewedConclusions` rests on is written out, findings, notes and sources in turn, where recursive functions computed it:
  the intake's check of the kinds (`Fits`) lets references go three kinds deep and no further. The notes a finding's locations point to,
  which `ReviewedTextIsCurrent` covers too, have a name of their own (`Located`).
- The parts whose constants stood in the suite's module take them from `MCAgent.cfg`, which let the theorems be about all values.

### Only model-checked

- Liveness (`EveryLoopEnds`): it rests on fairness and `ENABLED`, which the proof system does not handle.
- The properties of the suites `MCRecords` and `MCAtlas` as conjunctions over all their parts. Of `MCRecords` all protocols are proved part by part
  and the control plane's invariants are theorems of the modules themselves; its matching of points is not. Of `MCAtlas` the parts of
  `SourceHistory` and `ReviewedConclusions` are proved.
- In the rest of the atlas, and in `SpatialBenchmark`, properties about what an algorithm computes from its data: the matching, the walks over hierarchies and
  references. The induction theorems of the library cannot be used (they take an operator), but a least counterexample can: a set of
  natural numbers has a least element (`LeastNatural`, from the well-foundedness of `<`). The walks of `SceneWalk`, `ReplayLearning` and `VerifiedSkills` were done this
  way. `SpatialBenchmark` has recursive operators, which the provers cannot see into at all.
- `ListedInOrder`, `IndexesRun` and `VisitsCoverPassages`, which are about a sort, a filter and a sum of the stores.

## What is not modelled

- **Movement safety filter and safe reach skill** (`body/safety_filter.py`): a predicate on
  one observation that vetoes one proposal. `SkillRun` lets a skill propose anything its
  contract allows, and `VerifiedSkills` walks with the unfiltered skill.
- **Frame comparison and the capture subprocess** (`perception/visual_hash.py`,
  `subprocess_capture.py`): data, no protocol.
- **Verifier audit** (`evals/verifier_audit.py`): a table of cases compared with the
  verifiers' answers, a test in itself.
- **Diagram and page layout** (`diagram_svg.py`, `diagram_canvas.py`, `anatomy.py`,
  `technical_reader.py` and their like): coordinates, drawing and wording. Which
  pages exist, where, and what is overwritten is modelled.
- **Bookkeeping registries** (`assembly_scopes.py`, `research_steering.py`, ...):
  field-by-field validation of files kept by hand, with nothing that changes.
- **Command line** (`cli.py`): argument parsing and printing around the modelled parts; the
  two commands that run something themselves are in `EvidenceCapture` and `PilotStep`.
- Of the parts that are modelled in part: the catalog file's parsing and the intake's
  reference checks (`SourceHistory`); explanations, prose, canvases and program records
  (`ResearchMap`); player points, confidence, ratios and sums (`SpatialBenchmark`); Home, the Base and the
  drawn maps (`WorkspaceWrite`).
- Of the control plane: the content of evidence, goals and targets, timestamps of
  events, wording of errors, and losing unsynchronised data when the machine (not the process) dies.
- The post-mortem call of the planner has no caller in `src/`.
