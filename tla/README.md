# A TLA+ model of the podcast worker

This directory holds TLA+ modules that model the podcast worker service (`src/podcast_worker`), the
TLC configurations that check them on small instances, and TLAPS proofs of the main safety
properties for every value of the constants. File names and lines below are those of the modelled
commit; `core/` and `routers/` are under `src/podcast_worker/`.

To check one run: `tlc -config SegmentPipeline_safety.cfg MCSegmentPipeline`; to check the proofs of
a module: `tlapm SegmentPipelineProofs.tla`. `PROJECT.json` lists every run with its module,
configuration and properties, the source lines of every definition, and for each property a mutant of
the code that breaks it.

## 1. The system

The service turns a topic into a podcast episode. A client asks for an outline *preview*, and then
creates a *project* from it. The project is a set of SQLite rows committed at once: segments, stage
rows, a generation row and a work row. A scheduler inside the process gives the work to a thread,
under a lease with an epoch. The thread walks through the stages - lead research; for each segment
research, draft, fact check, speech and mixing; the episode - calls external providers on the way, and
publishes each result in a transaction guarded by its lease. Clients poll the project, cancel it or
delete it at any moment; processes crash, leases expire, providers lose answers.

### Inventory

| component | state it keeps | operations | interacts with | what is hard | what makes it correct |
| --- | --- | --- | --- | --- | --- |
| Durable rows of a project, `core/persistence.py` | `projects`, `project_generation`, `project_pipeline`, `segments`, `generation_stage_results`, `provider_attempts`, provenance and artifact rows | claim, renew, stage transition, reserve/dispatch/complete/fail an attempt, publish, settle, cancel, delete | every thread and every request, through transactions | several writers, none of which knows of the others; no table constraint ties the rows together | fences; a dispatch is irreversible; rows end together; versions |
| Segment pipeline, `core/segment_pipeline.py` | the thread's place in the plan, its token, files | `run_project_pipeline`, `_provider_operation`, publication, three settlements, heartbeat | rows, providers, files | crash, stall, reclaim, cancellation or deletion between any two transactions | no call twice; stale workers publish nothing; work ends |
| TTS execution, `segment_pipeline.py:960-1100`, `core/tts_engine.py` | a thread pool, attempt rows, ledger entries, clips | `_execute_tts_plans`, `render`, `synthesize_elevenlabs_plan` | provider, ledger | retries after lost answers; one plan fails while others are in flight | charged once; the books agree when the call ends |
| Work scheduler, `main.py:83-210` | slot count, thread registry, stop event | `_drain_durable_work`, reclaimer, startup, shutdown | rows, pipeline threads, create requests | many drains at once; a claim or a thread start that raises | capacity respected, no slot lost, work claimed in the end |
| File cleanup, `routers/v1_projects.py:79-200,585-622`, tombstones | tombstone rows, files | DELETE, sweep, startup sweep | scheduler's registry, ending threads | DELETE and the ending thread each look just before the other acts | no orphan files, no tombstone left to nobody |
| Preview and project creation, `routers/v1_projects.py:240-470`, `persistence.py:450-690,1631-1689` | bindings, previews, snapshots, ledgers | POST outline-preview, POST projects | executor thread, event loop, scheduler | two requests for one preview; faults inside a transaction; restart between two transactions | a preview makes at most one project, whole or not at all, as previewed |
| Legacy jobs, `routers/jobs.py`, `main.py:320-338` | in-memory records, a semaphore | generate, thread, download, eviction | model, TTS, ffmpeg | slot on every way out; eviction beside running threads | slots come back, jobs end, completed means downloadable |
| Episode ledger, `persistence.py:1700-1800` | ledger and attempt rows | append entries, reserve under a cap | TTS execution | the reservation that enforces the cap has no caller | (partly in `TtsExecution` and `ProjectCreation`) |
| Project snapshots and progress, `persistence.py:692-846` | none | list and detail, several SELECTs each, outside a transaction; the progress is derived from the stage rows | clients, the verifier | workers commit between two SELECTs | what an answer says was true in its order of reading; what is missing is told |
| Audio files and artifact API, `segment_pipeline.py:470-760`, `core/audio_mixer.py`, `routers/v1_artifacts.py` | files of a project, checksums in rows | read, mix, encode, checksum, publish, download | pipeline threads, the sweep, clients | file names hold no epoch, writing asks for no lease, and but for clips no file is staged | what is published stays downloadable; only crashes and stalls flaw it |
| LLM gate, `core/script_generator.py`, `segment_pipeline.py:_canonical_verified_dialogue` | none | the verdict of the verifying model, and which text it lets pass | pipeline | any combination of outcome, issues and text comes back | nothing unverified is spoken |
| Dialogue planning, `tts_engine.py:20-135` | none | `plan_dialogue_requests`: turns, scenes, fragments | TTS execution | cuts at marks and spaces, limits of a request | every word once, in order, by its speaker, in requests the profile allows |
| Endpoint verifier, `.gjc/verifier/endpoint_verifier.py` | last answers, its budget | creates a project, polls list and detail, compares answers, downloads, deletes | the API as a client sees it | torn answers, lost answers and what is repeated after them, another client, a crash of the service | it raises no alarm about data; its other alarms have a cause |
| Routing profiles and configuration, `core/config.py` | none | pure functions of files | creation | - | - |
| Legacy script and audio endpoints, authentication, health, observability, deployment files | - | - | - | - | not modelled, see section 8 |

`PROJECT.json` lists, under `hazards`, what is hard to test in this code, each at its line with the
properties that would catch it.

## 2. Modules

```
DurableStore ── SegmentPipeline ─┬─ MCSegmentPipeline                        (TLC)
   rows            workers,      ├─ SegmentPipelineProofs                    (TLAPS)
                   faults        │
                                 │  INSTANCE GenerationLifecycle (the promise)
                                 ├─ ArtifactFiles ── ArtifactFilesProofs     (TLC, TLAPS)
                                 └─ ProjectSnapshot ── EndpointVerifier
                                       ├─ MCEndpointVerifier                 (TLC)
                                       └─ EndpointVerifierProofs             (TLAPS)
WorkScheduler ──┬─ MCWorkScheduler                                           (TLC)
                └─ WorkSchedulerProofs                                       (TLAPS)
TtsExecution ───── TtsExecutionProofs                                        (TLC, TLAPS)
DialoguePlanning ┬ MCDialoguePlanning                                        (TLC)
                 └ DialoguePlanningProofs                                    (TLAPS)
ProjectCreation ─┬ MCProjectCreation                                         (TLC)
                 └ ProjectCreationProofs                                     (TLAPS)
LegacyJobs ─────── LegacyJobsProofs                                          (TLC, TLAPS)
```

### `DurableStore`: the rows of one project

Each variable is a column (or the state column of a table): `pipeState`, `epoch`, `leaseAge` are the
work row; `disposition`, `outcome`, `version` the generation row; `stage` and `attempt` map a stage to
its row; `segStatus`, `validated`, `artifacts` are the segments with their provenance and artifacts;
`projStatus`, `finalReady`, `retention` the project. Each transaction (`BEGIN IMMEDIATE` to
`COMMIT`) is one operator: `ClaimWork`, `RecordStageTransition`, `ReserveAttempt`, `DispatchAttempt`,
`CompleteAttempt`, `FailAttemptUnknown`, `PublishVerifiedText`, `PublishAudio`, `PublishFinal`, `SettleReady`,
`SettleCancellation`, `SettleFailure`, `RequestCancellation`, `DeleteProject`. `Fence`, `CanRenew` and
`LeaseHeld` are the three WHERE clauses the code uses, which differ in what they ask.

Abstractions: the code compares lease owner and epoch; the owner is fresh for each claim and each claim
increments the epoch, so the pair is the epoch. Wall-clock time is whether the lease is past its expiry.
Contents of results are left out.

### `SegmentPipeline`: workers, faults and clients

A worker is a thread inside `run_project_pipeline` for one claim. `pc` says which piece of code comes
next, each piece reaching from one transaction to the next, so every point at which another worker, a
client or a crash can come between is a state of the model. `Hydrate`, `Renew`, `CheckStage`,
`StartStage`, `LocalAudio`, `FinishStage`, `Ready` are `_run_pipeline`; `Reserve`, `Dispatch`,
`CallProvider`, `CallReturned`, `Complete`, `AbandonAttempt` are `_provider_operation`; `Cancel`, `Failing`,
`Fail` the exception handlers. `_settle_failure` reads the lease *before* its transaction, so `Failing` and
`Fail` are two steps. `StepRaises` is an exception at any other place; `Crash` ends a worker without a
handler; `LeaseExpiresUnderHolder` is a stall of a thread together with its heartbeat;
`OrphanedLeaseExpires` the expiry nobody prevents.

### `GenerationLifecycle`: the promise

The abstract specification: segments are delivered one by one in order while the generation is active, it
ends once, the episode is there only when it ended ready with every segment, a requested cancellation stops
delivery at once. `SegmentPipeline` implements it under the mapping `Lifecycle` (phase from disposition
and outcome, delivered from segment status, final from `final_download_ready`).

### `WorkScheduler`: slots, threads, files and the process

Callers of `_drain_durable_work` (reclaimer, startup, each create request, each ending thread) step
through `TakeSlot`, `Claim`, `Register`; a claim may raise (`ClaimRaises`), and so may the start of the registered thread
(`StartRaises`), which leaves the slot taken and in the registry an object that never runs (`Unstarted`): whoever joins it is raised upon,
the request at once, a sweep in the thread it runs in (`SweepRaises`). A raise in the startup's own drain ends the process in the code
(`main.py:203`); here the process may then stop at any moment, which includes that. A pipeline thread goes through `PassFence`, `WriteFiles`, `SettleWork` or
`LoseFence`, then `LeaveScheduler` (the `finally`), `ListTombstones` and its own drain. DELETE is
`DeleteProject`, `JoinWork` and the sweep (`SweepJoins`, `SweepRemoves`, `SweepRecords`), which the ending thread
and startup run as well. `Shutdown`, `Stop`, `StartProcess` are the lifespan; stopping forgets memory and keeps
rows and files. A section under the lock, a transaction and a loop over files are one step each. What a
pipeline does between two transactions is reduced to: it passes a fence and may then write files.

### `ArtifactFiles`: what workers do to files

`SegmentPipeline` composed with the files of the project. A stage writes the files of `Jobs` one after the other; a file is made in
three steps, `ReadInputs`, `OpenFile` (which truncates) and `CloseFile`, for none of the writers of these files goes through a staging
file, and a crash or a stall can come between any two. (The clips a speech file is joined from are staged and moved into place by
`os.replace`, `tts_engine.py`; they are in `TtsExecution`.) `TakeChecksum` measures the MP3 before the transaction that publishes it
(`Publish`). File names hold the project or the segment but no epoch, so two workers write under the same names. Contents are reduced to
absent, torn, sound and flawed (complete, but made of something torn). `Served` is what `download_artifact` checks. That everything
else about the pipeline is unchanged is a refinement, `ImplementsPipeline`.

### `ProjectSnapshot` and `EndpointVerifier`: a client that reads

`ProjectSnapshot` adds one reader to the pipeline: `Ask`, then one step for each SELECT of list or detail in the order of the
code (`SelectSegments`, `SelectProvenance`, `SelectArtifacts`, `SelectGeneration`, `SelectStages`), each of the rows as they are at
that moment. `EndpointVerifier` is the client the repository ships: it polls, compares each answer with the last one of the same
endpoint (`AnswerVerdict`, `TextVerdict`, `StageRegressed`), checks and downloads the artifacts at the end, deletes the project and asks
once more. A failed check ends it with a `verdict`. Every request is repeated when its answer is lost (`AnswerLost`); a lost answer
of `POST /projects` makes it create again (`CreateAgain`), from a preview that is spent, and the 409 it gets has a code it does not
know. The model starts with the creation, and the poll that follows the answered creation is the first; that the files are served with
their checksums, and answers of a failing server (5xx), are left out. It is a specification of its own about the service, and the run asks which of
its verdicts the service can provoke.

### `DialoguePlanning`: from a draft to requests

`Verify` is the gate: any answer of the verifying model, `WellFormed` as `parse_verification_result` demands it, and
`Published` as `_canonical_verified_dialogue` chooses between the answer's text and the draft. `Plan` parses the text into turns;
`PackTurn` and `TakeTurn`/`Split` are one round each of the loops that pack scenes or cut fragments. Characters are of three classes,
letter, mark and space, which is all the code looks at. `Turns` folds the lines of a text (`WithLine`), one line at a time as the parser
does; `Heard` is what a listener gets of a sequence of turns, apart from spaces.

### `TtsExecution`: the plans of one segment

The main thread submits all plans and collects results as they complete (`Collect`, in any order; `collected` is `rendered_by_plan`).
When it has all it joins the clips plan by plan (`Joined`) into the assembly; on the first failure it cancels the queued futures,
one at a time, and waits for the pool. Each render steps through its rows: `Reserve`, `RecordPreSend`,
`RecordDispatched`, `Send`, then by the answer `StoreClip`, `RecordPublished`, `EnterActual` or `RecordFailure`,
and `Release`, `Retry` or `Finish`. The provider is external: it may render and charge for a request whose answer is
lost. `charged` records that.

Nothing here looks at the lease or at the project, so what goes on around it is in the model: a row that cannot be written
(`WriteRaises`, `MainRaises`), the deletion of the project (`DeleteProject`), which takes the attempt rows and leaves the ledger while
the renders go on, and the end of the process (`Stop`), after which no later claim executes these plans again.

### `ProjectCreation`: from a preview to a project

A preview is written by two transactions, one on the SQLite executor's thread and one on the event loop; a
project by one, taken statement by statement: `pending` is what its connection would see, `db` what is
committed. `SubmitProject` is `create_project` up to its await, where it reads the preview; `ReadClock` the
clock, read before the lock; `Refusal` the checks inside the transaction in their order. Topic, bpm and duration of
a request are one value; so are the two profiles; an outline is a wording and its number of sections.

### `LegacyJobs`: the in-memory jobs

Admission by a semaphore, a thread that goes through the calls of `_run_full_generation`, any of which may
raise, and the sweep of old records that runs before every request.

## 3. Runs

Deadlock is not checked in any run: each of these systems may come to rest (all work settled, every client
answered, fault budgets spent).

| run | asks | bounds | result |
| --- | --- | --- | --- |
| `pipeline_safety` | do the rows stay consistent with each other and with the calls made; what may a step never do; is the promise kept? | 2 segments, 2 workers, 3 claims, 1 crash, 1 stall, exceptions anywhere, cancel and delete at any time; 550 thousand states | `TypeOK`, `ProviderCalledAtMostOnce`, `PublishedSegmentsAreBacked`, `FinalIsComplete`, `SegmentsInOrder`, `WorkAndGenerationAgree`, `StaleWorkerPublishesNothing`, `NothingStartsAfterCancellation`, `ProgressIsVersioned`, `ImplementsLifecycle` hold |
| `pipeline_recovery` | is work settled in spite of crashes, and does a cancellation end the generation wherever it arrives? | 2 segments, 2 crashes, 3 claims; provider calls may raise, other code does not (finding 1) | `WorkIsSettled`, `CancellationEnds` hold |
| `artifact_files` | do the files of two workers that share names stay what their rows say? | 2 segments, 2 workers, 2 claims, 1 crash, 1 stall, exceptions; 410 thousand states | `PublishedFilesAreIntact`, `FlawsComeFromFaults`, `ImplementsPipeline` hold |
| `verifier_polls` | which alarms of the live verifier can the service provoke, and what provokes them? | 1 segment, 1 worker, 2 claims, 1 crash, cancel and delete by another client at any time, together with the crash only once the verifier polls no more, any answer lost; 1.5 million states | `VerifierTypeOK`, `AnswersAreBacked`, `NothingPublishedIsMissed`, `AlarmsHaveACause` hold |
| `dialogue_planning` | what is spoken, in which requests, and what can still be refused? | every text of up to 3 short lines, every turn of up to 7 characters, alone, or of up to 5 before another; scenes of 2 turns and 5 characters, fragments of 3; 232 thousand states | `RequestsSayTheText`, `RequestsAreWithinLimits`, `OnlyVerifiedTextIsPlanned` hold |
| `scheduler_safety` | are slots exact, is every file and every tombstone somebody's? | 2 projects, one deletable, 2 threads, capacity 1, one stop of the process, one fault: a stall, or a pipeline, a claim, a thread start or an unlink that raises; 2.4 million states | `TypeOK`, `SlotsAreExact`, `NoOrphanFiles`, `SweptWhenQuiet` hold |
| `scheduler_progress` | is pending work claimed? | 2 projects, capacity 1, one stop | `EligibleWorkIsClaimed` holds |
| `tts_call` | charged once, filed right, books closed, does the call end? | 3 plans, 2 attempts, 2 pool threads, one write that raises or one deletion, a stop anywhere, results collected in any order; 1.77 million states | `TypeOK`, `ChargedAtMostOnce`, `ChargesAreNotMisfiled`, `BooksAreClosed`, `AssemblyIsComplete`, `ExecutionEnds` hold |
| `creation_safety` | two requests against two previews, faults and restarts between statements | 2 owners, 2 wordings, 2 revisions, expiry, one fault, one restart; 770 thousand states | `TypeOK`, `OneProjectPerPreview`, `CreationIsWhole`, `RunsAsPreviewed` hold |
| `legacy_jobs` | slots, records, ends | 3 jobs, 2 slots | `SlotsAreReturned`, `JobsAreTrue`, `EveryJobEnds` hold |
| `pipeline_stuck_cancellation`, `pipeline_stale_failure` | is what the repository says true? | the least that shows the case | violated, section 5 |

Workers, threads, requests, owners, wordings and revisions are symmetric in the safety runs; the liveness runs use no symmetry.

Why the bounds are enough to make the interesting cases happen:

* Two segments are the least with a segment that follows another and a last one. Three claims allow a worker
  to be superseded and its successor to be superseded or crash again; two workers are the least that act at
  the same time. One crash and one stall with exceptions anywhere put a fault at every step, followed by a
  second fault of another kind.
* Capacity 1 with two projects makes threads compete for the slot; the second thread object is the successor of a
  stalled thread, or the thread of the other project while the first one sweeps. The one fault may come before or after
  the one stop. `lost`, `stalled` and `stuck` remember what a fault did, so that `SlotsAreExact` accounts for the slot a
  raising claim or start keeps, `NoOrphanFiles` leaves out the project whose lease expired under a live thread (section 5) and
  `SweptWhenQuiet` files that could not be unlinked and projects whose registered thread never started - and nothing else. That a
  pipeline thread's own sweep meets such a thread takes two faults (a stall, and the start of its successor); TLC found the invariants
  kept there too, in a run of two faults without stops, and the proofs cover it.
* Two claims are enough for `artifact_files`: the first worker stalls or crashes at any point of any file, the second goes on where
  the rows say. A third would find the rows as the second found them. The second segment is the one whose files an earlier one's
  publication must survive; the episode is made of both.
* The verifier sees one worker at a time, and one segment has every stage it compares; the crash gives it the second claim, after
  which `tts` may start again. Another client cancels and deletes whenever the rows let it. While the
  verifier polls, a crash and a call of another client are explored one without the other (`CrashOrMeddling`, a state constraint, for the
  sake of time): what either takes away from an answer does not need the other. The theorems have no such bound, and TLC has run once
  without it, over 4.7 million states.
* The limits of `dialogue_planning` are small so that every text around them fits: turns at, below and above a scene, a scene full by
  turns and by characters, fragments with a mark or a space at, before and just behind the limit, and none.
* Three plans on two pool threads give a plan in flight, a plan that fails and a plan still queued; two attempts
  give one retry. One fault meets every step of every plan, in flight or queued; the two kinds do not need each other, for a write
  does not ask whether the project is there, except those of the main thread, which `MainRaises` covers.
* Two create requests and two previews give every conflict of a pair. Two wordings let a
  request differ from its preview; the one duration plans two segments, and what a project of another duration would differ in
  is checked by the same comparison as the wording.
* Three jobs on two slots make one wait for a slot that must come back.

Every property has a mutant in `PROJECT.json` - a dropped guard, a forgotten write, a wrong order - whose
violation TLC finds under the same configuration; the mutated definitions stand beside the originals and are
marked `Mutant:`.

## 4. Fairness

* A thread that can take a step takes it (weak fairness per worker, sweeper, drain caller or job; in `TtsExecution`, where every
  thread ends by itself, weak fairness of the call as a whole), and calls return: LLM
  calls have `timeout_seconds=120` (`core/script_generator.py:91-162`, `core/config.py:64`), TTS requests
  `timeout=120` (`core/tts_engine.py:191`). For the legacy jobs that every call ends is an assumption.
* Time passes: a lease nobody renews expires. The reclaimer polls at an interval (`main.py:170-175`), so
  claimable work is claimed.
* `WorkScheduler` abstracts the pipeline to a loop of fenced writes and asks strong fairness of `SettleWork`:
  a pipeline ends. `SegmentPipeline`, without that assumption, is where this is shown (`WorkIsSettled`). It also assumes that a
  stopped service is started again.
* Crashes, stalls, exceptions, clients, expiry of previews and restarts of `ProjectCreation` have no fairness: they
  may happen or not.

`EligibleWorkIsClaimed` is checked with claims and thread starts that do not raise; section 5 says what happens when one does. `ExecutionEnds` leaves
out the process that stops, whose call ends with it.
`CancellationEnds` asks nothing after a crash, and its run has no exceptions outside provider calls; finding 1 is why.

## 5. Where the code departs from its own words

Each is a run whose property quotes a statement of the repository and which TLC refutes by a behaviour of the code.
`PROJECT.json` quotes the statements.

1. `pipeline_stuck_cancellation`: an exception after a cancellation request makes `_settle_failure` fail the work
   row and leave the generation in `cancellation_requested`; no worker can claim the row any more to observe it.
2. `pipeline_stale_failure`: `_settle_failure` checks the lease before its transaction and writes generation and
   project without it; a stalled worker ends its successor's generation.

The models show some more, for which there is no run of its own:

* A claim that raises keeps its slot and, in the reclaimer, ends it (`main.py:118`, `main.py:128`), and so does `thread.start()`
  (`main.py:145-146`): `SlotsAreExact` counts such slots in `lost`. The latter also leaves a thread in the registry that never ran, and
  joining it raises (`main.py:166`): unless the work was claimed anew before, a deletion of that project ends in an error, and so does
  every repetition until the process is started again; `SweptWhenQuiet` leaves out this project.
* The repository's verifier repeats a `POST /projects` whose answer was lost (`endpoint_verifier.py:121-130`), and the preview is spent
  by then: it ends with `unrecognized_error_envelope` about a healthy service and does not delete the project, which runs on
  (`AlarmsHaveACause` allows it, under the name `unrecognized_error_on_create`).
* A create request for another profile than the preview's is accepted and runs under the preview's (`v1_projects.py:424`), where
  `docs/agent-orchestration.md:30` and `docs/public-api.md:52` speak of a refusal; and an outline with an edited title or topic is
  refused as a mismatch (`persistence.py:589`).
* A crash while a speech file is written, or a stalled worker that rewrites it, leaves a file that the next worker mixes: the segment
  is published ready with torn speech (`FlawsComeFromFaults` allows it; it never happens without a crash or a stall).
* A detail answer that was read across the last commit shows a project row older than its progress, or the other way round: a client
  that checks both, as the repository's verifier does, can call a healthy run `terminal_project_not_ready`. It can also miss the moment
  at which a text is there without audio (`ready_without_prior_verified_text`) and find the first poll not empty
  (`initial_progress_not_zero`). A deletion between the SELECT of the generation and that of its stages gives an answer the response
  model refuses.
* An episode in mono: `_finalize` writes the interleaved stereo mixes (`audio_mixer.py:53-55`) under `setnchannels(1)`
  (`segment_pipeline.py:716-723`), at half the speed; compare `tests/test_audio_mixer.py:192` and `docs/agent-orchestration.md:37`.
* A dialogue that passed the gate may be unplannable: a turn longer than a scene (`tts_turn_too_long`) or a stretch without a place to
  cut it (`tts_unsplittable_token`, also when a space follows a mark at the start). A fragment may be one character longer than
  `max_fragment_characters` (`tts_engine.py:125`), and a marker without words is read aloud as the previous speaker's text.
* After a deletion a running render goes on sending requests and writes the rows of its attempts anew, which nothing removes
  (`execution_attempts.plan_id` references nothing). A row that cannot be written, or a stop of the process, leaves a reservation open
  that nothing releases.
* A worker that resumes between speech and mixing puts the completed `tts` stage back to `running`
  (`segment_pipeline.py:660-664`; `CheckedStage` decides by the mixing row), which clients that compare stages see as a regression.
* Two threads of one work id - a lease expired under a live thread and the same process claimed the work again - share a
  registry entry (`main.py:145`), and the end of either lets the sweep run while the other may still write files. `NoOrphanFiles` leaves
  exactly this case out.
* A definite refusal of a TTS request (`tts_http_N`) is filed as `unknown_outcome` (`segment_pipeline.py:211`): the rows cannot tell
  it from a request that may have been charged.
* A legacy job whose thread cannot be started keeps its slot for good (`SlotsAreReturned` counts it apart).

## 6. Proofs

The theorems hold for every value of the constants that satisfies the named assumptions (`NumSegmentsAssumption`,
`PipelineAssumption`, `TtsAssumption`, `CreationAssumption`, `SchedulerAssumption`, `JobsAssumption`, `Limits`, `TextsAreLines`), which say that
counts are natural numbers (positive where the code needs one), that null values are distinct from real ones, that the threads of one run of
the scheduler and the legacy jobs of one process are finitely many, and that a text is a sequence of lines, none of which begins or ends with
a space once stripped.

| module | theorem | says |
| --- | --- | --- |
| `SegmentPipelineProofs` | `TypeCorrect` | `TypeOK`, including that a worker is inside `_provider_operation` only for a stage with a provider |
| | `DispatchIsCommittedFirst` | `DispatchPrecedesCall` |
| | `AtMostOneCall` | `ProviderCalledAtMostOnce` |
| | `StaleWorkersAreFenced` | `StaleWorkerPublishesNothing` |
| | `CancellationStopsStarts` | `NothingStartsAfterCancellation` |
| | `ChangesAreVersioned` | `ProgressIsVersioned` |
| | `OrderInvariant` | `OrderInv`, the inductive invariant of the rows |
| | `SegmentsAreBacked`, `SegmentsAreOrdered` | `PublishedSegmentsAreBacked`, `SegmentsInOrder` |
| | `EpisodeIsWhole`, `EndsAgree` | `FinalIsComplete`, `WorkAndGenerationAgree` |
| | `PublicationsAreStartedOnce` | a publication is made by one worker at most, and once |
| | `PipelineImplementsLifecycle` | `ImplementsLifecycle` |
| `ArtifactFilesProofs` | `FilesImplementPipeline`, `AtMostOneCallWithFiles` | `ImplementsPipeline`, `ProviderCalledAtMostOnce` |
| | `FilesAreKept` | `FilesInv`, the inductive invariant of the files |
| | `PublishedIsIntact`, `FlawsAreExplained` | `PublishedFilesAreIntact`, `FlawsComeFromFaults` |
| `EndpointVerifierProofs` | `PlanIsKept` | whatever is completed has the stages before it completed |
| | `AnswersGoTogether`, `VerifierIsAnswered` | `AnswersAreBacked`, for any reader and for the verifier |
| | `VerifierTypes` | `VerifierTypeOK` |
| | `ServiceIsNotAccused`, `AlarmsAreExplained` | `NothingPublishedIsMissed`, `AlarmsHaveACause` |
| `WorkSchedulerProofs` | `SchedulerTypes` | `TypeOK`, with the count between zero and the capacity |
| | `CountIsExact` | `SlotsAreExact` |
| | `PipelinesAreBounded` | at most `Capacity` pipelines at once |
| | `FilesAreNotForgotten`, `TombstonesAreSwept` | `NoOrphanFiles`, `SweptWhenQuiet` |
| `TtsExecutionProofs` | `RenderedOnce`, `ChargesAreFiled` | `ChargedAtMostOnce`, `ChargesAreNotMisfiled` |
| | `BooksClose`, `AssembledFromAll` | `BooksAreClosed`, `AssemblyIsComplete` |
| | `ExecutionTypes` | `TypeOK` |
| `ProjectCreationProofs` | `OnePerPreview` | `OneProjectPerPreview` |
| | `CreationIsAtomic`, `ProjectsRunAsPreviewed` | `CreationIsWhole`, `RunsAsPreviewed` |
| | `CreationTypes` | `TypeOK` |
| `LegacyJobsProofs` | `SlotsComeBack`, `TableIsTrue` | `SlotsAreReturned`, `JobsAreTrue` |
| `DialoguePlanningProofs` | `DialogueInvariant` | `DialogueInv`, the inductive invariant of gate and planning |
| | `TextIsSaid` | `RequestsSayTheText` |
| | `LimitsAreKept`, `TextWasVerified` | `RequestsAreWithinLimits`, `OnlyVerifiedTextIsPlanned` |

*At most one call.* The property is not inductive: from a state where an operation was called, its attempt row says
`reserved` and another worker is about to dispatch, a second call follows. The inductive invariant is `TypeOK /\
DispatchPrecedesCall`: while the row says nothing was dispatched, nothing was called and nobody is about to call, and whoever is
about to call is alone and the first. Most steps only move attempts forward and lead nobody to a call (`QuietSteps`); the
dispatch (`DispatchKeeps`), the call (`CallKeeps`) and the deletion, which removes the row but closes every fence, need their own
argument.

*Fence, cancellation, versions* are action properties: each step is a transaction or leaves the rows alone
(`StepsAreTransactions`), and each transaction is guarded as the property needs. `TypeOK` is the only invariant they use. That nothing
starts or is published after a request to cancel is in the disposition that `CanRenew` asks for, row by row: attempts, stages, verified text,
segments, artifacts, episode.

*The rows agree.* No publication reads another row than its own, so the four invariants of the rows are not inductive: a worker
could publish a segment twice, or the episode before its segments, if it stood where it should not. `OrderInv` adds where workers stand.
At most one running worker has the current epoch (`OneHolder`), since a claim increments it; and what that worker has walked past is in
the rows (`HolderInv`): every segment ahead of its stage is mixed, the text it speaks is checked, and a stage it is busy with is not
completed, because it looked and nobody else could complete it meanwhile. A superseded worker may be anywhere, and its steps change no
result and no work row (`WorkerKeeps`). `RowsInv` then follows publication by publication. `OrderInv` also shows that the holder never gets to
`_settle_ready` with a lease: the episode's stage is completed only with the work (`SettlingOrder`). TLC checked `OrderInv` on the
instance of `pipeline_safety` first. That success and cancellation are settled in both rows at once is part of it (`SettledTogether`). A
failure is not always: `EndsInv` says that a worker without the current epoch runs only after a stall and a second claim (`StallInv`),
and that only such a worker leaves a failed generation with a leased work row (`Partings`).

*The promise.* The last part of `SegmentPipelineProofs` maps each step to a step of `GenerationLifecycle` or to one the client does not see. That segments are
delivered in order is `DeliveredIsAPrefix`, from `OrderInv`; the rest is which transaction ends the generation how, and that a failure
settled by a superseded worker still finds an active generation or changes nothing the client sees.

*Files.* Reading, opening, writing and measuring a file is a stutter or a step of `SegmentPipeline` (`FilesStep`), so every theorem about the
pipeline holds with files, `AtMostOneCallWithFiles` being the one restated.

*Published files.* Opening and writing ask for no lease and the names carry no epoch, so no fence keeps a superseded worker from
truncating what is published. What does is the stage row. `StartedOnce` says that at most one worker, fenced or not, is where the files of a
publication are made, and none once it is published. A worker that starts such a stage found its row pending (`FoundPending`), because
`CheckStage` refuses one left running and a cancelled one belongs to a generation that has ended; and the row does not go back. The
speech of a segment is not protected in this way (its stage may run again, decided by the mixing row), which is why `FilesInv` says
nothing of it. `FilesInv` then follows a publication file by file (`Handled`): the WAV that is finished stays complete while it is encoded,
the MP3 stays what was encoded until its checksum is in the row, and the row and the file agree from then on (`Recorded`); the episode is joined
from segments that are all published, so those files stay too (`WritingApart`).

*Flaws.* Without a crash or a stall whoever runs has the current epoch, an unexpired lease and a work row that is not pending, so it
runs alone (`Undisturbed`, with `OneHolder`). While such a generation goes on and nobody is about to fail it, no file is flawed and a torn
one is under its writer's pen (`Untouched`): a worker that drops an open file does so by raising, which ends the generation. So all that is published
is sound (`AllSound`). That an episode is as sound as its segments follows from `Recorded` alone, with faults too.

*What a reader may rely on.* An answer of list or detail is read in several SELECTs, each of another moment, so its parts are compared with the
rows as they are when each was read and as they are now. Two facts carry the proof. While the project is kept its rows only grow
(`RowsGrow`): what is completed stays completed (`DoneLasts`), but for the speech of a segment that is not mixed, which may run again. And whatever is completed has
the stages before it completed (`PlanInv`), because the holder of the lease walks the plan in order. `ReaderInv` relates the answer
under way to both: a text read has its provenance among what is still to be read, a ready segment its artifact and its count (`Gathered`, `Backed`). A deletion
between two SELECTs takes the rows away, and then the answer is no longer `Whole` and says so.

*The verifier* is such a reader (`VerifierIsAReader`), so it inherits the theorem. `ClientInv` adds what it remembers: the last version is
not ahead of the service's, nor of the answer under way, and it asks for retired things only once they are deleted. `ServiceIsNotAccused`
follows by going through its checks in their order (`AnswerVerdictIs`, `TextVerdicts`, `TerminalVerdicts`). The theorems about
`VerifierSpec` speak of projects of one section, as the verifier does (it stops at others); those about `ReaderSpec` of any number.

*Its other verdicts.* That a stage goes back only after a second claim needs that under the first one it does not: one worker walks, and a
speech that has been started was started by it, at the stage where it stands or behind it (`FirstWalk`). So rows go from pending to running to completed
(`StagesAdvance`), and the state and count that an answer derives from them do not go back (`StandingAdvances`). `Steady` ties
that to what the verifier remembers and has just read. That nothing else is reported without faults needs that there is no second claim: a
holder that neither crashes nor stalls finds its lease unexpired at every transaction, whatever raises, until it has settled
(`CalmRows`), and a settled row is not claimed. Without a meddler, who deletes or cancels, no answer misses rows (`Unmeddled`), faults or
not. How often a meddler acts does not matter, for all of them only take rows away or stop the growth. The repeated creation has no
cause in the service at all; it is told apart by where it comes from.

*Charged once.* `IInv` of `TtsExecutionProofs` adds that every charge belongs to the attempt under way, that a render
which has not sent has none, and that an answer filed as retryable came without one, so that a retry leaves no charge behind; and, for
each place of a render, which rows its attempt has by then. `EndInvariant` follows the pool: a future that is done has no render, a
render that returned has closed its books unless a write raised. `JoinInv` says that what was collected are plans that returned, each
once; so when all are collected, looking them up by plan gives the order of the dialogue (`JoinedInOrder`).

*One project per preview.* `IInv` of `ProjectCreationProofs` says that a committed project is named by its preview's
binding (`ProjectsAreNamed`), that the one open transaction found the binding unmarked and differs from the committed rows by its
own marks (`OneTransaction`), and that a binding row is made once (`BindingsAreFresh`). Two projects of one preview would both be named
by one row. It covers faults and restarts between any two statements, because nothing but a commit changes `db`.

*Whole, and as previewed.* That a commit leaves a whole project says nothing about the rows until one knows what the open transaction
has inserted. `WholeInv` adds it, phase by phase: at each `create[q].pc` inside the transaction, `pending.rows` is `db` with exactly the
rows of `q` that the statements so far insert (`Written`), and the request passed the checks against the binding it found
(`Accepted`); `db` itself is whole (`ProjectsAreWhole`), its previews agree with their bindings and ledgers (`PreviewRecordsAgree`,
`AsAsked`) and its projects with their previews (`AsPreviewed`). A raise or a restart drops `pending`, so nothing else is to be
shown for them. The part read before the await matters only through `Accepted`: what the request read then is what the binding still says,
because a binding row is never rewritten but for its mark.

*Slots.* `SlotsAreExact` equates the count with the size of a set, so its proof is about how each step changes that set: by one member, or not at all.
That is `Linked`: a thread, the call it makes and the sweep it makes agree on where it is, and no two calls register one thread. A
start that raises takes its thread from the one set and adds to `lost`. The
cardinality facts need the callers to be finite (`FiniteCallers`).

*Files and tombstones.* `NoOrphanFiles` needs the fence. While a lease has not expired under its thread, the one thread that works for a
project is the holder of its lease and the registry names it (`Owned`), so a sweep that found the registry empty meets no writer, and a deleted
project's thread never passes the fence again (`Fenced`); until then the tombstone is there (`Remembered`). `Watched` says who will look at a
tombstone: a request, or a thread that has not listed yet, unless the registry keeps a thread that never started. The exceptions of the properties (`stalled`, `stuck`) are the exceptions of
the invariant. `Remembered` is stronger than `NoOrphanFiles` by the thread that is about to write.

*Legacy jobs.* `SlotsAreReturned` follows the thread through its `finally`. That the sweep spares the record of a running job is
`Unfinished`: only what has ended grows old, and the last write of a thread is what ends its record. That a completed job has its
file is `MixedFirst` and `Backed`.

*Dialogue.* The properties are about what loops compute over sequences of any length, and the library's induction theorems, which take the
predicate as an operator, cannot be used. But a set can stand for the predicate: every non-empty set of numbers has a least
one (`Least`, from the well-foundedness of `<`), so a set that has 0, and with each number the next, has all (`Induction`). That yields what
`FoldLeft` and `FlattenSeq` compute, one element at a time, and with them that parsing a text keeps every word under its speaker and
what is heard of a text. The invariant is then a conservation law (`SaysTheText`): the requests made, the open one and the turns left always say
the published text, and each round of a loop moves a turn, or a piece cut between words, from one to the next. `OpenFits` and `TurnsAreOfText`
give the limits and explain a refusal by a turn of the text. Cutting needs that a cut leaves both pieces trimmed, that only spaces are lost at it, and
that with no place to cut the rest begins with a stretch longer than the limit (`Boundary`, `Split`).

Each of these inductive invariants was an invariant of a TLC run of its module, under the configuration of the module's safety run, before it
was proved (`DialogueInv` over fewer drafts than that run has).

Only model-checked: liveness (`WorkIsSettled`, `CancellationEnds`, `EligibleWorkIsClaimed`, `ExecutionEnds`, `EveryJobEnds`), which is out of
reach of the installed provers.

## 7. Plan

Done: the core (`DurableStore`, `SegmentPipeline`, `GenerationLifecycle`) with its proofs, all its safety properties and the refinement
among them; `WorkScheduler`, `TtsExecution` with its faults, `ProjectCreation`, `LegacyJobs`, with proofs of all their safety properties; the pipeline with files, with proofs; the pipeline with a reader
and with the repository's verifier, with proofs of all their safety properties; dialogue planning, with proofs of its properties.

Next:

1. `EpisodeLedger`: the cap, once something calls `_reserve_ledger_operation`.
2. `current_activity` and the error rows of a project answer.

## 8. Not modelled

* Prompts and JSON parsing of `core/script_generator.py`: to the pipeline a call returns, raises or hangs until its timeout, and that is
  modelled; the gate behind the verifying call is in `DialoguePlanning`.
* Signal processing (`core/audio_mixer.py`, `core/beat_generator.py`): floating-point samples. Which files they read and write is in
  `ArtifactFiles`.
* `current_activity`, error rows and timestamps of a project answer: presentation of rows that are modelled.
* `_reserve_ledger_operation`: it enforces the cap of a ledger and has no caller.
* Profiles and configuration: pure functions of files; `ProjectCreation` takes a profile and a revision as values.
* Authentication, health, observability: no state, or none that control depends on.
* Legacy script and audio endpoints: single synchronous calls.
* The connection cache of `core/persistence.py` (connections kept by thread identifier): a transaction of the models belongs to
  the thread that opened it.
* The heartbeat as a thread of its own: it only renews, so it shows as the lease not expiring; its death as a stall.
* Two service processes on one database: the deployment runs one; inside it the model still allows several workers at once.
