# PlantForgeAI: a verification development

TLA+ specifications of PlantForgeAI (`src/` is the repository), TLC runs that
check them on small instances, and TLAPS proofs of the theorems that hold for
every instance. Every module names the code it models; `PROJECT.json` maps each
definition to its lines.

## 1. The system

PlantForgeAI turns a plant's documents into a knowledge graph and answers,
alarms and dispatches from it. It is a set of Python processes that share no
memory: they meet in Redis (the Celery broker, streams, claims, locks, cursors,
hashes), in MinIO (document bytes), in Neo4j (the graph) and in TimescaleDB
(samples). That is where its hard behaviour lies: every call on a shared store
is a point where another process may step in, or the caller may die.

| component | state it keeps | operations | hard behaviour |
|---|---|---|---|
| connectors (`services/connectors`) | a cursor per source in Redis | `sync`, `sync_all` | a cursor that outruns a failed item; a truncated batch; overlapping syncs |
| ingestion (`services/ingestion`) | `doc:hash:*` claims, staging and raw objects | `classify_document` | a crash between claim and move; duplicates racing |
| extraction (`services/extraction`) | `lock:extract:*`, `cache:extract:*` | `_run_lane` per lane | a lost worker's lock, release order, at-least-once delivery |
| resolution (`services/resolution`) | none (canonical ids are a pure function) | `resolve` | a failure after the claim |
| graph writer (`services/graphd`) | write buffer, DLQ, flush lock, `graph:version`, `graph:deltas`, the graph | `flush`, `write_batch` | a destructive pop, partial batches, a lock shorter than the flush |
| denoiser (`services/graphd/denoise`) | the graph | prune, merge, link | an LLM verdict applied to a graph that moved on |
| retrieval (`services/retrieval`, `core/cache`) | `AnswerCache` in Redis | `ask`, `invalidate` | an answer computed before and stored after an invalidation |
| agents runtime (`services/agents`) | cursors, `ALERTED_SET`, `rca:*` claims | `tick`, handlers | cursor and claim written before the work is done |
| process watchers (`agents/watchers`, `services/watchers`) | open alarms per tag or rule, consumer group | alarm, re-arm, ack | debounce, a reset racing the loop |
| diagnostics (`services/diagnostics`) | pending episode, cooldown, detector arming, stream cursor, index | `run`, `flush_ready` | an episode lost in a restart, a cooldown hiding a fault |
| historian (`services/historian`) | consumer group `historian` | read, insert, ack | commit before ack, reclaim after a crash |
| simulation (`services/simulation`) | plant state, task per unit, overrun counter | start, stop, reset, tick | two loops after concurrent commands; divergence and overruns |
| work orders (`gateway/routes/work_orders`, `core/notify`, `gateway/dispatch`) | schedules, decisions, crew, assignments hashes | schedule, decide, dispatch, progress | double answers, stale approvals, a re-dispatch overwriting progress |
| gateway (`services/gateway`) | rate buckets, SSE fan-out | routes | `INCR` then `EXPIRE` |
| interviews (`services/interview`) | session files | turns, hand-over | a session saved between two turns |
| LLM client (`core/llm`) | semaphore, rate limiter | `complete`, retries | retry budgets, structured output |
| fleet (`infra`) | replicas, draining containers | scale, reap | scale down while a task runs |
| UI, MCP server, tools, deployment files | none of their own | I/O | - |

How they interact, in the order of a document's life: a connector, the gateway
or the CLI stages bytes and sends `classify`; ingestion claims the hash, moves
the bytes and sends the lane's task; the lane sends `resolve`; the resolver
pushes on the write buffer; the writer commits batches and publishes a delta
per commit; the agents runtime reads deltas, invalidates cached answers and
raises alerts. Plant samples go from the simulation to Redis streams that the
watchers, the diagnostics runtime and the historian read, each with its own
cursor or consumer group; diagnoses and alarms reach the agents runtime, which
investigates them and drafts work orders; an engineer schedules a draft, Slack
answers, and the gateway dispatches it to a crew.

What makes each component correct, and who answers for it here (section 2 for
the modules):

| component | what makes it correct | where |
|---|---|---|
| connectors | the cursor never passes an item that was neither submitted nor logged as failed | `ConnectorSync` |
| ingestion, extraction, resolution tasks | a claimed content is on its way or delivered, or its task was cut short where no handler gives the claim back; bytes are never dropped before they are archived; a lane runs once at a time while its lock lasts; nothing vanishes without a failure on record | `DocumentPipeline`, `DocumentLedger` |
| extraction lanes, resolver | what a lane reads lands whole: no edge without its ends, no page in no chunk | `ExtractionLanes`, `DocumentText` |
| graph writer | every payload ends in the graph, the DLQ or the buffer; a commit is announced; one writer per lock, and versions only go back by one that shared it; one poison does not sink its batch | `GraphWriter` |
| denoiser | no failure record disappears; what a person corrected stays | `Denoiser` |
| retrieval | an answer says what was corrected of its sources; a path is left out only for a stronger one | `AskPipeline`, `PathPruning` |
| answer cache | no answer survives a change to what it cites; the cap holds | `AnswerCache` |
| agents runtime | every stream entry is handled; no investigation twice; a failed one can be asked for again | `AgentsRuntime` |
| sweeps | what stays overdue is told of again; a revision is reported | `Sweeps` |
| reasoning use-cases | what is shown as found was in the graph; nothing untraced is urgent; references survive translation | `GroundedDrafts` |
| work orders | nothing reaches a worker unapproved; a proposal is answered once in one process, and for good in several; an approval is followed up | `WorkOrderApproval` |
| job cards | the card tells what the worker tapped since writers last overlapped, and nothing else | `JobCard` |
| interviews | a turn behind the cursor was read; one write-up at a time | `InterviewSession` |
| LLM client | no more requests than the rate allows | `LanguageModel` |
| historian | at least once, and duplicates only for failures | `HistorianSink` |
| simulation | "running" is true; stop stops; samples keep coming | `SimRunner`, `PlantFeed` |
| process watcher (TEP) | an alert does not repeat the one before it in the same excursion; a lasting fault ends under an alarm | `TepWatcher`, `PlantAlarms` |
| CSTR and column watchers | a value that stays above its highest limit is told of | `UnitWatchers` |
| diagnostics | an alarm that nothing covers is diagnosed; an event needs a run of anomalies; a recorded fault that recurs is put first | `DiagnosticsRuntime`, `AnomalyDetector`, `FaultSignatures` |
| fleet | a lull is waited out before a worker goes; a backlog that settles has the workers it wants | `WorkerFleet` |
| gateway rate limit | a caller who stops is admitted again | not modelled |

## 2. The modules

Each component has a module `M`. The theorems about `DocumentPipeline`,
`GraphWriter`, `WorkOrderApproval`, `AgentsRuntime` and `SimRunner` are in `MProofs`;
those about the components that share a staged module (below) are in the proofs of
that module, `KnowledgeProofs`, `FieldProofs` and `TelemetryProofs`. Where the
constants are plain sets and numbers a run names the module itself
(`DiagnosticsRuntime`, `SimRunner`, `WorkOrderApproval`, `AgentsRuntime`, `Field`);
where they are functions or sequences an MC module gives them (`MCDocumentPipeline`,
`MCGraphWriter`, `MCOffice`, `MCKnowledge`, `MCTelemetry`), and has nothing else but,
in `MCOffice`, its stages. A
module that holds mutants has them beside the definition they replace, marked
`Mutant:`; they are plausible bugs of that code, no part of the specification,
and each makes the property it is aimed at fail (`PROJECT.json`, "mutants").

**DocumentPipeline** (ingestion, extraction and resolution tasks). State: the
object store as `staging` and `raw`; the Redis keys as the sets `claims`
(`doc:hash:*`), `locks` (`lock:extract:*`) and `cache`; the broker as `tasks`,
the number of live messages per task (queues are not ordered: several workers
take from them); the writer's list as `buffer`; per worker a place `pc` in its
handler and the message `task` it holds unacknowledged. One action per call on a
shared store: `Claim`, `DropDuplicate`, `Archive`, `Unstage`, `ClassifyKind`,
`SendExtract` are `classify_document`; `Lookup`, `SendCached`, `AcquireLock`,
`Recheck`, `RunLane`, `StoreExtraction`, `ReleaseLock`, `SendResolve` are
`_run_lane` with its `try/finally`; `ResolveSubgraph` and `QueueSubgraph` are
`resolve`; `ReleaseDocument` is what each of them does on a failure. `Take`,
`Ack`, `Fail` and `WorkerLost` are Celery as `worker_app.py` configures it:
acknowledged late, prefetch one, a lost worker's message redelivered, an
exception put on the DLQ without a retry. Abstracted: the lane chosen, and what
it extracts.

Every call may raise. `Fault("redis")` is in each action whose Redis command no
`try` of its own catches, and in `ReleaseDocument`, in two ways: the command was
not carried out, or it was and its answer was lost. A send
raises because the broker refused it (`"send"`) or although it took it (`"confirm"`).
What ends a task while its claim stands and nobody is left to give it back is
`Abandon`. Three variables are history: `stranded`, the documents with a task cut
short there (or by a lost worker, or turned away by a task that had given its claim
back); `left`, the locks whose last holder went without deleting them; `outlived`,
how often a document's lock ran out under a worker inside. The properties speak of
them, so that each kind of loss is told of where it bites and nowhere else.

**DocumentLedger** is what the pipeline promises: a content is claimed, and then
delivered once or given back. `DocumentPipeline` implements it with
`claimed <- claims`, `delivered <- buffer` as long as no worker is lost and no send
that raised was carried out all the same: after either, a document may be handed on
twice.

**GraphWriter** (`graphd/writer.py`, `graphd/tasks.py`, the store's
`write_batch`). `buffer`, `dlq`, `lock`, `version` and `deltas` are the Redis
keys; `kind` says what the writer will find in a payload. A flush takes the
lock, pops rounds of `BatchSize`, splits a failing batch into its members, and
announces each commit. The pop is destructive; the commit and the announcement
are two steps, with the loss of the flusher between them. The lock may end under a
flush at any time; `shared` is history, the flushes that have been at work beside
another (`AtWork`).

**WorkOrderApproval** (`gateway/service.py`, `dispatch.py`, the work-order and
Slack routes, `notify/slack.py`, the job-brief agent). One draft, because every
key carries the draft's id. `schedule` is its row, `asked` the messages in
Slack, `answers` what was recorded, `card` a worker's job card, `brief` the
cached brief. A `def` route runs in a thread, so `Check`, `Save` and `Ask`
interleave with everything; an `async def` route leaves the loop only at an
await, so a `Tap` and its `Decide` exclude the other coroutines of that process
except at awaits and no coroutine of another process.

**JobCard** (`field` routes, `redis_bus.py` assignments, `deliver_assignment`).
The card is one JSON record that every writer reads and writes back whole:
`Look`, `Fetch` and `Save` are the device's three calls, `Dispatch` and
`Deliver` the dispatcher's, and as many writers are at work at one time as there are
processes. A stamp is the number of the tap that made it. `alone`, `base` and `since`
are history: whether the writers at work began one after the other's end, and the
card that writers who overlapped left, with the taps there had been by then.

**HistorianSink** (`historian/sink.py`). `oldest..newest` is the capped stream,
`delivered` and `pending` the consumer group, `stored` the table, `cursor` the
sink's `"0"` or `">"`; `ReadLive`, `ReadPending`, `Insert`, `Ack`, `Raises`,
`Crash`. `gone` is a history variable: trimmed before it was stored.

**AgentsRuntime** (`agents/runtime.py`, `handlers/*`, `consumer.py`,
`watchers/failure.py`). Three streams and their cursors; `alerted`,
`entryClaims`, `rcaClaims` are the Redis claims, the other sets what the process
has in hand. A tick goes through deltas, alarms and requests in this order; an
exception in the delta handler ends the process.

**AnswerCache** (`core/cache/answer_cache.py`, `retrieval/service.py`, the delta
handler). `entries` is the hash, `lru` the sorted set; a put is HSET, ZADD,
ZCARD, ZPOPMIN, HDEL, an invalidation HGETALL and then HDEL, ZREM per doomed
entry: each call a step. `entries[q].read` and `.swept` are history: which graph
the answer was read from, and which sweeps were over when it was put.

**PlantFeed** is what the simulator promises to those who watch the plant:
while it runs it keeps publishing samples, a reset is one sample at nominal and
one announcement, and either may be lost or overtaken.

**SimRunner** (`simulation/runner.py`, `app.py`) implements `PlantFeed`. The
tick loops and the HTTP handlers are coroutines of one loop, so an action runs
from one await to the next. `loops` keeps every task object that is alive, which
`_sim_task` (here `task`) may no longer name.

**TepWatcher** (`agents/watchers/tep.py`) is the alarm watcher: a consumer
thread and a listener thread that share `_open` without a lock.
**PlantAlarms** composes `PlantFeed` and `TepWatcher` by `INSTANCE`: they share
the stream, the channel and the fault budget; a step is a step of one of them.

**DiagnosticsRuntime** (`diagnostics/service.py`) is one loop: read the alert
stream from the stored cursor, arm an episode (`pending`), wait for the plant to
react, diagnose, publish, index. `NothingRecorded` and `TickFails` are its two ways
to give up; `cool` and `refresh` are its timers, counted down by `Wait`; `tail` is
the telemetry cursor of the detector, whose `None` is the `"$"` of the code. Only
`cursor` survives a `Restart`.

**AnomalyDetector** (`diagnostics/detector`) is the persistence filter: each
sample is scored against two limits, the verdict goes into a short history, an
event mutes the next ones for a while. **FaultSignatures** (`diagnostics/signature`,
`diagnostics/matcher`) are functions: what a window is distilled to, in integers, and the
score of two signatures as a fraction.

**UnitWatchers** (`agents/watchers` for CSTR and column, and the scripts in
`services/watchers`) has both forms of the watcher: `open` ages the breaches that
the first keeps in memory, `claims` what is left of the second's Redis keys.

**Sweeps** (`agents/usecases/compliance`, `standards_watch`, the cron) has two
processes, the runtime's tick and the cron. The tick sweeps for compliance and
then for the standards; a scan goes standard by standard: search, read the revision
known (`ReadKnown`), store the one seen (`Remember`), judge, and raise the alerts at
the end. The GET and the SET are two steps, and the other process may store its own
in between. A web page is the revision it shows.

**ConnectorSync** (`connectors/runner.py` and the sources) has one pass per worker
over the sources. What a source lists, and in which order, depends on its kind:
newest first, oldest first, or a first page only; an item may fail alone. `last`
is the marker of the last item yielded, which the cursor takes at the end.

**DocumentText** (`extraction/text/chunker.py`, the outline of `extraction/manual`)
cuts prose into chunks by headings and size, and a manual's pages into a tree of
sections with a stack; a step is one turn of a loop of the code. Prose is a sequence
of lines, each with what it is (`kind`) and how many characters of text there are up
to it (`upto`), of which a span's size is a difference; `group` is what the packing has
in hand. A size is what the code counts, which is the paragraphs: the blank lines
between them are in the chunk and not in its size, so that a chunk may be longer than
`max_chars` by those.
**ExtractionLanes** (`extraction/*`, `resolution/resolver.py`,
`graphd/batching.py`) follows a
document step by step through its lane: section layer, embedding, mention pass,
batches of relation calls with their fallbacks, table rows, drawings in two
calls, corrections; then `Resolve` stamps the ids and `Land` keeps the edges that
have both ends.

**Denoiser** (`graphd/denoise`) is a pass over a graph that is being written:
`Snapshot` reads rows that are taken one by one later, `MoveEdges` and
`MarkSuperseded` are the two queries of a merge, and `WriteRecord` and
`WriteCorrection` may come between any two steps. What the language model proposes
is any plan that the validation lets through.

**PathPruning** (`retrieval` path finder and pruner) has the two ways to find
candidates, the flow of the resource along a path as an exact fraction, and the
pruning by overlap and number. **AskPipeline** (`retrieval/service.py`) is a
question from condensing to the cache: the document ids that can be read in its
context and those it knows it has shown are two sets, because grounding and
corrections each look at one of them.

**GroundedDrafts** (`agents/usecases`, `grounding.py`, the work-order and job-brief
agents): tool calls over a graph that changes, the answer's tags, the grading,
then an alert, permit, assessment or report, a draft of an alert and the cards of
an approved draft. Artifact, draft and cards have the tags they name and the
references they cite, each by the way it takes in the code; `held` is history, all
that the graph has held of the subject since the question. **InterviewSession** (`interview/session`, `domain`,
`api`, `voice`): one step from an await to the next; text turns and calls add to the
transcript, digests read it from `cursor` on, and every way to the end calls
`finalize` with its guard `_finalizing`. **LanguageModel**
(`core/llm/client.py`): slots, the limiter's `lastTime`, retries, and the seven
kinds of call, each with what it does with an answer that is empty or an error.
**WorkerFleet** (`infra`): the tick over one stage, with processes that drain and
die or containers that a command on another thread scales.

**Staged modules: Knowledge, Field, Telemetry.** Components that meet only through
shared stores, each of which models what it reads of them, share a specification
without being composed: a behaviour is of one stage, chosen at the start, a step is
one of the stage's module, and what is of the other stages stays `None` (`Of`,
`Still`). A variable or constant that two modules declare is declared once; where
its meaning differs the `INSTANCE` renames it (`Paths == INSTANCE PathPruning WITH
Nodes <- Things, pc <- pruning`). The state space is the sum of the stages', a property
is about one stage, and `"stage"` keeps the properties of the others out of it.
`Knowledge` has DocumentText, ExtractionLanes, Denoiser, ConnectorSync, PathPruning
and AskPipeline; `Field` JobCard, GroundedDrafts, InterviewSession and LanguageModel;
`Telemetry` HistorianSink, PlantAlarms, UnitWatchers, DiagnosticsRuntime,
AnomalyDetector, FaultSignatures, AnswerCache and WorkerFleet. They
have every constant as a parameter, so that the theorems of their proofs are
about any values, and the runs about one. `MCOffice` puts WorkOrderApproval and Sweeps
together in the same way, for TLC alone. What is composed, step against step, is
the simulator's feed and the TEP watcher, in PlantAlarms.

## 3. Runs and bounds

The bounds are constants of the modules, each in the guard of the action it
limits; a run stops there, which is why all runs but one say `CHECK_DEADLOCK
FALSE` (the number of uploads, taps or samples is finite). `simulator` goes on for
ever and checks deadlock.

A property of a run is often the conjunction of named parts, each stated and
commented in its module; the third column gives them.

| run | instance | what it shows |
|---|---|---|
| `pipeline_submitted` | 2 workers, symmetric, 2 contents, 3 uploads (two of one content, at any time), 2 calls that raise, of the archive, classifier, lane, cache, resolver, the broker that refuses or any Redis command, 1 lock that outlives its ttl; 203 000 states | without a lost worker: no bytes are lost (`BytesKept`), `DocumentLedger` is implemented (`LedgerSpec`) |
| `pipeline_crash` | 2 workers, 1 content uploaded twice, the same 2 calls and sends that were taken though they raised, 1 lost worker, 1 lock that outlives its ttl; 163 000 | `SingleFlight`, `TurnedAwayByHolder`; no document is stranded (`NothingStranded`: `ClaimBacked` and `NothingVanishes`) and every claim settles (`ClaimSettles`), unless a task was cut short where no handler gives the claim back |
| `pipeline_bytes_lost` | 1 lost worker | a finding: `BytesKept` fails |
| `writer_poison` | 3 payloads, two good and one that is garbled, refused, empty or unresolved, 2 flushers, batches of 2, 2 rounds, 1 fault of the store or the stream, 1 lost flusher, 1 lock that ends under a flush; 258 000 | `PushesAccounted` (`Conserved`, `EveryCommitAnnounced`, `OnlyCulpritsParked`), `WriterAdvances` (`OneWriterPerLock`, `VersionsOnlyGrow`, `BufferDrains`) |
| `approval_one_process` | 1 process, 2 workers, 2 proposals, 2 dispatches, 1 fault, 1 lost process; beside it the sweeps, 1 obligation, 1 standard, 2 revisions, 1 fault, 1 restart; 242 000 | `OnlyApprovedDelivered`, `RecordHolds` (`FirstDecisionStands`, `SentIsTrue`), `ApprovalFollowedUp`; `StandingBreachRepeated`, `MoveTold` |
| `approval_flips` | 2 processes | a finding: `FirstDecisionStands` fails |
| `simulator` | 2 loops, 2 overlapping commands, 1 reset, 1 fault; 91 000 | `RunningIsTrue`, `RunsAsCommanded` (`StopHolds`, and `ImplementsFeed`: `PlantFeed` is implemented) |
| `agents_restarts` | 1 pattern, 1 diagnosis, 2 deltas, 1 alarm, 2 requests, 1 fault, 1 lapse, 1 restart; 248 000 | `SpentOnce`, `LossesAccounted` (`AlertLostOnlyByRestart`, `AskAgain`, `AlarmsExplained`), `EverythingRead` |
| `knowledge` | texts and manuals of a few lines or pages; a document of every lane, after it a second one; 2 pieces of equipment with 2 modes; 2 passes over 4 configurations of connectors, which have every kind of source; small graphs of paths; 3 questions, asked twice; 1.17 million | `CutSound` (`TextKept`, `TreeSound`), `LandsWhole` (`EdgesLand`, `LandsWhole`), `RecordsTraced`, `HumanKept`, `NothingPassedOver`, `RetrievalSound` (`StrongestKept`, `CorrectionTold`) |
| `field` | 2 processes, 2 devices with 3 taps and 2 dispatchers with 2 dispatches of a card; 1 tool call, 1 change of the graph under an answer; 1 call and 1 text turn of 2 turns, 2 finalizers, 1 fault, 1 restart; 2 tasks on a client, 1 retry, 2 failures; 2.66 million | `TellsTheTaps`, `EvidenceGenuine`, `DraftsTraced` (`NothingInvented`), `InterviewSound` (`NotedIsRead`, `OneWriteUp`), `RateKept` |
| `telemetry` | 5 samples, a cap of 2, 2 faults, 1 restart of the sink; 2 levels, 1 reset, 1 unread sample, 1 fault, 1 restart of the TEP watcher; 1 tag in each form of the other watchers; 2 alarms for diagnosis; 2 tags, a run of 3 for the detector; 2 windows of 3 tags; 2 questions with a cache of 1; at most 3 replicas; 194 000 | `LostOnlyToCap`, `SamplesLand`; `FaultAlarms` (no alert repeats the level of the one before it in the same excursion, and a lasting fault ends under an alarm); `StandingBreachTold`; `AlarmDiagnosed`; `RunsWaitedOut` (`EventsPersist`, `LullKept`); `ReplayWins`; `CacheSound` (`StaleOnlyByRace`, `CapKept`), `Fades`; `Settles` |
| `detector_starves` | the diagnostics runtime alone | a finding: `DetectorFed` fails |

Why they are enough. Two contents are needed only to see that their keys do not
interfere; the races are between two workers on one content, which a second upload
of it gives. A redelivery needs one loss, a stranded lock one loss or one DEL that
raises, and one more message; two faults let a handler fail and then its release.
The writer's rounds and splits show with a batch of two beside a poison, its lock
with two flushers, two writers at once with one lock that ends. In the card, two
processes hold two devices, two dispatchers or one of each at the same time; three
taps and two dispatches let two writers overlap, and then show that what comes after
is told. The sink's cap of two against five samples
lets entries be trimmed while pending, before delivery, and after. One cached
answer more than the cap is what the eviction needs. The denoiser needs two modes
for a merge and two provenances for a record that comes late; a connector a
second document behind one that failed; the pruner three paths, two of which
overlap; the detector a run that is broken and begins anew inside its window; the
fleet one replica more than the smallest. The interview's two finalizers and one
late turn give every order of an end against a digest. A second reset of the
simulator (`MaxResets = 2`) was run and passes too, in four minutes; so does the
cache with two asks. Where a theorem covers the property, the
bound does not matter.

The type invariants are not run. Those of `DocumentPipeline`, `GraphWriter`,
`WorkOrderApproval`, `JobCard`, `HistorianSink` and `AgentsRuntime` are theorems;
those of `SimRunner`, `AnswerCache`, `TepWatcher`, `PlantAlarms` and
`DiagnosticsRuntime` hold on the instances above. Proved and not run either:
`DuplicatesArePaid` of the sink, `NothingSkipped` and `NoEcho` of the agents runtime, and
`AnswersFinal` of the approval, which was checked with two processes.

## 4. Fairness

Liveness is checked under weak fairness of what the processes do of their own
accord, and of nothing that people or failures decide: nobody has to upload,
tap, approve, reset or crash.

| module | fairness | why the code justifies it |
|---|---|---|
| DocumentPipeline | WF of each worker's `Step`, WF of taking each message | Celery consumers poll for ever; a queue is served in order, so no message is passed over for ever |
| GraphWriter | WF of each flusher, WF of the lock's expiry | beat starts a flush every few seconds; the lock has a ttl in Redis |
| WorkOrderApproval | WF of `Decide` per loop and `Dispatch` per task | the event loop runs every coroutine that is ready; every call has a timeout |
| HistorianSink | WF of `Sink` | `run()` loops until it is stopped |
| AgentsRuntime | WF of `Tick` | likewise |
| AnswerCache | WF of the runtime | the runtime's tick comes round for ever; a request may be abandoned anywhere |
| SimRunner | SF of each loop's `Step` and each command's `Finish`, WF of the reader | asyncio's ready queue is first in, first out: a coroutine that is ready again and again runs again and again |
| PlantFeed, TepWatcher | WF of `Emit`; WF of `Check` and of `Hear` | the implementation relation gives the first; the two threads loop |
| UnitWatchers | WF of `Check` or its failure, WF of `Arrives` | the loop reads its group for ever; the simulator publishes for ever |
| DiagnosticsRuntime | WF of `Tick`, WF of `Wait` | `run()` loops until it is stopped, and sleeps between |
| Sweeps | WF of each process's `Go`, WF of `DayPasses` | the runtime's tick and the cron come round for ever, and so do days |
| WorkerFleet | WF of `Tick`, WF of `ScaleNow` | the autoscaler loops; the command on the other thread returns |
| ConnectorSync | WF of each worker's `Sync` (only for `ChangedIsPulled`, section 7) | beat starts a pass every few minutes |

In `MCOffice` and `Telemetry` the fairness of a stage is that of its module, and holds
while the behaviour is of that stage: weak fairness of a disjunction of which only
one disjunct can ever be enabled is weak fairness of that disjunct (`Goes`,
`GoesToo`, `Hears`; `own` are the variables of the module whose stage it is, the
subscript its fairness has there).

No fairness is assumed of the uploads, taps, proposals, commits, faults, expiries
of a claim or losses; the one expiry that is fair, the flush lock's, is a timer of
Redis. A strong fairness is used once, in `SimRunner`: a loop's `Step` is disabled
while another coroutine holds the event loop, and first in, first out is stronger
than that.

## 5. Proofs

Each proof is of one shape: an inductive invariant that `Init` implies, that every
step keeps, and that implies the property; one step per action, and `PTL` for the
temporal conclusion. In the staged modules the invariant is `stage = "..." => ...Inv`
of the stage's module: `StageSteps` says that a step of the whole is a step of that
module or leaves it alone, and the section of the module does the rest. The
assumptions are those the modules state of their constants (`PipelineAssumption` and
so on) and nothing else, unless the column says so: two theorems have a hypothesis,
both about the pipeline.

| theorem | statement | why the property is not inductive, and what is added |
|---|---|---|
| `DocumentPipelineProofs!TypeCorrect` | `[]TypeOK` | inductive with `TaskFits`: a message's kind fits the place of its worker, or a step could not be typed |
| `LaneMutualExclusion` | `[]SingleFlight`: in the lane are at most one worker and one more for each time the lock ran out under a worker inside | `FewInside`: the key in Redis counts as one worker more, so that who finds no key finds room; with `KeyHeld` and `left \subseteq stranded` this is `LockInv`. No worker, call or ttl is spared |
| `OnlyHoldersTurnAway` | `TurnedAwayByHolder` (a step property) | `KeyHeld`: each key has a worker inside, or was left there by one that was lost or whose command raised; since the DEL of the release has no token, it needs the invariant on every way a key comes and goes |
| `BytesAreKept` | `[]BytesKept`, if no worker is lost | `MessageOnce`: an upload has one message or one worker; `StagedUntilMoved`, `ArchivedAtUnstage`: the staged bytes go only after the raw ones are there; `ClaimsAnchored`: a claim has its bytes archived, or a live first copy that will archive them, and whoever drops a duplicate found such a claim |
| `NothingIsStranded` | `[]NothingStranded` | `StrandInv`: a claim has a message or a worker at a place from which it passes the document on or gives the claim back (`ClaimsBacked`, over `BackingPlaces`), an uploaded content one from which it comes to that or to an alert (`UploadsTraced`, over `RoadPlaces`); who drops a document finds another one on it, by `LockInv` in the lane, by the claim at the gate, or leaves it in `stranded` |
| `PipelineKeepsTheLedger` | `LedgerSpec`, if no worker is lost and no send that raised was carried out (`OnceEach`) | `EnteredInv`: past the gate a document is in one place, a message or one worker's hands (`OnePlace`), with its claim up and nothing of it in the buffer (`InLedger`); a step that changes claims or buffer is then `Accept`, `Deliver` or `GiveBack` of the document in hand, every other one a stutter |
| `GraphWriterProofs!TypeCorrect` | `[]TypeOK` | `Handled`: a flush has a round in hand only while it commits one, of parseable payloads that were pushed; `Numbered`: a version belongs to one flusher and is on the stream only through it |
| `PushesAreAccounted` | `[]PushesAccounted` | inductive given `IInv` of the row above, and a proof of counting: for each payload the pushes are the sum of the buffered, held, written, parked and skipped copies (`Balanced`), cardinalities that a pop of a round, a split and a commit move from one term to another (`Occurs` of a prefix and of the rest); only the steps of `StepsOfTheStream` touch what is announced |
| `OneWriter` | `[]OneWriterPerLock`: at work are at most one flush and one more for each lock that ended under a flush | `FewAtWork`: the key counts as one flush more |
| `VersionsGrow` | `VersionsOnlyGrow` (a step property): a version goes back, or comes on the stream after a newer one, only by a flush that was at work beside another | with `FewAtWork` in `SharingInv`: `BesideShares`, two at work at once have shared the graph, and `NewestUnlessShared`, who shared it with nobody holds the newest version |
| `WorkOrderApprovalProofs!ApprovalGatesDelivery` | `[]OnlyApprovedDelivered`, for any number of processes | `Held`: what a handler has read or a proposer saved is a proposal; `Backed`: a row that says approved, a task's row, a card's window each have an approval on record |
| `SentAreServed` | `[]SentIsTrue`, for any number of processes | `SentServed`: also the rows that handlers and dispatches hold and will write back name only workers with a card, and of a dispatch's crew those it is through with have one |
| `AnswersAreFinal` | `AnswersFinal` (a step property), for any number of processes: a proposal that has an answer, and no handler on its way with the row it read before, is not answered again | `PendingUnanswered`: a row that waits for an answer is of a proposal nobody has answered, so that whoever reads one later starts afresh; what a late writer puts back is a row that was decided or sent, which brings no answered proposal before a human again |
| `FieldProofs!EvidenceIsGenuine` | `[]EvidenceGenuine`, for any number of processes | `Held`: the copies that writers have read, and will write back whole, are genuine too |
| `CardTellsTheTaps` | `[]TellsTheTaps`, for any number of processes | `OneInv`: while the writers at work began one after the other's end (`alone`), one is at work and what it has read is what there is (`UpToDate`), and the card tells all taps but the one it is at work on (`ToldTo(SoFar)`); writers that overlapped leave somebody at work until the card they leave becomes the `base` |
| `InterviewIsSound` | `[]InterviewSound` | `InterviewInv`: whatever a digest has read, all turns before the first of them are noted (`Continued`), so that the cursor may go to its end; whoever writes has set the guard, and only one writes |
| `NothingIsInvented` | `[]DraftsTraced`: what is verified or urgent names no tag the graph never held, and no artifact or card cites an obligation or procedure that it never held | `DraftsInv`: what tools returned, what the trigger brought and what the graph holds now are all within what it has held (`Harvest`), and a draft's references are, from which cards are made when nothing else is left; an answer or a prose that is not checked against the trace breaks it |
| `RequestsKeepTheRate` | `RateKept` (a step property) | the limiter's last time is that of the last request, and not in the future |
| `TelemetryProofs!OnlyTheCapLoses`, `DuplicatesBounded` | `[]LostOnlyToCap`, `[]DuplicatesArePaid` | `TrimmedKnown`, `BatchKnown`: what is trimmed was stored or is in `gone`, and what a batch does not write needs no writing; `WritesPaid`: a second write of a batch needs a failure since the first |
| `CacheIsSound` | `[]CacheSound` | `Condemned`: whom the delta in hand outdates is doomed or came after the sweep looked; `CapInv`: entries exceed the cap by at most the puts under way and the orphans, an orphan (cached, not ranked, in nobody's hands) needing a late ZREM or a crash of its own; both on exact types of what each client has in hand |
| `ReplaysWin` | `[]ReplayWins`, for all windows | nothing moves: it is a fact of the score. What is counted is that onset order is a sequence without repetition of the tags that moved (induction over a finite set, done as a least counterexample), that a sequence shares all its pairs with itself, and that one swapped pair or direction costs a whole term of the weighted sum |
| `RunsAreWaitedOut` | `[]RunsWaitedOut` | `DetectorInv`: a run of anomalies among what is remembered has stood as long as it is; `FleetInv`: the quiet ticks counted are at most those of the lull |
| `AlarmTypeCorrect` | `[](stage = "alarms" => Alarm!TypeOK)`, of plant and watcher together | inductive with the types of what is on the stream and of the channel, whose announcements are of resets that were |
| `NoAlertTwiceRunning` | `NoRepeat` (a step property; `FaultAlarms` has it as its safety half): an alert repeats the level of the alert right before it only after the process was inside for the debounce, a reset was heard, or a restart. It may repeat an earlier one: H, HH and H again are three alerts of one excursion | `AlertIsOpen`: the alert that stands is that of the open alarm; `ClockKept`: the alarm's clock has not run longer than the process has been inside; `FoundAlarm`: what the check found is the alarm there is, or one the listener has dropped since. The deletion of a ripe alarm that was found is then never early |
| `KnowledgeProofs!LanesLandWhole` | `[]LandsWhole` | `LaneInv`: at every place of every lane, which nodes and edges are there already, so that what a later call adds has its ends; the facts a person told freely are the one exception, and come with corrections only |
| `RetrievalIsSound` | `[]RetrievalSound` | `PruneInv`: what is kept does not overlap, nothing that waits is stronger than it, and every candidate waits, is kept, or has one that stands for it; `AskInv`: when an answer is made, every correction known when its question came is among those looked up, if it is of a source that is listed |
| `SyncPassesNothingOver` | `[]NothingPassedOver` | `UnderWay`: once a pass has asked its source, a version that is owed has come (or its twin of the same moment has), is still in the listing, or is later than all of it (`LaterThanListed`), so that the last marker, which the cursor takes, is past nothing else |
| `RecordsAreTraced` | `[]RecordsTraced` | `Hangs` only gets easier the more was merged (`LeadsOn`), so that each query may be taken alone |
| `TextIsCutWhole` | `[]CutSound`, for all texts, manuals and outlines | of prose (`ScanInv`), what is flushed with what is in hand holds each line read so far once (`Holds`), the paragraph in hand ends where the reading is, and a span that grows over blank lines grows by the size of the paragraph alone; of a manual (`TreeInv`), the levels and the sections rise along the stack, and every section there is has one on the stack no earlier and no deeper (`Stacked`), so that what is popped to is the latest that is less deep. A maximum is a minimal interval of a finite set (`GreatestPosition`, by well-foundedness of inclusion) |
| `HumansAreKept` | `HumanKept` (a step property) | none; the corrected are nodes, which the prune query tests when it runs |
| `AgentsRuntimeProofs!InvestigationsSpentOnce`, `NoPatternSkipped`, `OwnAlertsIgnored` | `[]SpentOnce`, `[]NothingSkipped`, `[]NoEcho` | `Position`: where the tick stands on its batch; `PatternsHeld`: the pattern in hand is claimed and unanswered; `Budgets`: the answers to a diagnosis are bounded by the lapses of its claim and one, and by the lapses alone while an investigation of it is under way or the claim is free |
| `LossesHaveACause` | `[]LossesAccounted` | `EntriesHeld`: without a restart or a failure (`Calm`) a claimed entry is explained or being explained, and nothing is being explained elsewhere than at that place of the tick |
| `SimRunnerProofs!StatusIsTrue` | `[]RunningIsTrue` | `CancelledAsleep`: a loop that was told to cancel is at its sleep, so a loop that ticks is one nobody cancelled |
| `StepsAreTheFeeds` | `FeedSteps`: the simulator takes only steps of `PlantFeed`, of the readers, or none (the safety half of `ImplementsFeed`) | `ResetsInv`: the resets done, the requests for one that wait and the loops that may have to recover are together within `MaxResets` (`Committed`, a sum of cardinalities), and overruns in a row reach their limit only with a loop at its recovery, so that whoever resets has room for it; loops and requests are finitely many (`SimAssumption`) |

A theorem without a module is of the module of the row above it. The other
`TypeCorrect` theorems follow from the same invariants. Every inductive invariant was
model-checked too, as an invariant of the run's instance.

What the theorems assume that is worth knowing: names of tags have a strict total
order (`Before`; Python sorts strings) and a window has finitely many of them
(`TelemetryAssumption`), connector ids are unique in a configuration, the texts,
calls and finalizers of an interview are different actors. Of the two hypotheses,
`BytesAreKept` fails without its own (run `pipeline_bytes_lost`), and the ledger's
excludes what hands a document on twice: a redelivered task, and a send that a worker
repeats because its answer was lost. Where the code allows several processes, locks
that end early and calls that raise, the other theorems have them too; what these
cost is in the statement (`stranded`, `outlived`, `shared`, `base`), not in a premise.

Only model-checked:

- every liveness property (`ClaimSettles`, the `BufferDrains` half of
  `WriterAdvances`, `ApprovalFollowedUp`, `StandingBreachRepeated`, `MoveTold`,
  `EverythingRead`, `RunsAsCommanded`, `SamplesLand`, `FaultAlarms`, `StandingBreachTold`,
  `AlarmDiagnosed`, `Fades`, `Settles`): TLAPS has no `ENABLED`, so nothing under
  fairness can be concluded; of `ImplementsFeed` and `FaultAlarms` it leaves the fair
  halves;
- `RecordHolds`, with one process. Its first half, `FirstDecisionStands`, fails with
  two (`approval_flips`); what holds of any number is `AnswersAreFinal`. Its second,
  `SentIsTrue`, is the theorem `SentAreServed`.

Every other invariant and step property that a passing run checks is a theorem, and so
are the safety halves of the temporal ones.

## 6. Plan

Written so far, in this order: the pipeline and its ledger (the heart: loss of a
document), the graph writer, the approval and the job card, the historian's sink,
the agents runtime, the answer cache, the simulator and the TEP watcher with the
feed between them; then the connectors, the diagnostics runtime with its detector,
signatures, the other watchers, the sweeps, the denoiser, the lanes
and the cutting of text, retrieval and its paths, drafts, interviews, the client of
the language model and the fleet. Every module was written to be proved about:
parameters with named assumptions, one action per call, no `RECURSIVE`.

Next:

1. The type invariants of `AnswerCache` and `DiagnosticsRuntime` as theorems of their
   own; the cache's is `CacheTypes` in all but name.
2. The gateway's rate window, if a module is ever made of the gateway's proxies.

## 7. Where the code and what is said of it part

Three have a run of their own (`PROJECT.json`, "findings"). The rest are stated in
the modules as properties that the code does not have, or are excluded by a
premise of the property that is run; each property named here was seen to fail.
What has no property is a consequence of an action, seen while writing it.

- **Pipeline.** A worker lost between claim and move loses the only copy
  (`ingestion/service.py:33`, run `pipeline_bytes_lost`). A worker lost in a lane
  leaves the lock; its redelivered message is dropped as in flight
  (`extraction/tasks.py:53`, `:67`). The Redis commands of a lane are outside any
  `try`: one that raises at the cache, the lock or the second look
  (`extraction/tasks.py:41`, `:54`, `:57`) ends the task with the claim kept and
  nothing under way; so does the DEL of the claim (`:80`, `ingestion/service.py:49`);
  the DEL of the lock in the `finally` (`:87`) leaves the lock without a holder, and
  skips the send of a lane that succeeded. A send the broker refuses after the claim
  leaves the claim (`ingestion/tasks.py:51`). A failing lane gives the claim back
  before the lock, so an eager resubmission can be turned away by a worker that has
  failed already. Each of these is a `stranded` in the model, and
  `ClaimBacked` without it fails. A send that was taken though it raised is repeated,
  by the lane that runs after all (`:45`), so that a document is handed on twice.
- **Graph writer.** A round popped by a lost flusher is gone (`writer.py:41`); a
  commit whose XADD raises is never announced (`writer.py:100`); one outage of the
  store parks good payloads (`writer.py:88`: the comment says only the culprit
  lands there, hence the premise of `OnlyCulpritsParked`); a flush longer than the
  lock's 60 s runs beside another one, and versions can go back (`writer.py:35`), by
  no other flushes than such (`VersionsGrow`).
- **Approval.** Two taps in two processes both decide (`redis_bus.py:309`, run
  `approval_flips`). Two engineers can both propose (`OneLiveRequest`); a row read
  before a minute of LLM calls is written back whole (`PendingOnlyDecided`); an old
  message approves the present slot (`AnsweredAsAsked`); a cached brief outlives
  its schedule (`BriefMatchesWindow`); a pending row may have no message
  (`PendingIsAsked`), a failed dispatch no trace (`FailureOnRecord`); an approved
  order lives only as a task of one process (`slack.py:235`).
- **Job card.** In two processes the whole-record write erases a stamp or moves
  "done" back (`StampsStay`, `DoneSettles`; what one of the two has written stands,
  and `TellsTheTaps` goes on from it); a dispatch anew drops `started_at`
  (`StartStays`, `gateway/dispatch.py:170`).
- **Historian.** The stream's cap trims entries that are still pending: "never a
  lost one" (`sink.py:14`) holds up to the cap (`NeverLost`).
- **Agents runtime.** A pattern is claimed before its alert, an ask's cursor moves
  before its answer, and a restart between the two loses it; an automatic
  investigation that failed gives its claim back, but the cursor has passed it
  (`FailedIsRetried`, `tep_alarm.py:109`).
- **Answer cache.** An answer computed before a commit and put after the sweep for
  it stays (`NeverStale`, `answer_cache.py:72`); a ZREM after a racing put leaves
  an entry the cap no longer sees; speculative answers cite equipment only.
- **Simulator and watcher.** Overlapping commands can leave two loops that tick
  one plant, of which `_sim_task` names one (`runner.py:103`). A reset's
  announcement can overtake unread samples, so that the next fault is silent
  (`NextFaultAlarms`, `tep.py:181`); an excursion to another level and back repeats
  its first alert, whatever the debounce (`NoRepeat` is of neighbours); the listener thread dies with its connection
  (`tep.py:74`); a KeyError at `del self._open[...]` drops the rest of a batch
  (`tep.py:177`); a failing XADD leaves an alarm open that nobody was told of
  (`tep.py:230`).
- **Connectors.** "Pulls files changed since the last sync" (`sharepoint.py`): share
  and mail sources cut what they list to the oldest few before the cursor filters
  it, so that once those are behind the cursor nothing newer is ever listed
  (`ChangedIsPulled`; `sharepoint.py:83`, `outlook.py:39`, `upkeep.py:33`). What a
  drive or share failed to download is logged, and the cursor passes it.
- **Diagnostics.** The detector reads the telemetry stream from `"$"` without
  blocking, which returns nothing, and its cursor stays `"$"` (`service.py:145`, run
  `detector_starves`): no sample is ever scored. An armed episode is lost by a
  restart, and is cleared before it is diagnosed (`service.py:274`; the premise of
  `AlarmDiagnosed`).
- **Standards watch.** "A missed move is caught next scan" (`source.py`,
  `same_revision`): the known revision is stored at the check, and an alert that is
  lost after it is never raised (`MissedMoveCaught`, `watcher.py:77`). A scan that the
  other process overtakes between its GET (`watcher.py:74`) and its SET takes what the
  other wrote for nothing: a first baseline, or a newer revision that an older one
  replaces, and that move is never told (`Overtaken`, the premise of `MoveTold`).
- **Fleet.** Processes that died count as "live replicas" (`celery_workers.py:103`):
  what `Settles` says is of the replicas counted.
- **Lanes and resolver.** "The same pump ... always resolves to equip:P-101A"
  (`resolver.py:3`) fails across lanes: a table's tags are all equipment, those of the
  text may be instruments (`OneEntityPerTag`; `workorder/parser.py:71`, `:100`,
  `text/relations.py:77`). A `FaultMode` has no id prefix and raises
  (`resolver.py:44`). A correction's fact with an end nobody listed is dropped. A
  manual's pages before its first heading are in no section.
- **Denoiser.** A fault between the two queries of a merge leaves records moved with
  no trail back (`MergeCanBeSplit`, `graphd/denoise/graph.py:68`; the module's head
  says a merge can be split again).
- **Retrieval.** An answer that cites only what its context names may still be graded
  unverified (`CitedIsGrounded`, `grounding.py:16`): grounding knows the evidence, the
  context holds more ids. The causes of failure of a corrected document are shown
  without its tag (`service.py:257`). "Each seed's process neighbourhood too"
  (`pathfinder.py:33`) does not survive the pruner, which measures an overlap by the
  shorter path, so that a neighbourhood beyond a kept path is redundant
  (`NeighbourhoodShown`, `pruner.py:48`). An answer from the cache may be older than a
  correction of its sources, until the sweep that follows (`CorrectionTold` is of fresh
  answers; `AnswerCache` has the others). Questions whose embedding failed share the
  zero vector, and overwrite each other in the cache (`service.py:408`).
- **Drafts.** A failure alert is never followed by a draft: `_prose` imports a name
  that does not exist, before the `try` that would fall back
  (`work_order/agent.py:197`; `DraftSurvives`). The `field` run has both, an import
  that fails and one that works, so that what is said of drafts is said of some. The
  "immediate" priority needs a clause, and the investigation has no tool for one.
- **Interviews.** "Exactly once" (`session/service.py:85`, `ExactlyOnce`): a failure
  after the document was submitted sets "failed", and the next end submits
  another one. Turns that come while the document is written are in none; a restart
  while a session is "generating" leaves it there.
- **LLM client.** A stream that is out of credit at every attempt ends as an empty
  answer, without an error (`llm/client.py:216`).

## 8. What is not modelled, and why

- The plants' equations and controllers: floating-point integration; of a plant
  `SimRunner` keeps whether its variable may leave the envelope and whether the
  integration diverged.
- The gateway's proxies, limits, streams and documents: forwarding and fan-out. The
  one shared state is a counter, and all that can go wrong with it is a window that
  never expires (`INCR`, then `EXPIRE`).
- The MCP server, schemas, configuration, reports, reads of the historian, the web UI:
  no state of their own. Tools, evaluation and scripts are run by hand, the
  fault-library campaign (`tools/build_fault_library.py`) among them: one program, one
  thread, which resets the plant before each fault; only the grade of an entry
  (`_severity`) is in `FaultSignatures`. Deployment files give the numbers of processes.
- In the modelled parts: the `LIMIT 100` of the path queries (a path beyond the
  hundredth is no candidate); the packing of a manual's text, which is not prose; the
  training of the detector and the library's queries; the
  classifier's choice of a lane (free); drawing geometry and reading of PDFs; audio
  and WebRTC; providers and token budgets; the copilot routes; live changes of alarm
  limits; more than one draft, engineer or language of an approval
  (`PROJECT.json`, "components", has a note for each).
- What an answer, brief, card or diagnosis says; a model's state keeps what it was
  made from. What a language model returns is any value the code accepts, or a
  failure.
- Redis losing data: streams, keys and the broker's queues are taken to survive.
  Neo4j transactions and TimescaleDB copies are taken to be atomic.
- Time, except for timers that matter: a ttl is an action that may happen at any
  moment the code does not exclude, and debounces, cooldowns and claims are counted.
- Celery's soft time limit, as an exception like any other in a lane.
