# Leitbild: specifications of World and Agents

Leitbild is a simulation and AI-agent sandbox. Three services present one
product: *World* owns simulations, *Agents* owns conversations, and the *Host*
owns Workspaces and asks both to provision and remove their part. This directory
holds TLA+ specifications of the code that decides what survives, who is served
next, what drives simulation time, which Agents runtimes are loaded and when an
Agent takes a turn, the TLC models that check them, and TLAPS proofs of their main
invariants. The modelled code is the concurrent core of World and of Agents, a
small share of the repository: most of it is user interface, domain models, Packs
and tooling.

Source paths below are relative to `src/apps/world/src/core/`, unless they start
with `apps/` or `packages/`. `sr/` is `simulation-runs/`.

## Inventory

### World

| Component | State | Operations | What makes it hard | What makes it correct |
|---|---|---|---|---|
| Keyed operations `storage/keyed-operations.ts` | a map from identity to the last promise chained on it | `run`, `drain`, a release in a later microtask | a release races new calls; `drain` sees tails only | one operation per identity, in call order, and `drain` covers all before it |
| Run commit pipeline `sr/runtime.ts`, `sr/event-log.ts`, `sr/snapshot-store.ts` | publish queue, admission state and committed state, sequence, snapshot save chain and its timer, failure and quarantine, pending emissions; `events.jsonl`, `snapshot.json`, `snapshot.json.failed` | commands, Pack emissions, appends, saves, observers, `close`, reload | four awaits between numbering and answering; failed or torn writes; crashes; a close that fails half way | what was answered survives; nothing is shown that is not durable; a Run comes back whole or not at all |
| Command idempotency `sr/command-idempotency.ts` | entries by key with a fingerprint and a promise or a result | keyed and unkeyed issue, join, replay, expiry, eviction | retries at any time relative to completion, expiry and eviction | a key executes once in its lifetime and an answer is the asker's own |
| Run execution and lifecycle `sr/registry.ts`, `sr/execution-store.ts`, `sr/execution.ts` | loaded runtimes, leases, idle timers, `executionStates`, `maximumPaceJobs`, `awaitingFirstScreen`; `execution.json` | set, advance, first screen, status, idle close, reset, delete, create, copy, background, shutdown | two serialisers that nest, a job that outlives its call, status reads in neither, failed saves, crashes | one driver of time, no job without its runtime, no lease without its job, every call ends |
| Timeline runner and cues `sr/timeline-runner.ts` | the next cue and its timer | start, close, fire | cues race a fast-forward | a cue fires once |
| Waits `sr/run-wait.ts` | watchers of a Run | wait, time out, close | a condition that becomes true between read and watch | a wait ends |
| Role gates, audiences, side views `sr/role-gates.ts`, `sr/event-audience.ts`, `sr/side-view.ts` | none | filters | | a side sees its own |
| State store, manifests, Pack state files | one file or one map each | apply, load, save | | |
| Workspace runtimes `workspaces/runtime-registry.ts`, `workspaces/module-state.ts` | loaded Workspaces in order of last use, an operation scope for each | load, evict, close, remove, shutdown | eviction takes a second line inside the first; the limit is read across an await | work is never cut off by eviction; a removed Workspace does not come back |
| API `api/` | leases and screens of open connections | HTTP routes, realtime channel | | |
| Scenarios, Guides, observation, spatial index, map symbols | derived data | compile, render | | |
| Packs, `apps/world/native` | numerical models | advance, checkpoint | external to the pipeline | |

### Module runtime, Host, Agents

| Component | State | Hard behaviours | Correct when |
|---|---|---|---|
| Operation scope `packages/module-runtime/src/operation-scope.ts` | accepted work | close while work is accepted | nothing starts after close, close waits for the rest |
| Definition store `packages/module-runtime/src/revision-store.ts` | catalog, revisions, deletions, a mutation queue | crash between two files; seeding over edits | an update is lost to nobody; a deleted Definition stays deleted |
| Storage budget `packages/module-runtime/src/storage-budget.ts` | a cached inventory, reservations | admission on an inventory shared with an older caller | growth admitted together stays below the limit |
| Host `apps/leitbild/src/host.ts`, `store.ts`, `module-gateway.ts` | Workspaces with a state per Module | create, retry and delete are not serialised; a crash between calls | no Workspace is stuck, no Module keeps one the Host forgot |
| Workspace runtimes of Agents `apps/agents/src/core/workspaces/runtime-registry.ts`, `module-state.ts`, `apps/agents/src/api/server.ts`, `bootstrap.ts` | the map of runtimes, loads in flight, the line for a place in the map, removals, an operation scope per Workspace; a marker and snapshots on disk | loads build side by side; evictions await a turn and a save that may fail; requests, sockets, turns, the sweep, removals and shutdown at any time | never two runtimes of one Workspace, never more than the limit, no runtime drained under its work, no change lost, nobody waits for what is over |
| Turns of an Agent `apps/agents/src/agents/concurrency.ts`, `ai-agent.ts` | the Room at work, pending Rooms, cooldown timers, epoch, incoming questions, requested turns | cancellation while a model answers; triggers that hold questions aside; requests that wait behind questions; close with cooldowns | one turn at a time, a late run does nothing, every question and request has its turn, whoever waits for idle is told |
| Triggers `apps/agents/src/core/triggers` | last firing per trigger | overrun, a target that is gone | a trigger fires at most once per interval |
| Proposal and procedure resumes, rooms, scripts, summaries, executions, people, storage | conversations and their files | resume after restart | a decision is delivered once |
| Providers, embeddings, tools, wikis, UI, contracts, parsers, deployment | | external I/O, formatting | |

### How the parts of World meet

A route takes a lease on a Run and calls the registry. `lifecycle` (keyed
operations) loads, closes, resets and deletes a Run; `executionOperations`
(another instance) changes its playback and pace; a delete takes both, in that
order. A runtime's operations pass `enqueueOperation`, its commits pass
`publishQueue`, its snapshots pass `snapshotSaveQueue`. A fast-forward is a job
started by one call; later calls tell its controller where to go and wait for its
`done`. Commands reach the pipeline through command idempotency. Packs emit
events by callback at any time until a close unsubscribes them.

### How the parts of Agents meet

A request, admitted by the operation scope of its Workspace, asks the registry for
the runtime and works on it; a WebSocket asks without the scope. A request may
start a turn of an Agent, which outlives it: the registry does not evict a
Workspace whose Agents have a turn, and an eviction that began waits for
`whenIdle` of every Agent, up to a limit after which it cancels their generation.
Operations that a turn performs enter the scope again, but never load. A removal
closes the Agents and the scope, waits for the admitted work and evicts; shutdown
does so for all Workspaces, then the process exits.

## Modules

| Module | Role | Models |
|---|---|---|
| `KeyedQueue` | abstract | one first-come-first-served line per identity |
| `KeyedOperations` | detailed | `run`, `drain`, the chain of promises and its releases |
| `KeyedOperationsProofs` | proofs | mutual exclusion, drain, refinement of `KeyedQueue` |
| `DurableLog` | abstract | an append-only log, shown whole, resumed whole or not at all |
| `RunCommit` | detailed | the commit pipeline with failures, close, crashes and reloads |
| `RunCommitInvariant` | invariant | the inductive invariant, by concern |
| `RunCommitProofs` | proofs | the safety properties of `RunCommit`, refinement of `DurableLog` |
| `CommandIdempotency` | detailed | keyed retries, expiry, eviction |
| `CommandIdempotencyProofs` | proofs | all properties of `CommandIdempotency` |
| `RunExecution` | detailed | playback, pace and lifecycle of one Run |
| `RunExecutionProofs` | proofs | the driver of time, changes beside a fast-forward, its lease, the runtime it holds |
| `AgentsRuntimes` | detailed | loads, capacity, eviction, removal, shutdown and restart of the Agents Workspaces, with the operation scope |
| `AgentsRuntimesProofs` | proofs | all properties of `AgentsRuntimes` but the one that fails |
| `AgentTurns` | detailed | turns, cooldowns, requested turns, triggers, cancellation and close of one Agent |
| `AgentTurnsProofs` | proofs | the safety properties of `AgentTurns` |
| `MCCommandIdempotency`, `MCRunExecution`, `MCAgentsRuntimes`, `MCAgentTurns` | TLC | symmetry, and who may ask for what |

A step of every detailed module is the code between two awaits. Operators whose
comment starts with *Mutant* are wrong variants of the operator that follows
them: each property of a passing run is known to fail when the variant
listed with it in `PROJECT.json` takes the operator's place.

**KeyedOperations.** `pending` is the map, `status` and `previous` are the
promises: a call waits for the unsettled promise it was chained on. `Settle`
stands for the operation's end in success or failure, since the next link catches
the error. `Release` is the separate reaction that removes the map entry, but only
its own. `line` and `earlier` are history variables, for the refinement and for
the drain.

**RunCommit.** Events are their sequence numbers. Of a batch the module keeps its
last number and which numbers are durable; of a state or a snapshot the last
sequence and the durable events it reflects. `publishing` is the publish queue,
with `pc` for where each publisher is; `Begin`, `Commit`, `Observe` are the three
awaits of `publishManyNow`, each with its failure. `saving` is the snapshot chain;
a save captures the committed state when it begins, not when it is asked for.
`FailCommit` is the first failure: it stops the Run and starts the quarantine,
which every failing caller waits for. `phase` walks through the awaits of `close`.
`Crash` keeps the disk, with any part of the append in flight and the atomic
writes in flight done or not; `Load` and `LoadRefused` are the checks of
`createRuntime`. Neither waits for what a closed runtime has left: a close after a
failure skips the drain, so an append may still be in flight when the next load
begins. Such appends are kept in `late`, and land (`LateAppend`), whole or in part, under
whatever runtime is there by then; `overtaken` is the history of a load that was
accepted over one, `unproven` that of a quarantine marker whose write failed ("restart
safety is unproven", `sr/runtime.ts:320`). `damaged` is a journal that cannot be read
back, because of a partial line or a line out of order, and `checked` is the number the
event log remembers: its first append reads the last line of the file, later ones trust
that number. A command publishes twice (issued, result), an emission once;
`DispatchThrows` is a Pack that throws on a command between the two, and
`ObserveAgain` is a slot that publishes more than one batch.

**CommandIdempotency.** `entries` is the store, `promise` the issue each entry
waits for. The part before the first await is one step (`AskUnkeyed`, `AskNew`,
`AskAgain`), the settlement of an issue another, and each waiter's reaction its
own, so a late completion can meet an entry of a younger issue.

**RunExecution.** Each caller has a place `pc` in the routine it runs; `executing`
and `lifecycle` are whose turn it is in the two lines (`KeyedOperations` shows
that a line may be taken as a turn). `entry` is what `executionStates` holds,
`stored` is `execution.json`, `job` the controller with the phase of
`runMaximumPace` and what follows it, `lease` its lease. Status reads are outside
both lines, and wait for `execution.json` between reading the clock and writing
`entry`. `createRuntime` puts the runtime in its place before it reads
`execution.json`: when that read throws, the call throws and the Run is in use, not
fail-stopped, whatever the file says (`LoadFails`, `Create`). Time is counted in slices; `clock` is the runtime's, or the snapshot's
while nothing is loaded.

**AgentsRuntimes.** `entry` is the registry's map, with how far an eviction has come
(`draining` waits for the Agents, `flushing` for the save, `save-failed` is the
quiesced runtime that stays); `load` is `pendingLoads` with the phases of
`buildWorkspaceRuntime` and `installLoadedEntry`; `capacity` is the line of
`capacityMutation`; `scope` and the callers that are not sockets are the operation
scope. `GetOrLoad` is the whole of `getOrLoad` up to its await: a caller is refused,
gets the runtime, waits for an eviction or for a load. A promise that settles
moves all who await it in one step (`LoadEnds`, `EvictionEnds`), because reactions to
a promise run before the next input or output completes. A snapshot's content is the
number of changes it holds, so that an old copy that is loaded, or a change after the
flush, shows; `made` is the history it is compared with. Which idle runtime is the
least recently used, and how long one has been idle, is left open. `turn` stands for
all that `AgentTurns` models of the Agents of a Workspace: an eviction waits for it
or cancels it (`Drained`).

**AgentTurns.** A run is a record with its epoch, so that the runs of a cancelled
generation are still there, and may only unwind (`Unwinds`). `Follow` is the hand-over
at the end of a turn, `TryEvaluate` the start from outside: both decide whether a
requested turn is taken. `incoming` holds the questions, each run what it has read
and each trigger what it holds aside. `status` is a history of the questions; a
question that is answered a second time shows as `repeated`. A turn that throws
(`TurnThrows`) reports what it has read as failed and leaves it incoming; one whose
reply cannot be posted (`DecisionThrows`) has flushed it.

## What the runs check

| Run | States | Question |
|---|---|---|
| `keyed_operations` | all of 4 calls, 2 identities, 1 drainer | mutual exclusion, drain, refinement of the queue, no call left behind |
| `run_commit` | 4,474,833 | what is on disk, in memory and answered, under failures, a crash and appends left by closed runtimes; refinement of `DurableLog` |
| `run_commit_live` | 384,718 | every queued publish settles, every close ends |
| `run_commit_late_append` | violation | `runtime.ts:229`: nothing commits after close (finding 1) |
| `command_idempotency` | 396,596 | a key executes once, answers are the asker's own, the store is bounded, failures free the key |
| `run_execution` | 3,830,393 | one driver of time, no job without its runtime, no lease without its job |
| `run_execution_live` | 273,904 | no change beside a fast-forward, advances stop at the target, every call ends |
| `run_execution_reset` | violation | `workspace-module-api.ts:1362`: a delete stops maximum-pace work (finding 2) |
| `run_execution_set_lost` | violation | `workspace-module-api.ts:1282`: a set takes effect (finding 3) |
| `agents_runtimes` | 880,473 | the limit, one runtime per Workspace, work undisturbed, no change lost, nothing behind a removal or a shutdown, waits that end |
| `agents_runtimes_exit` | violation | `runtime-registry.ts:651`: shutdown flushes every active Workspace (finding 4) |
| `agent_turns` | 804,314 | one turn at a time, no question or request forgotten, none answered twice; everything settles |

### Bounds, and why they suffice

- `keyed_operations`: a call can be chained behind one that is settled and not
  released, with another call on the same identity before and after it and one on
  another identity; that takes four. Statuses return to `idle`, so there is no
  bound on the length of a run, and the theorems cover every size.
- `run_commit`: one command and one emission hold the queue, the save chain and the
  wait queue at once; a command's two batches and one emission's reach `MaxSeq = 3`,
  and `MaxBatch = 2` makes a batch with a durable and a projected event or a partly
  written one. Fail, close and load again are free, so runtimes follow one another
  without a crash, and `MaxLate = 1` lets each but one leave an append; one crash comes
  before, between or after them. The theorems cover every size.
- `run_commit_live`: one command, one emission, one crash: every kind of wait
  occurs, and symmetry is not used in a liveness run.
- `command_idempotency`: three requests, two keys, two bodies, room for one entry
  and a time to live of 2 in 3 ticks: an entry is evicted, expires, and is met by a
  late completion, each while in flight.
- `run_execution`: one caller changes the execution and deletes; one reads the
  status, closes and resets. The execution line admits one change at a time, so a
  second changer adds only waiting, which the live run has. `Step = 1` and
  `MaxTime = 1` give each clock a step to make; wishes are what the product's
  controls send.
- `run_execution_live`: both callers change the execution, with joins, closes,
  deletes and a crash; `Step = 2` with `Minutes = {1}` makes the last slice longer
  than the rest of the advance. Roles are declared, so that a first screen may start
  the Run. Resets and status reads are left to the safety run: resets because of
  finding 2, and reads to keep the graph of a liveness run small. `ChangesAlone` and
  `CompletedAtTarget` are proved with both.
- `agents_runtimes`: two Workspaces share one place, so that a load makes the other
  one go, and a Workspace can be evicted, loaded and asked for at once; three callers
  are one at work, one that waits and one that comes. Two changes per Workspace
  tell a stale copy from a fresh one, also after a flush that succeeded in between. The theorems cover every size.
- `agent_turns`: two Rooms and three questions, two of them in one Room: a Room can
  be asked while its own turn runs, while another's does and in its cooldown. One
  requested turn, one trigger or forced evaluation, one throw and one cancellation,
  each at any time; a second cooldown timer of a Room can start before the first one
  fires. After the cancellation the Agent can be asked again.
- The violations of Runs use one caller, to show that no second one is needed; the
  one of Agents has two Workspaces, since one must fail while another is unsaved.

### Fairness

- `KeyedOperations`: weak fairness of the reactions to promises, which the runtime
  always runs, and of the operations' ends, which is an assumption about what is
  serialised.
- `RunCommit`: weak fairness of every step that follows an await already begun
  (file operations settle; Pack calls return or throw), of timers and of the
  close. Requests, crashes, reloads and the start of a close have none. Progress
  while draining emissions is not claimed for Packs that emit without end.
- `RunExecution`: weak fairness of the job; strong fairness of each caller, because
  a caller in a first-come-first-served line gets its turn if the line comes free
  again and again. `KeyedOperations!EveryCallFinishes` is the property that
  justifies it. The job's spontaneous failure is not fair, except where nothing
  else can happen.
- `AgentTurns`: weak fairness of the current run (its preparation and its call of the
  model end or throw, by the timeouts of the providers) and of the cooldown timers.
  Nobody has to ask, cancel or close, and the runs of an old epoch need never unwind:
  nothing waits for them.
- `AgentsRuntimes` states no fairness. That nobody waits for ever is stated as the
  invariant that every wait is for a load or an eviction under way
  (`WaitsAreFounded`), and that the line for a place is headed by a load that can go
  on; each such step ends by a timer, a file operation or `AgentTurns!EverythingSettles`.

## What is proved

`tlapm` checks every proof from the module text alone. Assumptions on constants
are the named `ASSUME`s of the modules (calls and publishers are not the
distinguished values; bounds are naturals). One theorem about `RunExecution` has a
hypothesis on who calls what, which is told there; nothing else is assumed.

**KeyedOperations** (`KeyedOperationsProofs`), for any identities, calls and
drainers: type correctness, `MutualExclusion`, `DrainCoversEarlierCalls` and the refinement of
`KeyedQueue`. None is inductive alone. The invariant `IndInv` adds: each line holds
each unfinished call of its identity once (`LineInv`); a call's `previous` is the
call in front of it in the line, the head has none, and a nonempty line's last call
is the map entry (`ChainInv`); what a drainer waits for are calls behind all
that were unfinished when it asked (`DrainInv`). A running call then has no
predecessor, so it is the head, and a line has one head. The refinement maps
`Run`, `Start` and `Settle` to `Ask`, `Serve` and `Leave`; `Release` and `Drain`
change nothing there.

**RunCommit** (`RunCommitProofs`), for any publishers and bounds: type
correctness, all six safety invariants, `SnapshotOnlyAdvances`, and the
refinement of `DurableLog`. `IInv` has one part per concern: only the head of a
queue is at work (`QueueInv`, `SaveInv`); snapshot, save in flight and committed
state each reflect the journal up to their sequence and cover one another in that
order (`DataInv`); while nothing failed the committed state has the whole
journal, and a loaded Run has a snapshot (`DoubtInv`); what a request has written
is in the snapshot but for the batch being saved (`AckInv`); each phase of close
leaves less in flight (`CloseInv`). Each part is shown to be kept by each
action, with the parts it needs as hypotheses, and the properties follow from the
parts. `NoSequenceRegression`, for instance, needs `DataInv`: the batch at the
append lies above the committed sequence, and the journal is within it.

`LateInv` is about appends left in flight. A closed runtime leaves one only after a
failure; its close has waited for the quarantine, so the marker is on disk and the next
load is refused, unless the marker could not be written: `OvertakenOnlyUnproven`. Until a
load overtakes an append there is at most one, above everything in the journal and in
the snapshot. From then on its lines may land among those of the next runtime, and what
`JournalFullyApplied` and `NoSequenceRegression` say, and that the journal can be
loaded again, is lost; they are stated with `~overtaken`, and so is the strict part of
`DurableLog`. The others hold without it: `NothingAheadOfJournal`, `AcknowledgedSurvives`,
`SnapshotOnlyAdvances`, the rest of `CleanCloseIsComplete`, and what `DurableLog` keeps
(`Keep`): no event leaves the log, and nothing is shown or answered that it does not hold.

**CommandIdempotency** (`CommandIdempotencyProofs`), for any requests, keys, bodies,
time to live and size: type correctness and all four properties. The heart of the
invariant is that an issue that is not over has its entry: as long as its request
has not thrown, its time has not passed and issues of as many other keys as there is
room for have not followed it, the entry of its key is its own. A second issue of
a key therefore finds the entry and joins or replays it. The other parts say that
an entry is of an issue of its own key and body and tells whether it is in flight
(`EntryInv`), that issues are in the order of the clock (`TimeInv`), and that whoever
is answered was answered by an issue of its own key and body (`AnswerInv`). That the cap
removes the oldest entries, and no more than are too many, is counted with the
library's theorems about finite sets.

**AgentsRuntimes** (`AgentsRuntimesProofs`), for any Workspaces, callers, capacity and
changes: type correctness, `WithinCapacity`, `OneRuntime`, `WorkKeepsRuntime`,
`NoChangeLost`, `NothingLeftBehind` and `WaitsAreFounded`. `IInv` has a part per
concern. A load is there only while no runtime is, and holds what is on disk
(`LoadInv`); the line for a place holds each waiting load once, and only its head is
being installed (`LineInv`); while it is, the map has room for it once its victims are
gone (`RoomInv`, the strengthening of `WithinCapacity`: a place can be given up but
not taken, since only the head of the line takes one); whatever is waited for is under
way (`WaitInv`); a working caller has the active runtime and a turn is over before
the flush (`WorkInv`); a loaded copy holds all that was made, and else the disk does
(`DataInv`); a removal that has come to the marker has no runtime and no load, a
shutdown that evicts has no load and no admitted work (`CloseInv`). `NoChangeLost`
needs `LoadInv`, since what is installed must be what is on disk now, and `WorkInv`,
since a change made after the flush would be lost.

**AgentTurns** (`AgentTurnsProofs`), for any Rooms, questions and bounds: type
correctness, `OneTurn`, `NothingForgotten` and `AnsweredOnce`. A question lies in one
place, among the incoming ones or with one trigger (`PlaceInv`), and what lies there
nobody has answered (`StatusInv`), so that an answer is the first; what the run of this
epoch has read is still incoming (`ReadInv`), since only a run of a cancelled epoch can
have what it read taken from it, and a turn that throws can report no question as failed
but those. The Room shown and the one run of this epoch come
and go together (`CurrentInv`), and an open question is incoming or with the trigger
that runs (`OpenInv`), which is what lets a turn's end see every question that still
needs a turn. `Without`, which takes questions out of the middle of a queue, counts
ranks instead of filtering by recursion, so that its lemma (the result is a queue of
what is left, in Seq and in range) can be proved.

**RunExecution** (`RunExecutionProofs`), for any callers, wishes, steps and bounds: type
correctness, `OneTimeDriver`, `ChangesAlone`, `LeaseIsJob`, `CompletedAtTarget` and, with a hypothesis,
`JobHoldsRun`. The execution line (`executing`) and the lifecycle line do not exclude each
other, so the argument has two halves. Within the execution line, a call that changes
something has the turn (`TurnInv`, by `PlaceInv`: which call can be where) and finds no
job but the one it registers itself (`JobInv`); hence jobs, leases and the clock have one
hand on them, and a job's clock stands still, no further than its target (`DriverInv`).
Between the lines there are only the leases, which a close looks at before the runtime
goes: while it does, no change is being made, and there is no job (`CloseInv`). A reset
does not look at the realtime lease of a screen that joins, so `CloseInv` is about Runs
without roles, or on which joins and resets do not meet (`Apart`); the other parts need
no hypothesis, `Core` being their conjunction with `Apart => CloseInv`. The hypothesis is
needed. Where the proof of `Recheck` failed without it, TLC found the behaviour: a reset
removes the runtime while an advance waits for its turn, a read of the overview remembers
the old acceleration, the screen that joins meets the advance's end and pauses the clock
to resume that acceleration, and a second reset closes the runtime before it does; the
fast-forward is then registered on a closed runtime. It takes a set, an advance, an
overview, a join and two resets; no run has them all.

**Only model-checked**: every liveness property (`EveryCallFinishes`, `PublishersSettle`,
`CloseEnds`, `CallsEnd`, `EverythingSettles`), since temporal proofs under fairness are
out of the prover's reach, and the four properties that fail. Every invariant and every
other action property that a run checks has its theorem.

## Findings

1. *A close that fails lets an append finish in a closed Run.* When stopping the
   Packs' clock fails, `close` skips the drain of the emissions, and a commit
   already past its check is written after `closed` is set. The quarantine
   refuses the Run at its next load, so it is what the comment at `runtime.ts:229`
   promises that breaks. If the marker could not be written either, the Run is loaded
   over the append, whose lines may then follow later numbers (*What is proved*).
2. *A reset leaves the remembered acceleration behind.* Fast-forward, pause,
   reset, fast-forward: the resumed acceleration would have started in the future,
   its schema throws after lease and controller are in place, and from then on
   set, advance and delete wait for a `done` that nobody resolves. By the same
   omission a reset Run that awaits its first screen may start at maximum pace,
   against `workspace-module-api.ts:1090`.
3. *A set that meets a completing fast-forward is lost.* It is answered with
   success and the job's own destination.
4. *One failed save at shutdown costs the others theirs.* `shutdown` of the Agents
   registry awaits all evictions together; the first that fails ends the wait,
   `bootstrap.ts` logs it and exits, while other Workspaces still drain their Agents
   or write. `runtime-registry.ts:651` promises a final flush of every active
   Workspace.

## Limits of the models

- In `RunExecution` an operation of the runtime succeeds or throws; what a failed
  commit does to the Run, its quarantine included, is `RunCommit`'s. A refused
  load is any failure of a load.
- Nothing is stated of what the process remembers of an execution, because the code
  does not keep it true, and the model shows how. A status read, or an overview of a Run
  that is not loaded, writes back what it saw before a start failed or a delete failed
  half way: a running acceleration that nobody runs, or the state of a Run that is gone.
  A load whose read of `execution.json` throws leaves a failed Run in use. A change after
  a reset may save the failure of the old Run over the new one, which runs. These are in
  the list of hazards; no text of the repository says what a read may remember or what a
  failed Run is after such a load.
- In `RunCommit` an append left in flight by a closed runtime either completes, whole or
  in part, at some later time, or ends with the process. At most `MaxLate` are in flight
  in the runs.
- `CallsEnd` excepts Runs in the state of finding 2, and resets are left out of
  the live run for that reason.
- A screen that joins holds a realtime lease, which a reset does not look at: a
  join's start may race a reset, and `JobHoldsRun` then fails (*What is proved*). Roles
  and resets are not in one run.
- Not modelled in the modelled components: a fast-forward the Packs do not
  support, background leases, shutdown, create and copy of Runs; the reset
  boundary event and the timeline in `RunCommit`. What a hazard without a property
  is waiting for is in its note.
- In `AgentsRuntimes` a runtime whose save failed keeps its place until a WebSocket, a
  removal or a shutdown tries again: the retry inside `getOrLoad` counts the request
  that asks as active and refuses itself. No text says who is to retry, so this is in
  the list of hazards and not among the findings. The People directories and the
  Definition libraries that the registry keeps beside the runtimes are left out, as is
  its reverse index of Agents. A close that fails after its autosaver was disposed is
  retried in vain, since `flush` then throws every time; in the model such a retry fails
  or succeeds, which has the behaviours of the code among others. Which runtime is evicted is any idle one: a property of
  the choice (least recently used) could not be stated.
- In `AgentTurns` a turn that throws with a requested turn behind its question is
  followed by the same again, for as long as it throws; `MaxThrows` bounds that, and it
  is in the list of hazards. What a model says, whether a script directs the Room and
  what a context holds beyond the questions is left open; check-ins and history edits
  end and start no turn.
- The settlement of a promise moves all who await it in one step. `KeyedOperations`
  and `RunCommit` have the reactions one by one, where their order matters.
- Filters, parsers, compilers, numerical Packs, user interfaces and external
  services are left out: they keep no state that these properties are about, or none
  within reach of TLC.

## Not modelled, and why

- *World: Workspace runtimes.* The same purpose as the Agents registry with other locks:
  a line per Workspace, in which another Workspace's line is taken to make room. Next
  in the plan.
- *Revisioned Definition store, storage budget, Host.* Compare-and-set on files with
  crash windows; a shared inventory; provisioning across services with lost answers.
  Each is within reach, and in the plan; their hazards are listed.
- *Resumes, rooms, scripts, summaries, executions and presence of Agents; timeline
  cues, waits and Guides of World.* Small protocols around the modelled ones.
- *Model providers, embeddings, tools, wikis, HTTP and realtime parsing.* External I/O
  and formatting. They appear as steps that end or fail.
- *Scenario compiler, observation, spatial index, map symbols, role gates, procedure
  parser, contracts.* Functions of their input, without state.
- *Packs, the native plant, user interfaces, build and deployment.* Numerical models and
  presentation; to the core they are sources of events, answers and failures.

## Plan

1. Done: `KeyedOperations`, `RunCommit`, `CommandIdempotency`, `AgentsRuntimes`,
   `RunExecution` and `AgentTurns`, with their proofs.
2. An abstract specification of the execution of a Run (one owner of its clock), and of
   the answers of an Agent, implemented by `RunExecution` and `AgentTurns`.
3. `WorkspaceRuntimes` (World) over keyed operations and the operation scope: no work
   cut off, no deadlock of two evictions, the limit kept.
4. `WorkspaceHost`: provisioning across Modules with lost answers and restarts.
5. `RevisionStore` and `StorageBudget`: compare-and-set with crash windows, against
   an abstract catalog; admissions against an inventory shared with older ones.
6. Resumes and scripts over `AgentTurns`; `AgentTurns` inside `AgentsRuntimes`, where
   `turn` is now one bit.
7. `RunCommit`: reset and copy, so that a partly failed reset meets the recovery
   checks.

## Running

    tlc -workers 2 -config RunCommit.cfg RunCommit.tla
    tlapm RunCommitProofs.tla

Each run's module, configuration and properties are in `PROJECT.json`.
