# A TLA+ model of the Weave control plane

WeaveCodex puts a local control plane (`src/weave-control-plane/`, Python with a
small JavaScript page) in front of an unmodified Codex app-server
(`src/codex-rs/app-server/`), which it drives through the Python SDK
(`src/sdk/python/`). This directory models the part in which several threads
and two processes share one run, the parts beside it that keep, order or lose
things, and below it the two pieces of Codex core every run rests on, the turns
of a session and the file its history is written to: TLA+ modules, TLC
configurations, and TLAPS proofs.

## 1. Inventory

| Component | State | Operations | Hard behaviour |
|---|---|---|---|
| Run session (`runtime.py`, `RunSession`) | status, one pending request, posted decision, interrupt callback, stop flag | `request_approval`, `request_checkpoint`, `decide`, `bind_interrupt`, `request_stop` | runner, SDK reader and HTTP handlers share it; waiting releases the lock |
| Runner (`HarnessRunner.run`, `execute_phase_program`) | current phase, repairs, turns, executions, completion status, pending feedback | set up, checkpoint, work, command, verify, finish, fail | an exception or a stop between any two steps; receipt filled in several places |
| SDK gateway and client (`SdkGateway`, `CodexClient`, `MessageRouter`) | active turn, interrupt flag, waiters, turn queues | `run_turn`, `interrupt`, request/response, reader loop, `fail_all` | approvals block the reader; registration races the reader; end of stream |
| App-server turns (`turn_processor.rs`, `bespoke_event_handling.rs`, `thread_state.rs`) | active turn, pending interrupts, approvals waited for | `turn/start`, `turn/interrupt`, approval request and answer, `turn/completed` | a turn may complete while it is being interrupted; tool calls side by side and sub-agents ask on one connection |
| App-server request scheduling (`request_serialization.rs`, `connection_rpc_gate.rs`) | queue and drain task per key, gate per connection | `enqueue`, `drain`, `run`, `close`, `shutdown` | lost wake-ups, overtaking, handlers of closed connections, panics |
| Run records (`server.py`, `ControlPlane`) | sessions, `<run id>.json`, `.trash` | `create_run`, GET, DELETE, restart | deletions race the writer; write after announcement; restart |
| Phase programs (`phase_program.py`, `canvas-model.js`) | none | `validate_program`, `ordered_phases`, `compile_phase_program`; `clientTopologicalOrder`, `graphProblem`, `wouldCreateCycle`, `layoutRunGraph` | acceptance and order of a graph, written twice |
| Workflow store (`workflow_store.py`) | one file per workflow, `.trash` | `save`, `list`, `get`, `delete` | parent looked up outside the lock; crash |
| Authentication (`auth_service.py`, `account_processor.rs`) | client, current attempt, login queues, active login | `start_chatgpt_login`, `login_status`, `_wait_for_login`; login task; polling by the page | a newer login replaces one that is waited for; completions before registration; the process dies |
| Turns of a session (`codex-rs/core`: `tasks/mod.rs`, `turn_input.rs`, `input_queue.rs`) | the slot for the active turn, pending input of turns, mailbox | submissions, steering, mail, `start_task`, `on_task_finished`, `abort_all_tasks`, `abort_turn_if_active`, wake-ups | loop, tasks and guardian take the slot's lock several times each |
| Rollout recorder (`codex-rs/rollout`) | command channel, pending items, file, ordinals | record, persist, flush, shutdown, resume, append | partial writes and their retry, crash, resumption |
| Canvas (`home.js`) | program under design, selection, arrow tool, dragged arrow, requests under way | select, connect, add, duplicate, delete, load, adapt, save | ids reused after deletion; answers that replace the program being edited |
| Page of a run (`home.js`) | polled run | poll, decide, stop | late answers meet a newer run |
| Manifests, uploads, adaptation, trace projection, artifact preview | none | validation and formatting | none that outlives a call |

The threads of one run and what they share:

```
HTTP handlers --decide/request_stop--> RunSession <--checkpoint-- runner thread
      |                                    ^                          |
      | interrupt()                        | approval                 | run_turn
      v                                    |                          v
   SdkGateway -------- turn/interrupt --> [ stdin ]   app-server  <-- turn/start
                                           reader <-- [ stdout ] --
```

Everything the app-server says arrives in one stream, read by one thread, which
also waits for a person when the message is an approval request.

What makes the components correct: a turn leaves no approval behind for the
checkpoint that follows it; behind every panel a person is shown a thread waits
for the answer; what a polling client sees is a sensible lifecycle; a run ends; a stop is neither lost nor aimed at another turn; the
receipt tells what was executed; requests of one key take effect in order;
a closed connection becomes quiet; a deleted run stays deleted; a saved
workflow is whole, unchanging and rightly descended; a session runs one turn at
a time, each ends once, and what was sent to it is not lost; what a flush
confirmed is found again; an attempt to sign in settles with its own outcome; the steps shown are the
steps run; editing keeps a program executable. Section 5 says
which of these hold, and for which the code does something else.

## 2. Modules

| Module | Models |
|---|---|
| `RunSession` | the session; one operator per critical section under `_condition` |
| `AppServerTurn` | the app-server's side of the connection: one turn, its approvals and those of other threads, parked interrupts, the ordered stream `wire` |
| `SdkGateway` | EXTENDS `AppServerTurn`: requests, reader, turn queue, `_active_turn`, `_interrupt_requested` |
| `HarnessRun` | EXTENDS `RunSession` and `SdkGateway`: the runner over them, HTTP handlers, `Next`, all properties of a run |
| `RunLifecycle` | abstract specification: what `GET /api/runs/<id>` may show over time |
| `HarnessRunProofs` | theorems about `HarnessRun` |
| `RequestSerialization`, `RequestSerializationProofs` | queues, drain tasks, gates, cleanup; theorems |
| `RunStore`, `RunStoreProofs` | session map, receipt file, trash, restarts; theorems |
| `WorkflowStore`, `WorkflowStoreProofs` | the library of saved workflows: saves step by step, deletions, failing writes, power loss; theorems |
| `TurnTasks`, `TurnTasksProofs` | the turns of one Codex session: submission loop, tasks, guardian, mail; theorems |
| `RolloutRecorder`, `RolloutRecorderProofs` | the writer of a rollout file, its faults, crashes and resumption; theorems |
| `RolloutLog` | abstract specification: an append-only log with confirmations and losses |
| `AuthLogin`, `AuthLoginProofs` | page, `NativeAuthService`, the router's login queues and the app-server's login tasks; theorems |
| `PhaseOrder` | what server and page compute from a phase program; operators only |
| `PhaseProgram` | EXTENDS `PhaseOrder`: one program, reference definitions, what must be true of it |
| `CanvasEditor` | EXTENDS `PhaseProgram`: the program under design and every way of changing it |
| `CanvasEditorProofs` | theorems about `PhaseProgram` and `CanvasEditor` |
| `MCHarnessRun`, `MCRunStore`, `MCCanvasEditor` | instances for TLC |
| `MCPhaseOrder` | EXTENDS `PhaseProgram`: walks through all small programs |

Correspondence of state and actions to code is in `PROJECT.json` under `map`,
definition by definition. The decisions that are not obvious:

* **Granularity.** A critical section is one step. `_wait_for_decision` is two,
  because `Condition.wait` releases the lock: `EnterWait` and `LeaveWait`. The
  deadline of 300 s is the freedom to take `LeaveWait` without a decision.
  `request_stop` fetches its callback under the lock and calls it outside:
  `RequestStop`, `StopInterrupt`, `StopReturned`.
* **Requests.** `rpc[c]` is the one outstanding request of a calling thread:
  written, parked at the server, answered. A write to a dead process raises.
* **`ActivateTurn`** merges `register_turn` and the block under `_active_lock`.
  Only the reader looks at the queue and only stop handlers look at
  `_active_turn`; a stop handler cannot tell the two orders apart. The reader's
  steps between the response and the registration are kept.
* **The router** is modelled for the runner's turn: whether its queue is
  registered, and the terminal item in it. Other notifications do not change
  control. An early `turn/completed` is dropped, as in `route_notification`.
* **Turns.** What happens inside a turn is a choice: it may ask for approvals,
  complete, fail, or be interrupted once it was told to abort. A turn told to
  abort may still complete. Tool calls run side by side, so a turn may be
  `blocked` on several approvals. Threads it spawned ask on the same connection
  whenever they like, at a checkpoint or after the run included
  (`ServerAskOther`); neither `client.py` nor `runtime.py` looks at the thread,
  so both kinds go through the one handler and the one slot. `MaxApprovals`
  bounds the two together. The response to `turn/start` is a step of its own
  (`ServerRespondTurn`): nothing orders it before the turn's events.
  `Op::Interrupt` is taken to be accepted by a running thread.
* **Verdicts, exit codes, malformed answers** are choices of the environment. A
  malformed structured answer raises, as `json.loads` does.
* **Programs** are given in execution order. A manifest without phase program
  is the program `solver`, `verifier`. `phase_turn_bound` adds up what the phases
  may take; `TurnBound` counts the slots `<<phase, turn of it>>`, the same number
  in a form the proof of `TurnsWithinBound` can use.
* **Serialization.** What a request is about (key, access, connection) is
  chosen in `Init`. A drain task is named after the request that spawned it.
  `Cleanup` is `connection_closed`: it waits for the tokens, or its timeout
  passes. A panic destroys the drain task with its batch; release builds unwind.
  Nobody then removes the key, so its later requests wait for ever; the
  properties say that this stays within the key.
* **Run store.** Run ids are fresh, so there is one file per run; a file moved
  while it is open is still written to. `RunProceeds`, `RunRecords`,
  `RunEnds` and `RunRevived` (an approval answered when the run is over) are
  `HarnessRun` seen from the store.
* **Workflow store.** A save is one step per thing that can fail or be cut short:
  look up the parent and build the record (outside the lock), take the lock,
  create the temporary file, write, flush, rename, clean up. Every one of them
  may raise inside the lock: `CreateFails` for the directory and the temporary
  file, `Fail` for the write, the flush and the rename, `UnlinkFails` for the
  removal of the temporary file, which then stays behind. The place and the
  durability of a file are separate, so a crash can find a renamed file with
  nothing in it if it was not flushed. A rename that returned is taken to be
  durable (the code does not sync the directory). `get` and `list` only read.
* **Phase order.** Server and page run the same loop, so `DependencyOrder` is one
  operator; where they differ (a dangling arrow, what is refused) each has its
  own. `ready` is a set because its members are distinct and it is sorted before
  every removal. The `while` loops are folds over as many rounds as there are
  phases, a round with nothing left to do changing nothing; that these are
  enough is part of what is proved (`OrderFacts`, `ReachedFacts`).
* **Canvas.** `renderPhaseEditor` binds handlers to the object it drew. After the
  answer to a save `designProgram` is another object until the library has been
  loaded; `detached` says so, and then the inspector changes `shown` and the
  toolbar `program`. An arrow being dragged holds the object it began on
  (`live`). `stray` remembers that an arrow was drawn from or to a node that was
  gone: it is the one way in which the checks are circumvented
  (`MCCanvasEditorLoop.cfg`). An id is a word and the suffixes put after it:
  `uniquePhaseId` and Duplicate only append, and ids are only compared. Cutting
  them at 42 characters, which the counter makes up for, is left out.
* **Turns of a session.** `Loop` is the submission loop, `Guardian` the task that
  aborts a turn after a review, and every turn is a process from the moment its
  task is spawned. A step is what happens under one lock of `active_turn`:
  `start_task` is `Begin` (take the pending input), `Insert` (first lock) and
  `Start` (second lock), `on_task_finished` is `LeaveSlot`, `Announce` and
  `ClearSlot`, an abort is `TakeTurn` and `Kill`. `Kill` covers the 100 ms in
  which the task may stop by itself; the task is gone at once when they are over.
  Inputs are numbered; `waiting` remembers which have neither been recorded nor
  gone with an aborted turn. A turn takes its pending input (`Drain`) and records
  it later (`Record`): what it had taken and not recorded when it is killed goes
  with the aborted turn. `inject_if_running`, which shell commands, hooks and
  code mode use, queues in the slot whether or not there is a task
  (`InjectIfRunning`); it counts as an operation. `conflict` remembers the first time the slot was
  mistaken: a task put over another one (`overwritten`), a queue left by its turn
  (`abandoned`), a turn that finished another turn's task (`stolen`), input
  queued in a reservation somebody else has used up (`stranded`). What
  happens after that is not followed (`Apart`), and section 5 shows each.
  The input a task is started with and durable sleep are left out. Of an
  auxiliary shell command the model has what it injects; a standalone one is a
  turn of the regular kind, which can be steered.
* **Rollout.** Items are numbered, 0 is the session metadata. Lines of the file are
  whole or not; a write that fails leaves nothing, a fragment, or a line without
  its newline. `lost` are items that were in the recorder when the process died.
  `Readable` is the history `load_rollout_items` returns: the items of all lines
  that parse, in order. A line that was all written before its write failed is
  written again with the same ordinal, and both are there; `torn` remembers that
  the last line is such a one. The last flush of a shutdown may fail
  (`OpenOrFlushFails`). The history is paginated, so lines carry ordinals; the
  legacy mode has none. A history base and the prefix of a subagent, which only
  move the first ordinal, are left out.
* **Sign-in.** Click, login and waiter have the same number; `tab` says on which
  page a login is clicked. The polls of one page share `loginPollTimer`: starting
  to poll clears it whoever set it, and the chain of polls that waited for it
  ends (`dropped`). The button is disabled until its request is answered. The router has
  at most one queue a waiter can hold, so a queue is kept per login and not per
  object. The ten minutes of a login, the browser and a cancelled callback
  server are the freedom to take `FinishLogin`. Polls that change nothing are
  not steps. `close` runs when the HTTP server stops and is left out.

`ServerMayExit` lets the app-server die at any step of a run; the runs have it
TRUE, and it is FALSE only where section 5 shows something that needs no crash.

## 3. Runs

| Run | Instance | Shows |
|---|---|---|
| `lifecycle` | server may die, 1 stop handler, 2 approvals | message order, no approval of the turn at a checkpoint, every panel has its waiter, refinement of `RunLifecycle` |
| `safety` | server may die, 1 stop handler, 1 approval, fairness | type, decisions, stop flag, receipt; every run ends, every stop is answered |
| `serialization` | 3 requests, 1 key, 1 connection, panics | order of requests, quiet connections, no queue without a task, every request ends unless its key panicked |
| `run_store` | 3 deletions (symmetric), 2 restarts | deleted runs are gone, deleted once; a run that is not found stays so |
| `phase_order` | all programs of 1 to 4 phases and up to 4 arrows | order and acceptance against reference definitions; what is shown against what is run |
| `canvas` | 2 templates, 3 edits or requests, up to 4 nodes, limit 3 | ids, a remaining turn, no loop past the checks, dependencies kept by deletion, while answers replace the program |
| `workflow_store` | 2 threads, 3 workflows, 2 programs, 1 crash, any step failing | whole, immutable, rightly descended, lock released |
| `turn_tasks` | 3 operations, 3 turns, one abort by the guardian at a time | one running turn, one end per turn, input kept, no slot left reserved, every turn ends |
| `rollout` | channel of 2, 2 items, 2 barriers, 3 faults, 3 crashes or resumptions | refinement of `RolloutLog`, ordinals up to a repetition, every barrier answered |
| `auth_login` | 2 logins on 1 page, the process may die | one callback server, only newer logins stop one, completions kept, the page asks until it shows the outcome |
| `stop_halts`, `turn_overlap` | small | disagreements of section 5 |

**Bounds.** The four programs of `MCHarnessRun` have every kind of phase,
checkpoints before a command, a verify and a work phase (so feedback can be
replaced), a command that stops on failure and one that does not, repairs, and
the largest number of retries. Two approvals in a run, each of the turn or of
another thread, are two tool calls side by side, a tool call and a sub-agent, or
one that meets what the other left behind; the theorems of section 4 hold for
any number. The run with fairness has one: liveness is about the waits, and the
reader has one at a time. One stop handler meets the runner's
own interrupt. With two (`Stoppers = {h1, h2}`, one parked while the other is
refused) and one approval, `TurnLeavesNoApproval`, `PanelIsLive`,
`FlagMeansInterruptSent` and `ReceiptIsSound` hold as well, in about two minutes;
the theorems are for any number. Three requests on one key give
reader, writer, reader, the shortest way to overtake. Keys do not share state, so one is enough for
TLC; the proofs are for any set. Four phases
give a fork and a join with a phase beside them, and four arrows every shape of
it; the order in which arrows are listed does not enter any definition, so
`MCPhaseOrder` adds them in one order. Arrows may be repeated, point to
themselves, close a loop or begin at a node that is not there, and one list
repeats an id, so every ground for refusal occurs. In the canvas runs the limit
of nodes is 3 and the bound 4, so the limit is met and passed; three changes are
enough for delete, add and connect, or for two edits around the answer to a
request; `MCCanvasEditorLoop.cfg` needs four. Two threads and
three workflows give a parent, a child and a deletion between them. Three turns
are one that runs, one that is aborted and one that is started meanwhile; three
operations start a turn, send it something and replace or interrupt it. Two
items let a torn line stand between them and after the last; three faults fail
both attempts of a write and one more; three starts are a crash, a resumption
and an append to the closed file, in any order. Two logins are an old one and
the one that replaces it, on one page, so that they share its timer;
with `MaxPages = 2` the same properties hold (1.8 million states, about five
minutes).
Deadlock is checked in the runs of the canvas and in `turn_tasks`. It is off
where the system may really stop: a stranded run (`MCHarnessRunEarly.cfg`), a
finite set of requests, a deleted run, a closed recorder, sign-ins that are over;
in `safety` a run that is stuck for any other reason violates `RunEnds`.

**Fairness.** In `HarnessRun`: the runner, the reader, the callbacks of stop
handlers and the app-server's steps are weakly fair. Threads are scheduled by
the operating system; the deadline of `_wait_for_decision` makes leaving a wait
a step the thread takes by itself; the app-server answers requests and ends its
turns. People need not act, nothing need crash. That turns end is an assumption
about the model provider, and the control plane has no timeout for it. In
`RequestSerialization`: ready tasks are polled, and handlers return. In
`WorkflowStore`: a thread that has begun a save goes on. In `TurnTasks`: tokio
polls the loop, the guardian's task and the turns; a task returns (the model
answers, as above); nobody has to submit anything. In `RolloutRecorder`: the
writer task runs; I/O may fail each time, within the bound. In `AuthLogin`:
threads and tasks run, a login ends after ten minutes at the latest, pages poll;
nobody has to click and nothing has to die.

**Mutants.** Each property of a passing run has a mutant of a mapped definition under which TLC
finds it violated: a reset left out, a guard dropped, a tool call that outlives
its turn, a batch that takes too much. They stand before the definition they
change and are named in `PROJECT.json`.

**Types.** In `WorkflowStore`, `RequestSerialization` and `RunStore` the type
invariant is proved and the runs do not check it again. The same goes for
`DeletedOnce`, which is a theorem.

## 4. Proofs

All theorems hold for every set of stop handlers, requests, keys and
connections, every program that satisfies `ProgramsAssumption` and every bound.

*`HarnessRunProofs`*: `TypeCorrect`. `TypeOK` is not inductive, since
`program[phase]` is read and `phase` may be one past the end; `PhaseInRange`
says where the runner may then be.
`TurnLeavesNoApproval` is not inductive either: it says nothing of an approval
still unread when the runner moves on. The invariant `TurnProtocol` says why all
approvals of a turn are dealt with before the runner can reach its next
checkpoint, however many there are: they stand before everything in the stream
that releases the runner, and the reader answers one before it routes what
follows (`ApprovalFirst`); a turn is announced over once, and the runner has one
reply at a time (`OneEnding`, `OneReply`); and what is left when the process is
gone (`Connection`). This gives `ProtocolCorrect` and `NoApprovalLeft`. It says
nothing of other threads' approvals, which may meet a checkpoint (section 5).
`DecisionHolds` needs only the critical sections of the session.
`PanelIsLiveHolds` and the `Refinement` of `RunLifecycle` add `SessionInv`:
`PanelIsLive` itself (the slot names a kind of request somebody waits for, and
the status says "waiting" only with something in the slot), and that the run is
queued until the runner begins. Both hold with approvals of other threads at any
time and with a dying server; what they cannot claim, because the code does not
keep it, is that a settled request was the one answered or that a finished run
stays finished, and `RunLifecycle` says so.

*`RequestSerializationProofs`*: `Serialized` strengthens `InOrder` by one drain
task per key, queues sorted by arrival, batches of one request or of shared
reads, and everything under way in the batch of an active task. From it
`InOrderHolds`, also with panics; with `Drained` (a key of the map has its task
unless a handler of that key panicked), `NobodyStrandedHolds`; with
`Quiet`, `DrainedIsQuietHolds`.

*`WorkflowStoreProofs`*: the safety properties are proved together, from one
invariant. `Holding` says which thread holds the lock and that a workflow being
saved is nobody else's; `Stages` ties the step a save has reached to the place
and the durability of its file; `Lineage` extends `LineageIsSound` to records
that are built and not yet in the library, which is what survives the deletion
of a parent looked up outside the lock. `ImmutableHolds` follows because a
record is only built for an id without a file.

*The stop flag* (`HarnessRunProofs`, `FlagHolds`): `FlagMeansInterruptSent` needs
two facts. From the registration of a turn to its end `_active_turn` names the
turn the app-server runs (`FlagSent`); and that turn is not the 0 that stands
for None, since nothing succeeds before the first `turn/start` has been accepted
(`FirstTurn`, over the stream and the replies as well).

*The receipt* (`HarnessRunProofs`, `ReceiptHolds`): `StepKinds` splits every step
of every thread into those that record a phase and those that move within one.
On top of it one invariant for each part of `ReceiptIsSound`. `Listed`: there is
an entry for every phase before the current one. `Completing`: what
`completion_status` still allows. `Undelivered`: pending feedback comes from an
earlier phase and is in no prompt yet, unless the turn that carries it is under
way. `Counted`: outside a turn the app-server has started as many turns as the
receipt lists, inside one more, and in between it depends on what the runner's
`turn/start` has come to, request, response in the stream or reply, which is
where `OneReply` is needed. `Accounts`: turns are numbered without a gap and
owned in order. `Bounded`: every listed turn has taken a slot of its own, and a
phase that starts a turn has one left, so the cardinality of the slots bounds
the turns (with the theorems on finite sets). All of it holds with a dying
server, and a reader that runs ahead of the runner.

*`RunStoreProofs`*: the invariant follows the one file of a run. The worker makes
it once (`FileIsMade`), one handler moves it and has dropped the session before
it answers (`OneMover`), and a worker that outlives its session writes into the
trash only (`NoLateWorker`). Hence `DeletedIsGoneHolds` and
`NeverFoundAgainHolds` for any number of handlers and restarts.

*`AuthLoginProofs`*: `OneLoginServesHolds` and `OnlyNewerStopsHolds` need the
active login only: whoever serves and has not been told to stop is the active
one. `CompletionKeptHolds` follows a completion on its way: what is in the
stream (`WireIsSound`), in which order a login is started, listed and waited for
(`Order`), that no result is anybody else's (`Genuine`), and where the
completion is at each stage (`Place`).

*`TurnTasksProofs`*: `Places` and `Carries` say where the loop, the guardian and
the tasks can be and what they hold there; `Reserved` who will fill or clear a
slot without a task; `Ordered` that the task in the slot runs and is nobody's
victim, that a victim has one aborter, and that a running turn is in the slot;
`Events` whether a turn's end has been sent; `AllKept` where every waiting input
is. The last needs to know which queues somebody will still look at (`Served`),
which is how the stranded reservation of section 5 was found: `InputKept` held in
every instance TLC had covered, and could not be proved. All of it is claimed up
to the first conflict, where the model stops; after one, nothing is said about
that session.

*`RolloutRecorderProofs`*: `OrdinalsInOrderHolds` from `Ordinals` (the next
ordinal follows the last line that parses, or that line is the one about to be
repeated) and `Handles` (whoever opens the file closes its last line first).
It allows the one repetition the code makes. `Refinement` shows that the recorder
implements `RolloutLog` under the mapping `log <- Readable`, `doubtful <- Doubtful`
(the write of the last item was reported as failed): the log is what a reader of the file gets,
repetitions included, and an item is there again only directly after a write of
it that was reported as failed. It rests on the order of items through channel,
buffer and file (`Numbers`), on what a repetition looks like (`Repeats`), on
there being no item that is in none of the three (`NoneMissing`, also for the
items before each command still in the channel, so that a barrier confirms only
what is there), and on the lines a reader keeps being ranked without a gap
(`Ranked`). Then writing a line appends its item to `Readable`
(`ReadableGrows`: `Store` or `Repeat`) or leaves it alone (`ReadableStays`), a
loss is a loss, and an answer to a barrier is a confirmation.

*`CanvasEditorProofs`, the algorithms*: what the loops compute for every program,
of any size. The library's induction rules take an operator and cannot be used;
that a non-empty set of numbers has a least element can, and gives induction for
membership in a set (`Least`, `SetInduction`, `UpTo`). `FoldLeft` chooses a
function that satisfies a recursive equation: `FoldExists` shows that there is
one and `FoldRun` that the fold is the last state of a loop. For each loop there
is then an invariant. `OrderStates` is the one of the order: no phase is taken
twice, every phase after those it waits for and as early as the list allows, the
counters count the arrows not yet taken away. Hence `OrderFacts`, and
`OrderedIffAcyclic`: all phases are ordered exactly when every set of phases has
one that no arrow enters from within. From these: `ServerOrderIsStable` (by the
first place where another order would differ), `ServerRejectsLoopsAndLooseParts`
(without a loop every phase is led to from a starting node, so that one starting
node is enough) and `ProgramIsShownAsRun`. `ReachedFacts` says that
the search of `wouldCreateCycle` finds the least set closed under the arrows, and
`BridgeFacts` which arrows deleting a node leaves.

*`CanvasEditorProofs`, the canvas*: `ProgramStaysSound` is not inductive: the
handlers use `shown`, which must be the program unless a save has detached it;
the arrow tool, a drag and the requests hold ids and programs that become part of
it later; and that all phases are ordered says nothing of the next arrow, that
there is no loop does. `EditorInv` adds these. An arrow closes no loop because
its target does not reach its source (`ConnectKeepsClean`); the arrows put in
place of a node close none because a set of nodes closed to the new arrows would
be, with that node, closed to the old (`BridgeClean`); a new id is new because as
many counters as there are nodes suffice (`FreshId`, by the pigeonhole
principle). This gives `EditingKeepsProgramSound`. `DeletionIsFaithful` needs only
that ids are distinct: what a node reaches after the deletion, with the deleted
node added if it is reached, is closed under the old arrows (`BridgeReach`), also
in a graph with loops. `DesignIsRunAsDrawn` repeats the results about programs
for the one under design. The constants are any templates the server accepts, any
kinds, limits and bounds (`EditorAssumption`, `LimitsAssumption`).

Each of these invariants was first checked by TLC on the instances of section 3
or larger ones (four operations and three turns, three items).

Only model-checked, and why. Liveness (`RunEnds`, `StopIsAnswered`,
`EveryRequestEnds`, `LockIsReleased`, `TurnsEnd`, `BarriersAnswered`,
`LoginsSettle`): the prover does not treat fairness and ENABLED. Every
other property of a passing run is proved.

## 5. Where the code does something else

| Run or configuration | What happens |
|---|---|
| `stop_halts` | A stop reaches a turn that completes anyway. The interrupt is answered, the stop reports True, `run_turn` resets the flag, and the next phase runs. `README.md` of the control plane says Stop ends the active turn and records the phase as stopped. |
| `MCHarnessRunCheck.cfg` | An interrupted command with `stop_on_failure` is recorded as stopped and then overwritten as `failedCheck`; the run reports `completed`, though the phase says "The run was stopped before this check completed." (`phase_runtime.py:386`). |
| `MCHarnessRunFeedback.cfg` | Feedback before a command is not in the command's prompt, and a later checkpoint without text erases it. |
| `MCHarnessRunEarly.cfg` | `route_notification` drops a `turn/completed` that arrives before the queue is registered; the runner waits for ever. `register_turn` promises to "replay early events", and `fail_all` that "no SDK call blocks forever" (`_message_router.py:90`, `:230`). |
| `MCHarnessRunCrossed.cfg` | A sub-agent's approval reaches the handler while the runner waits at a checkpoint. They share the slot, the decision and the notification: the answer to the approval settles the checkpoint. `CODEX_HARNESS_INTERNALS.md:960` says a checkpoint "requires a human continue-or-stop decision". |
| `MCHarnessRunRevived.cfg` | An approval that is still unread, or comes from another thread, when the run ends is taken, waited for and answered afterwards: the status of the finished run goes to `waitingForApproval` and to `running`, where it stays. Stop then answers False, and `delete_run` refuses: "stop the active run before deleting it" (`server.py:237`). |
| `MCRunStorePersisted.cfg` | The timeline says "Receipt persisted locally." before the file exists; a restart loses the run. |
| `MCPhaseOrderList.cfg` | A saved list of phases without arrows runs on the server in list order. The page refuses it: `ensureDesignProgram` fills arrows in only when `edges` is missing, and the server always sends a list. |
| `MCPhaseOrderReady.cfg` | The page says "Ready to run" of a program with two checkpoints in a row; the server rejects it. |
| `MCCanvasEditorLoop.cfg` | The arrow tool keeps the id of a node that is deleted; the arrow it draws dangles until a new node takes the id, and then closes a loop. |
| `MCCanvasEditorLimit.cfg` | Duplicate adds a seventeenth node. |
| `turn_overlap` | The guardian aborts a turn and starts another for waiting mail, while the submission loop spawns one: both pass the first lock of `start_task`, and the second to reach the second lock replaces the running task (`tasks/mod.rs:431`). The replaced `RunningTask` is dropped, its `AbortOnDropHandle` (`state/turn.rs:79`) aborts it, and its turn ends without a terminal event. Both places assert `turn.task.is_none()` (`tasks/mod.rs:341`, `:353`). |
| `TurnTasksStolen.cfg` | `on_task_finished` takes whatever task is in the slot. A turn that passed its check for cancellation before it was aborted finishes the task of the turn that was started after it. |
| `TurnTasksStranded.cfg` | `start_if_idle` reserves the slot, lets go of the lock, and queues its input in the `TurnState` it reserved. Another start may meanwhile have put its task there, finished and cleared the slot: the input is in a queue nobody owns and is not recorded. |
| `TurnTasksInjected.cfg` | Items injected while `start_if_idle` has reserved the slot are queued there. When the settings of its request are refused the reservation is given back with them: they are neither in active work nor recorded. The comment at `session/inject.rs:117` says: "Injects items into active work, or records them without starting a turn." |
| `TurnTasksWake.cfg` | Mail that triggers a turn arrives while the slot is reserved or being cleared; nobody looks again and the session is idle with the mail in its box. The comment on `maybe_start_turn_for_pending_work` says it "starts a regular turn when the session is idle and pending work is waiting". |
| `RolloutRecorderResume.cfg` | The first write leaves a fragment of the metadata line, the retry succeeds and `flush` answers Ok. The reader skips the bad line, but resuming a paginated history does not and refuses the file. `flush` waits "until they are committed" (`recorder.rs:984`). |
| `RolloutRecorderDuplicate.cfg` | A write fails after the whole line and before its newline. The retry closes the line and writes it again with the same ordinal. `load_rollout_items` returns the item twice, and the projection of the same paginated file refuses it (`thread_history_materialization.rs:187-193`); its test lists a "duplicate ordinal" among the invalid suffixes (`thread_history_materialization_tests.rs:1704`). |
| `AuthLoginStranded.cfg` | The process dies after `account_login_start` has registered the login and before its waiter has: `fail_all` removes the queue, the waiter registers a new one and waits for ever; the attempt stays pending. The same comment of `fail_all` promises otherwise. |
| `AuthLoginAccount.cfg` | The app-server announces a login before it has loaded the credentials. A poll in between answers `succeeded` with an account that is not signed in, which `test_auth_service.py:92` excludes, and the page, which asks once more and then stops, may show it. |
| `AuthLoginTimer.cfg` | Two logins on one page share its timer. A late "pending" answer for the older login sets the timer for itself; when it fires, the poll it starts clears the timer of the newer one, whose polling ends. The page says "Waiting for ChatGPT sign-in…" (`home.js:465`) and nobody asks. |

The rows named after a configuration are not among the runs of `PROJECT.json`:
each configuration checks one property of its module that TLC finds violated,
and is kept beside them.

Some more that the models allow and no text excludes: mail that triggers a turn
and is drained by a compaction is recorded without a turn; the abort of a
shutdown may start a turn for waiting mail; an interruption between the two locks
of `start_task` leaves the input of that turn in a queue nobody owns; of two
sign-ins started together the older may be the one `_attempts` keeps, and the
page of the other gets 404 and stops polling; the client of a process that died
is never replaced, so nobody can sign in again before a restart.

## 6. Not modelled, and why

Events, timelines, prompts and receipt text are data no property reads. An
exception raised by `event_sink` is not modelled. Of Codex core, the turns of a
session and the rollout file are modelled; the rest of it, the TUI, exec and
the sandboxes are a large import seen only through the app-server's turns: most
of it is terminal rendering, configuration, model protocols and operating-system
calls, where there is little to check but input and output. The TypeScript SDK, the npm package, trials and the site take no part in
a run. Manifests, uploads, adaptation, trace projection and artifact preview
keep no state between calls.

Known and left without a property: a decision and a stop both write `_decision`
and the last one wins (`runtime.py:163`), which no document orders; the cleanup
of a connection goes on after its timeout (`message_processor.rs:750`; the model
reaches `timedOut`, what a late handler creates is not modelled); after a restart
a stopped run is shown as completed (`server.py:426`, `View` in `RunStore`);
`saved_runs` and `list` call `stat` on a file that may just have been deleted
(`server.py:186`, `workflow_store.py:119`): that request fails, no state changes;
an answered adaptation replaces what was edited meanwhile (`home.js:903`); a
phase named `task` or `output` shares its node with the compiled one
(`phase_program.py:180`).

## 7. What could come next

The page of a run (a late poll, decision or stop meets a newer run), the index of
saved runs in `RunStore`, and `MessageRouter` with goal operations.
