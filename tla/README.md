# TLA+ models of KRIA

KRIA is a desktop assistant written in Rust.  A user's message becomes a *turn*:
a loop that asks a local or remote language model, takes the tool calls it
proposes through a policy, a human approval and several guards, runs them on the
user's machine and asks again.  Around the loop stand the processes it depends on
(llama-server, ComfyUI, MCP servers, a Python sidecar) and the front ends
(desktop, Telegram, HTTP).

This directory holds TLA+ modules for the parts whose behaviour depends on the
order of things, TLC configurations for small instances, and TLAPS proofs for all
instances.  `PROJECT.json` lists the components, the runs, the source lines every
definition stands for, the hazards and the theorems.  Paths below are relative to
`crates/kria-core/src` unless they start with `kria-desktop`.

1. [Inventory](#1-inventory)
2. [Plan](#2-plan)
3. [Modules](#3-modules)
4. [Runs](#4-runs)
5. [Proofs](#5-proofs)
6. [Differences between the documentation and the code](#6-differences-between-the-documentation-and-the-code)
7. [What is not modelled](#7-what-is-not-modelled)

## 1. Inventory

For each component: the state it keeps, its operations, what it interacts with,
what is hard about it, and what makes it correct.  "Live" means that the desktop
program constructs it; some of the library is exercised only by its tests.

### Approval gateway (`safety/hitl.rs`), live, modelled
- **State** one mutex-protected map from request id to the sender of a one-shot
  channel; each requester's own timer and receiver.
- **Operations** `request_approval_with_id` (insert, announce, wait at most 30 s,
  remove on timeout), `respond`, `cancel_all`, `list_pending`.
- **Interactions** called by the agent loop; answered by desktop commands and the
  Telegram bridge; drained by the desktop's "stop" command for every session.
- **Hard** an answer, a drain and the timer race for the same entry, and the timer
  takes two steps; the frontends hear of a request before the map holds it.
- **Correct when** a request is settled once; `Approved` is returned only on the
  user's word, given while the request was open; every request ends.

### Agent loop (`agent/loop_engine.rs`, `agent/turn_context.rs`), live, modelled
- **State** locals of a turn: round, proposed calls, mounted tools,
  `approved_this_turn`, `failed_calls`, token counters, Colab flow, last successful
  image; shared: `active_cancels` (one cancellation token per session).
- **Operations** `run_with_profile`, `cancel_session`, `auto_route_file_result`.
- **Interactions** model backends, policy, gateway, audit log, tool handlers run in
  tasks of their own (`infra/isolation.rs`), an event channel to the front end.
- **Hard** overlapping turns of one session, cancellation at any await, tools that
  outlive their turn, six ways out of a call with different bookkeeping.
- **Correct when** nothing is executed that was not mounted, is blacklisted, or is
  RED without this user's approval of these arguments in this turn; a failed call
  is not repeated; a cancelled turn starts nothing; every executed call is logged;
  every turn ends.

### Planning helpers (`agent/router.rs`, `planner.rs`, `response_parser.rs`, `interaction.rs`, `prompts.rs`)
Pure text functions: what the model said becomes a list of calls.  They decide
*which* calls are proposed; the loop model takes any list of a given set.

### Policy and blacklist (`safety/policy.rs`, `safety/blacklist.rs`), live
- **State** none after construction.  `evaluate` maps an action and its arguments to
  GREEN, YELLOW, RED or BLACK; an unknown action is RED; a blacklisted target
  blocks whatever the tier.
- **Correct when** no argument lowers a tier, the destructive hint of the router
  never lowers one, the blacklist wins over everything.

### Audit log, rollback store, PIN guard (`safety/audit.rs`, `rollback.rs`, `pin_guard.rs`)
- **State** an append-only table with a hash chain; a directory per snapshot with
  a manifest, pruned by age and count; a failure count with a lockout.
- **Hard** snapshots are named by the second; pruning against creation; what an
  expired lockout does to the next failures.
- **Correct when** restoring a snapshot gives back what was saved under it; the
  lockout grows as documented; a row exists for every executed action (the loop's part
  of that is in `AgentTurns`).

### Desktop commands (`kria-desktop/src/commands.rs`), live, concurrent part modelled
- **State** the count of active turns, the orchestrator handle, settings.
- **Operations** `send_message_with_profile` spawns a turn and consumes its events
  with an idle timeout, retrying once after a transport failure; `cancel_turn`,
  `cancel_request`, `approve_action`, `deny_action`; an idle monitor that releases
  llama-server.
- **Hard** the consumer may give up on a turn that goes on; the next message of the
  session overlaps with it; the count of active turns no longer holds it up.
- **Correct when** a running turn keeps its server; a retried turn does not repeat an
  action; a UI tool entry that starts also ends.

### Telegram bridge (`platform/telegram.rs`), live, modelled
- **State** `last_update_id` and the batch in hand, locals of the poll loop; the bridge
  in the desktop's state; at Telegram, the offset of the last request.
- **Operations** start (verify, replace the bridge), stop, poll, the commands answered
  aside, a turn per message with its approvals tried up to twenty times.
- **Hard** nothing is on disk; two loops for a while after a restart; a crash at any point;
  an approval is given before the gateway holds the request.
- **Correct when** no message is lost or taken twice by a loop, every message is reached
  in the end, the owner's approval arrives.

### llama-server lifecycle (`llm/orchestrator/`), live, modelled
- **State** server state (STOPPED, STARTING, READY, SWAPPING, ERROR), URL, the child
  process, current GPU layers, the swap token and swap notification, the watchdog's
  task and health.
- **Operations** `restart`, `ensure_ready`, `release_if_idle`, `shutdown`,
  `evict_to_cpu`, `restore_from_cpu` under one lifecycle lock; the watchdog's swaps
  without it.
- **Hard** the lock is held over long awaits but does not cover the watchdog; aborting
  its task does not wait for it; a spawn is a sequence of awaits that other spawns
  interleave with; failures in the middle of a swap.
- **Correct when** no server process is left to itself; an operation leaves the server it
  started in charge, whatever failed before; READY means that the URL is that of a live
  process; the lock is released; a swap ends the streams in flight and no later ones.

### VRAM strategy, watchdog decisions, telemetry (`strategy.rs`, `gpu_watchdog.rs`, `telemetry.rs`), live, modelled but for telemetry
Tables from free memory to GPU layers; a sampling thread with smoothing and
hysteresis; a watchdog with dwell times, cooldowns, budgets and a cap on the age of
every state that scales the server down and up.  **Hard** a server that is scaled up takes the
memory whose lack scales it down.  **Correct when** the layers come to rest once others leave the
card alone, and lasting pressure is met.

### Model backends and router (`llm/local.rs`, `cloud.rs`, `model_router.rs`, `model_manager.rs`, `server_binary.rs`), live, local backend modelled
- **State** the circuit breaker of the local backend; which model is active; the
  llama-server binary, the archive it comes from and its partial download.
- **Operations** `chat` with up to three attempts, waiting once for a swap; `chat_stream`
  with the swap token; routing by capability and privacy.
- **Correct when** a request is not sent to a server known to be down; private turns do
  not reach the cloud; a swap delays a request and does not lose it; a download that was
  interrupted is continued correctly.

### Fault isolation (`infra/circuit_breaker.rs`, `isolation.rs`, `supervisor.rs`)
- **State** breaker: state, failure count, time of the last failure, each in its own
  atomic or lock.
- **Hard** `on_failure`, `on_success`, `reset` interleave between those fields; a
  dropped `run_isolated` future detaches its task.
- **Correct when** an open breaker can always half-open again; a success counted
  against an older failure does not close a breaker that has just opened; an open breaker
  has a full count, so that the next failure opens it again.

### Image generation (`image/`), live, modelled but for graphs and cloud requests
- **State** ComfyUI's process and state, the evicted-model token, job semaphore,
  hang count, `session_degraded`.
- **Operations** `generate_with_swap` (evict the language model, wait for memory, run
  the job, restore), `generate_local`, cloud generation, defragmentation.
- **Hard** jobs in parallel, restore at the end of one against the run of another, a
  barrier that times out, a retry that takes a different path, dropped futures.
- **Correct when** a job runs only while the model is off the GPU and the memory is
  there; the model is back when the last job is done; ComfyUI has one process.

### MCP servers and tool bridge (`mcp/`), live, manager modelled
- **State** configurations, clients in place, failed pings, under one mutex; handlers in
  the tool registry, which hold clients.
- **Operations** boot, reconcile, restart, refresh, the health cycle.
- **Hard** a command reads the configuration before it waits for the mutex; a restart or
  reconcile fails half-way; handlers outlive clients.
- **Correct when** what runs is what the configuration says, a tool call goes to the process
  in place, a dead process does not stay in place.

### Python sidecar (`sidecar/`), live, modelled but for its set-up
- **State** the child, its stdin under a lock, the map of pending ids, the reading task.
- **Operations** `spawn`, `request`, `shutdown`.
- **Hard** one pipe of limited room for all callers; callers with limits of their own are
  dropped at any await, also within a line.
- **Correct when** a request that was written is answered or still on its way.

### Inbox (`platform/inbox/`), library only, not modelled
Persistent queue with a worker, an approval broker, a rate limiter and a policy
table over origin and risk.  **Correct when** a message that was accepted is
processed at least once across a crash, in order per conversation.

### Automation (`automation/`), live
Scheduler, workflow engine, macro recorder, proactive alerts: tables and single
synchronous steps.  Conditions and failure branches of workflow steps are stored and
never evaluated.

### Memory and retrieval (`memory/`), live, rows and vectors modelled
- **State** SQLite rows of facts and chunks; a vector index in memory under the row's id,
  written to disk when it is dropped.
- **Operations** ingest, add and update a fact, remove, prune, restart.
- **Hard** rows and vectors are changed under different locks by overlapping calls, and the
  index comes back from an earlier point after a crash.
- **Correct when** the vector under an id is that of the row's text.

### Voice (`voice/`), live, pipeline v2 modelled
- **State** one token slot, one state, one playback sink with a shared abort flag.
- **Operations** `run_turn`, `run_speak_turn`, `force_abort`; the desktop's listening
  loop, its microphone gate, `start_voice`, `stop_voice`, `voice_v2_speak`.
- **Hard** nothing keeps two turns apart; an abort reaches whoever holds the slot.
- **Correct when** an abort ends the turn it was aimed at and silences it; KRIA does not
  hear itself; a stopped loop ends.

### Routing, preprocessing, plugins, configuration, platform probes, tools, infrastructure
Embedding similarity; text shaping; file and process handlers; logging, probes.  Single
statements, pure functions or I/O.  (The resuming download of `infra/download.rs` is in
`ServerInstall`.)

### HTTP server, Python modules, web UI
Thin fronts and stateless workers.

## 2. Plan

The order of work, most important behaviour first; all rows are done.

| # | Module | Subject | Composed with | States |
|---|---|---|---|---|
| 1 | `ApprovalContract` | what the gateway promises | | abstract specification |
| 2 | `HitlGateway` | the gateway | implements 1 | consistency, refinement, always answers |
| 3 | `AgentTurns` | turns, cancellation, tool tasks | extends 2 | authority of what runs, cancellation, failures, audit, termination |
| 4 | `ServerContract` | what the server's manager promises its callers | | abstract specification |
| 5 | `LlmRuntime`, `LlmStreams` | lifecycle operations, spawns, watchdog swaps, abort; streams | implements 4 | refinement, no stray process, undisturbed operations deliver, the lock is released |
| 6 | `TurnConsumer` | the desktop's consumer, its retry, the count of turns, the idle monitor | | clean retries, a turn keeps its server, turns finish |
| 7 | `TelegramPoll` | the bot's loops, crashes, approvals | | nothing lost, nothing twice, everything served, approvals land |
| 8 | `ImageSwap`, `ComfySidecar` | eviction, barrier, restore; the ComfyUI process | `ImageSwap` extends 4 | the model comes back, the card is free, no stray process |
| 9 | `LocalChat` | `chat`, `chat_stream`, circuit breaker | | the circuit closes, an open one has a full count |
| 10 | `GpuWatchdog` | when the watchdog swaps | decides what 5 carries out | layers settle, pressure is met, budgets hold |
| 11 | `McpServers` | the MCP manager | | servers as configured, tools reach their server |
| 12 | `VoiceTurns` | pipeline v2 and its callers | | aborts settle, the gate holds |
| 13 | `MemoryIndex` | rows and vectors | | vectors describe rows |
| 14 | `ServerInstall` | download and unpacking | | the partial file is a prefix |
| 15 | `SidecarBridge` | the pipe to Python | | no request is swallowed |

Two rows of an earlier plan were dropped after reading the code: the inbox (no binary
constructs its queue, broker or limiter, so no running program has its behaviours) and
a module of operators for policy, PIN lockout and snapshot names (tables and text; the PIN
guard is constructed by tests only).

The modules are separate programs to TLC: what one sees of another is the other's
promise (`TurnConsumer` has a run as the events it sends, `GpuWatchdog` has a swap as one
step), because a product of their state spaces would be out of reach and the calls between
them are few.  Two promises are modules of their own, which one side is shown to keep and
the other is built on: `ApprovalContract`, kept by the gateway by itself and in use by the
loop, and `ServerContract`, kept by `LlmRuntime` and extended by `ImageSwap`.

## 3. Modules

### `ApprovalContract`
The promise, without map, channel or timer.  `status[r]` goes `unasked`, `open`, and
then one of `Approved`, `Denied`, `Timeout`; `consent` is what the user said yes to
while it was open.  `Close(r, "Approved")` requires consent, `Close(r, "Denied")`
excludes it, and a timeout may lose a consent that came too late.  Weak fairness on
closing says that a request always ends.

### `HitlGateway`
| Model | Code |
|---|---|
| `pending` | keys of the map `pending` |
| `slot[r]` | content of the one-shot channel |
| `phase[r]` | the requester in `request_approval_with_id`: `new`, `waiting` in the timeout, `elapsed` (the timer has fired, the lock is not taken again yet), `settled` |
| `outcome[r]` | what the function returned |
| `consent` | history: `respond(r, Approved)` found its entry |
| `Submit` | lines 67-102, up to the wait |
| `Respond`, `CancelAll` | `respond`, `cancel_all`; a send to a dropped receiver is lost (`Send`) |
| `Receive`, `Elapse`, `GiveUp` | the three ways the wait goes on: a value is there (polled before the timer), the timer fires, the timeout branch removes the entry |

`respond` with an unknown id returns `false` and changes nothing, so it is a
stuttering step.  `GatewayFairness` is weak fairness of the requester's own steps: a
woken task is polled and an armed timer fires.  Nothing is assumed of the user.

### `AgentTurns` (extends `HitlGateway`)
A turn is one call of `run_with_profile`.  `turn[t]` is the record of its locals; the
field `at` says where it stands:

| `at` | code (`loop_engine.rs`) |
|---|---|
| `llm` | the model call and what replaces an empty answer (4921-5311) |
| `call` | head of the loop over calls (5335), and the end of the round (5994-6038) |
| `gate` | the Colab connection the loop opens by itself (5400-5458) |
| `policy` | verdict, blacklist, approvals of this turn (5460-5545) |
| `ask` | the approval event is sent, the gateway not yet entered (5546-5568) |
| `wait` | inside `request_approval_with_id` (5569) |
| `guard` | repeated failure and token budget (5665-5715) |
| `running` | inside `select!` over the token and `run_isolated` (5741-5776) |
| `record` | bookkeeping, audit row, image handling (5784-5938) |
| `route` | `auto_route_file_result` (6040-6096) |
| `closing` | the turn has sent its last event; locals and `CancelGuard` still to drop |

Each action is the code between two awaits, or between two steps another task can
observe.  What other tasks do in between: `UserStep` (approve, deny), `EmergencyStop`
(`cancel_request`, all sessions), `RequesterStep` (the gateway's timer),
`CancelSession`, `OrphanEnds` (a tool task that its turn let go of).

Data are abstracted as follows.
- A *call* is a tool with its arguments, since approvals and failures are remembered
  by both.  `Tier[c]` is the verdict: `AUTO` for GREEN and YELLOW, `RED` for what
  requires approval, `BLACK` for what is blocked.
- `Proposals[t]` is what a round may propose, by the model, a workflow of the package
  or Colab kind, or the intent fallback; `Mountable` is what the tool mounting may
  choose for the turn.
- A tool returns success or failure freely; whether it succeeded or failed, the result of a
  `Pathful` call may be routed to the `Analyzer`, which the loop runs itself.
- The token counter is its comparison with the budget (`spent`), which any call may
  tip.
- Left out: prompts, result texts, events other than the closing one, memory writes,
  the streak of failures (it adds a message to the prompt).

The history variables `ran`, `bypassed`, `silent` and `cancelAsked` are read by
properties only; no guard mentions them.

`CancelAllApproving`, `GrantedUnlessDenied` and the other definitions commented as "a
plausible slip" are not part of the specification: they are wrong versions of the
action that follows, kept to show that the property named for them in `PROJECT.json`
would notice.

### `ServerContract`
What callers of the orchestrator may rely on, without processes, guards, ports and retries.
`layers` is whether the model is on the card, `up` whether the state is READY, `op` the
operation that holds `lifecycle_lock` and `stage` how far it is, `armed` whether a watchdog
runs and `lingering` whether one that was stopped may still act.  An eviction that succeeds
has put the model on the CPU (`Succeed`); an operation that fails leaves `layers` as they were; a
dropped one leaves everything as it is; with no watchdog armed or lingering only the holder
of the lock changes anything.

### `LlmRuntime`
Two kinds of actors drive the one `LlamaServerManager`: the operation that holds
`lifecycle_lock` (`Lifecycle`), and watchdog tasks (`Dogs`).  They run the same code to
stop and to spawn, so those are one set of actions with the actor as a parameter, and
`at[a]` says where it stands:

| `at` | code (`server_manager.rs` unless said otherwise) |
|---|---|
| `idle` | no operation; a watchdog between two swaps |
| `disarm` | the lock is held, `stop_watchdog` is next (`mod.rs:560`) |
| `stop`, `take`, `stopped` | `graceful_stop_with_timeout` and `kill` (529-561): SWAPPING and the token; taking and terminating the child; STOPPED |
| `launch` | the head of `spawn` (206-295), and the wait for memory before it |
| `port` | `discover_port` (303), the process owned by a local |
| `store` | `api_url` is set, the child lock is next (321) |
| `health` | `wait_for_health` (330) |
| `reap` | the health check failed; the stored child is taken and killed (331) |
| `done`, `fast`, `failed` | the operation is about to return: after a spawn or stop, by the fast path of `ensure_ready`, with an error |

| Variable | Code |
|---|---|
| `state`, `ngl`, `url`, `child` | the fields of the manager; `url` is the process whose port it names |
| `alive` | the server processes that live |
| `proc`, `goal` | locals of a spawn: its process and its layers |
| `op`, `spare`, `retried` | the operation, the layers `restart` and `ensure_ready` fall back to, and whether they did |
| `dog`, `fate` | `watchdog_handle`; of each task: `armed`, `aborted`, `doomed` (aborted, at an await that does not complete at once), `none` |
| `disturbed` | history: a watchdog took a step since the operation began |

What makes the component hard is in these rules:
- `abort` does not wait.  An aborted task goes on with the step it is in until it would wait
  (`Go`, `Waits`), and its locals are dropped later (`DogDropped`), at any time after.
- A dropped `ChildGuard` kills its process, so a spawn that fails or is dropped between
  making the process and storing the guard takes it along (`Held`, `Kill`).
- The mutex of `child` is held while the process taken out of it is terminated (the guard of
  `if let` lives to the end of its block), so `TakeChild` is one step and the mutex is not
  seen half-way by another actor.
- A spawn whose health check fails takes *whatever* is stored (`Reap`), and one that stores its
  guard drops whatever was (`Store`).
- `evict_to_cpu` and `restore_from_cpu` run within a tool call, whose time limit drops the
  future where it stands (`OpDropped`), which leaves SWAPPING or STARTING behind.
- Processes die at any time (`Crash`), and the idle monitor's `has_live_process` clears a dead
  child without the lock (`NoticeDeath`).

Abstracted: when the watchdog swaps (`DogSwaps` may happen at any poll; its budgets and dwell
times only make it rarer), the layers a spawn asks for (any the free memory may give), ports,
slot save and restore, health reports, events.  An operation that finds nothing to do, or is
refused by the restart cooldown, is a stuttering step.

`Server` is the refinement mapping to `ServerContract`: `layers` is `ngl` against `OnCpu`,
`stage` is where the operation stands, `lingering` that an aborted task is not dropped yet.

### `LlmStreams` (extends `LlmRuntime`)
Adds streamed answers: `stream[s]`, the manager's one `token`, and a history of the streams that
were open when a stop began.  `ChatStream` opens a stream when no swap is on and the server
answers; `Cut` is the biased `select!` that looks at the token before each chunk.

### `TurnConsumer` (`commands.rs`)
`stage[t]` is the desktop's task: `idle`, `prep` (the command prepares), `ready`, `live` (it
consumes events), `recover` (the server is restarted after an early transport error),
`closing`, `left` (the timeout: the consumer is gone, the run is not).  `run[t]` is 0, or
the first or the second run of the turn; `did[t]` what the first one sent.  `count` is the
atomic count of active turns. The idle monitor looks at the count, awaits, and releases:
`monitor` and `late` are what it saw and who was counted since.  A run sends its events in
order and each is consumed as it is sent.

### `TelegramPoll` (`platform/telegram.rs`, `commands.rs`)
`bat[b]` is where a poll loop stands, `batch[b]` and `last[b]` its locals; `bridge` is the
desktop's, `confirmed` what Telegram has been told to forget, `sent` what users wrote.  A new
start replaces the bridge while the old loop goes on with its batch.  A message is a turn
that may `ask`, a command answered `aside`, or text that brings the loop down (`poison`: a slice
inside a character, which with `panic = "abort"` ends the program).  `Dies` and `Relaunch` are
crash and restart.  `asks[b]` and `tried[b]` are the approval of its turn at the gateway and the
bridge's tries; that twenty tries of 10 ms outlast the step between the event and the entry is the
module's one assumption on time (the last try does not come before the entry, guard of `Confirm`).

### `VoiceTurns` (`voice/v2/pipeline.rs`, `playback.rs`, `commands.rs`)
`vat[t]` is where a turn stands, `Loop` the listening loop's own and `Speeches` those of
`voice_v2_speak`; `tokenSlot` the one stored token, `fsm` the one state, `queue[t]` and `drain[t]`
playback.  `force_abort` is a task (`aborter`) that cancels what is in the slot and then
silences playback.  `AudioEnds` says whether the owner of the audio ever closes its channel: the
tests do, the desktop does not, which is what run `stop_voice` is about.

### `ImageSwap` (`image/swap.rs`, `image/orchestrator.rs`) and `ComfySidecar` (`image/comfy.rs`)
`jat[j]` is where an image job stands between the mode's choice and its end, `layers` and
`up` (of `ServerContract`) what the model server is, `token[j]` the `EvictionToken`,
`restorer[j]` the task that a dropped token starts.  A call of the controller takes the lock,
goes through the steps of the contract and lets go.  Other turns' and commands' operations come
in whenever the lock is free, the watchdog while it is armed or lingers. `meddled[j]` is a
history variable: somebody else changed the server during the job's swap.
`excused` is a history variable of the ways, all in the code, in which a model stays on the
CPU.  `ComfySidecar` has every call of `ensure_running`, `start`, `stop` and `wait_ready` as
steps of a user, the mutex of the child where `stop` holds it, the pid lockfile, adoption of
a process of an earlier session, and processes that boot and exit by themselves.

### `LocalChat` (`llm/local.rs`, `infra/circuit_breaker.rs`)
Each atomic or mutex of the breaker is taken by itself, so `on_failure`, `on_success` and
`reset` are two or three steps each and fall between each other's.  `chat` has three
attempts, `chat_stream` one; the server is well, refuses, or answers with errors.  `since`
is whether the breaker has an instant to count the recovery time from; with one the recovery
may be over at any time.  `overtaken` and `belated` are history: the failing calls whose
count was cleared since they took it, and that one of them has opened the circuit.

### `GpuWatchdog` (`gpu_watchdog.rs`, `strategy.rs`)
The state machine of the watchdog with its reading, budgets per hour, cooldown and dwell times
counted in polls, in coarse units of memory.  `params` and `target` are `TargetParams`: layers,
and the context by the memory of its KV cache.  `TargetFor` is `calculate_target_params`
(strategy.rs, CUDA back end): `LayersFor` the layers the budget holds, `KvFor` what is left of it,
and `MinKv` (the cache of `min_context`) however little that is.  `Taken` is what a server with
these parameters takes of the card, projector included.  What other programs take is `load`, what
others do to the card and the server is counted in `changes`, bounded by `MaxChanges`.

### `McpServers` (`mcp/server_manager.rs`, `mcp/client.rs`)
`holder` is the operation that has the manager's mutex, `clients`, `configs` and `handlers`
what manager and registry hold, `proc[c]` a client's process, `file` the desktop's
configuration, `waiting` what commands that wait for the mutex have read from it, `want`
what a reconcile is bringing about.  `refresh_server_tools` is three steps, `Refresh` (the client's
list), `Unregister` and `Register` (the handlers): between them the registry has none of its tools.

### `MemoryIndex` (`memory/rag.rs`, `facts.rs`, `decay.rs`, `store.rs`, `vectors.rs`)
Each statement of SQLite and each access of the index is a step; `text[k]` is the row,
`vectors[k]` the vector, which is represented by the text it was computed from; `saved` is
the index on disk.  `Restart` is an exit, which saves, or a crash, which does not.

### `ServerInstall` (`llm/server_binary.rs`, `infra/download.rs`)
A file is the sequence of its blocks, each a block of some release.  A download resumes,
starts over, loses its connection, is retried, the program crashes, and a new release is
published behind the same address.

### `SidecarBridge` (`sidecar/bridge.rs`)
`rat[c]` is where a request stands: it waits for the lock of stdin, writes, is in the middle
of its line, waits for its answer.  A line has two pieces, the second with the newline, and
the pipe has room for `Room` of them.  The Python process reads piece by piece, answers in
order, and may end at any time.  `RequestDropped` is a caller's own limit. `torn` and
`spoiled` are history: the last line was left without its end, and whose line began behind
such a one.

### `MCServices`, `MCStores`
Seven and four of these modules side by side.  They share no state; a variable `focus`,
chosen at the start, says which one a behaviour exercises, and the others stand still.  The
union of their state spaces is explored, not the product.  Every `MCSpec` has each module's
own fairness with `focus` as a guard.

### `MCAgentTurns`, `MCImageSwap`, `MCLlmRuntime`, `MCLlmStreams` and the `*_proofs` modules
Values for the constants, and the proofs of section 5.

## 4. Runs

| Run | Instance | States | Shows |
|---|---|---|---|
| `services` | seven modules, side by side | 248,937 | the front ends and services, with overlaps, failures, restarts, and what must happen in the end |
| `stores` | four modules, side by side | 1,932,521 | what outlives a call: the ComfyUI process, rows and vectors, files, the pipe |
| `image_swap` | two jobs, one permit | 2,781,726 (up to symmetry) | the card between the model and two jobs, over the server's contract |
| `agent_turns` | one turn, seven calls, two rounds | 29,839 | the properties of the loop, for every kind of call |
| `agent_turns_pair` | two overlapping turns of one session, one round | 219,425 | authority, the gateway and the token map when turns overlap |
| `llm_runtime` | three process ids, one watchdog task, layers 0 and 1 | 309,945 | the properties of the runtime and the contract it keeps, for every overlap, failure, abort and crash |
| `cancel_reach` | the two overlapping turns | violation | `cancel_session` does not reach every turn of its session |
| `red_through_gateway` | one turn, one round | violation | the loop runs a RED call without asking |
| `ensure_ready` | as `llm_runtime` | violation | `ensure_ready` reports success while requests go nowhere |
| `stream_token` | two process ids, one stream | violation | a stream that begins after a swap is cut by it |
| `stop_voice` | the loop alone | violation | `stop_voice` does not always end the loop |
| `resume` | three blocks, two releases | violation | a complete partial file makes every later installation fail |

Of `services`, by the module a behaviour exercises: voice 100,665 states, desktop 40,470, MCP
45,762, watchdog 29,738, chat 17,305, Telegram 13,666, gateway 1,331.

Properties of the loop (`AgentTurns`):
- `Authorised`: a tool the loop starts was mounted, is not blacklisted, and if RED it was
  approved by the user in this turn, with these arguments, and that approval is the
  gateway's outcome.
- `NeverAskedAgain`: no second question for a call approved in this turn.
- `CancelStopsStarts`: with its token cancelled a turn starts no tool, although it may
  still ask, be approved and call the model.
- `FailureIsFinal`: a call that failed, was abandoned or never started is remembered as
  failed for the rest of the turn and does not run again.
- `OnlyFailedImagesUnlogged`: the loop leaves an executed call without its audit row only
  when it is an image that failed.
- `EveryTurnEnds`: a started turn reaches its end.  `TurnsRunDown` is its safety half: every
  step of the loop leaves the turn less to do (a later round, a call less to handle, or further
  with the call at hand, `Further`), whatever the model, the user and the tools do, so that
  its steps are bounded and what is left to fairness is that they are taken.
- `AgentInv` (with two turns): types; the gateway's map, channels and outcomes agree
  (`GatewayInv`); an entry of `active_cancels` belongs to a turn in flight of that session.

Properties of the runtime (`LlmRuntime`):
- `NoStrayServer`: each live process is the stored child or in the hands of one spawn, and
  nobody shares one.
- `OperationsDeliver`: an operation during which no watchdog takes a step ends as documented
  whatever it found (STOPPED and nothing stored, or READY with its own process at the
  address, the layers it asked for and no other process stored), or fails with nothing stored.
- `OperationsEnd`: the lock is released again.  `OperationsRunDown` is its safety half: until
  then each step of the operation takes it further (`Order`), but for one second attempt,
  and nobody else moves it.
- `RuntimeKeepsContract`: the runtime implements `ServerContract`, for every overlap of
  stops, spawns, aborts, dropped operations and crashes.

`OperationsDeliver` leaves out operations that a watchdog takes part in, because for them it
is false: `EnsureReadyDelivers` in run `ensure_ready` is the counterexample with the only
operation that lets the watchdog run, and an abort that is still under way can do the same to the
others.

Properties of `services`:
- `GatewayKeepsContract` (`HitlGateway`): the gateway implements `ApprovalContract`, fairness included, for every order of answers,
  timeouts and the emergency stop.
- `RetryIsClean` (`TurnConsumer`): a turn is run again only if its first run showed no text
  and no tool of it was seen to succeed (one whose event had not come yet runs again).  `ReleaseSparesTurns`: the idle monitor takes the server from
  no run except one whose consumer gave it up and one counted after the monitor had looked.
  `TurnsFinish`: no chat or image turn is counted for ever, whatever its run does; a voice
  turn has no idle timeout.
- `NothingLost`, `NoLoopRepeats` (`TelegramPoll`): what Telegram may forget has been seen
  to, over crashes, stops and two loops; one loop takes no update twice (two loops may).
  `MessagesServed`: every message that is not behind, or itself, one that ends the program
  is reached again and again.
- `CircuitCloses` (`LocalChat`): once the server stays well the breaker does not stay open, although
  its fields are written one by one and a reset may meet a failure half-way.  `OpenIsFull`: an
  open or half open circuit has a full count, so that the next failure opens it again,
  unless somebody is between the two writes that close it or it was opened upon a count
  cleared meanwhile.
- `ServersAsConfigured`, `ToolsReachTheirServer` (`McpServers`): outside a reconcile, a
  client in place was launched as the manager's configuration says; a tool of a running
  server calls the client in place, but for the moment of a refresh in which the tools are not
  registered.  `DeadServersLeave`: a dead client does not stay in
  place.
- `GateHolds` (`VoiceTurns`): while a turn speaks that was not cancelled and ran alone, the
  state that gates the microphone says so; turns beside each other do overwrite it
  (`crossed`). `AbortSettles`: an abort ends the turn that was newest when it came, and
  empties its queue.
- `LayersSettle`, `PressureIsMet` (`GpuWatchdog`): once others leave the card alone the
  layers come to rest (given a margin of at least the yield threshold and the KV cache of
  `min_context`, section 6); pressure
  does not last with a server on the card.  `BudgetsHold`: within an hour one watchdog task spends
  a bucket at most as often as configured (a new task starts with budgets of its own), although a scale-up looks at its budget when its dwell begins
  and spends it when the dwell ends.

Properties of `stores` and `image_swap`:
- `NoStrayComfy` (`ComfySidecar`): each live ComfyUI process is the stored one, in the hands
  of one call, or left from an earlier session.  `StartingIsSomeones`: STARTING has a call
  that starts, unless a start was dropped or failed to spawn.  `ReadyServes`: READY has
  something that answers or a newer start under way, unless the process died by itself, a
  stop crossed another call or a start was dropped.
- `NotStranded` (`ImageSwap`): a model on the CPU has a job that swaps or owes its restore,
  unless `excused`: a job was dropped at two named places, a retry or restore failed, or
  memory did not suffice.  `CardIsFree`: a job that draws with a token has the model off the
  card, unless another job, a turn or the watchdog moved it meanwhile.  `HangsNeedCompany`:
  a hang is counted only for a job on its second attempt during whose swap somebody else moved
  the model, since the retry of a job left alone skips the barrier.
- `VectorsDescribeRows` (`MemoryIndex`): a vector under the id of a row is the vector of its
  text, over overlapping ingests, deletions, prunings, exits and crashes.  A row may be
  without a vector.
- `PartIsPrefix` (`ServerInstall`): what has been downloaded is the beginning of a file of
  the archive's blocks in order.  The blocks may be of two releases.
- `RequestsInTransit` (`SidecarBridge`): while Python lives, what a caller waits for is in
  the pipe, in Python's hands or on its way back, unless it was written behind a torn line.

The exceptions in these properties are behaviours of the code, found by running TLC without them.

**Bounds.**  `MaxRounds` (2, and 1 with two turns) stands for the code's larger limit;
two rounds are what it takes for a call to meet the approvals, failures, budget and
Colab state that an earlier round left, and a third round meets no new kind of state.
`MaxAsks` caps the questions of a turn at more than its rounds can ask (two rounds of at
most two calls give at most four), so its guard never disables `AskUser`; with two turns
every list has one call and there is one round, hence one question.  `DeepProposals` has
a round for each kind of call: one that runs freely and names a file, the same RED call
twice, an image, a Colab cell that needs its connection, a blacklisted call followed by
one that is not mounted.  Rounds of different kinds combine over the two rounds.
Three requests at the gateway let one be answered, one time out and one be drained at
the same time.  Three process ids are the one an address was left to and the two that
overlapping spawns make; a dead one nobody refers to is used again, so chains of swaps have
no bound.  One watchdog task: arming waits until the old one is gone, which is a bound of the
model (the code would have two, one of them aborted); the proofs have no such bound.  Layers 0 and
1 are on the CPU and on the GPU.  Symmetry is used in `image_swap` only (`Alike`: the two jobs),
where the properties are invariants and an action property and mention no job by name.

In `services`, `stores` and `image_swap` each kind of actor occurs as often as the hazards need:
- `TurnConsumer` two turns, one to hold the count while the other ends or is given up;
- `TelegramPoll` two loops (the old one with a batch in hand and the new one), two updates
  in batches of at most `Limit`, `Tries` 2 for the code's twenty (one too early and one in
  time), one upset (a crash or stop) after which everything has to be done again;
- `HitlGateway` three requests: one answered, one timing out, one drained;
- `LocalChat` two callers, `Threshold` 2 so that a success can meet a half-full count, the
  code's three `Attempts`, `MaxTurns` changes of the server's health;
- `McpServers` one server (servers only share the mutex), three clients (in place, being
  started, held by an old handler), two launch configurations to edit between, two failed
  pings for the code's three, and two faults and edits, so that each can happen during the
  handling of the other;
- `VoiceTurns` the loop and one spoken turn (a second speech is the same code as the first,
  and one that is over is used again), one slot in a playback channel, so that it is full
  and empty;
- `GpuWatchdog` ten units of memory, three layers, a context of one or two units and a projector
  from two layers on, so that the card holds all, some or none of it, with thresholds and dwell
  times in the order of the defaults (emergency below yield below recover) and `Margin` = `Yield` +
  `MinKv`, the least with which the layers settle; two changes by
  others, so that memory can come back and go again; one swap per hour and bucket, which
  exhausts a budget at once;
- `ComfySidecar` two jobs and a defragmentation, three processes (two crossing starts and
  the one of an earlier session);
- `ImageSwap` two jobs, one that swaps and one that comes between, one permit, two hangs to
  degradation;
- `MemoryIndex` two workers, two documents of one file, two texts, one or two ids per table,
  so that ids run out;
- `ServerInstall` three blocks (nothing, part and all of a file), two retries, two releases;
- `SidecarBridge` three callers (one writing, one waiting for the lock, one dropped), `Room`
  3 so that one and a half lines fit, four requests, of which one comes after a torn line
  and one after that.

**Fairness.**  `FairSpec` of `AgentTurns` has weak fairness of each turn's steps and of the
gateway's requester.  The code bounds every await of a turn: the model request and the wait
for a swap (120 s each, `llm/local.rs`), tools (`run_isolated` with a time limit per tool,
5746-5762), the auto-routed call (30 s, 6080), MCP requests (`mcp/client.rs`), approvals (30
s, `hitl.rs`).  Nothing is assumed of the user, of `cancel_session`, or of a detached tool
task.  For the runtime `Fairness` is of the lifecycle operation's own steps (termination,
port, health and memory each have a deadline in the code) and of the drop of an aborted
task, which the executor owes; nothing is assumed of the server or of the watchdog.  Of the
others, each weakly fair:
- `TurnConsumer`: the desktop's own steps, which include its idle timeout; nothing of the run.
- `TelegramPoll`: the steps of each loop (the request has a timeout, pauses end, the turn of
  a message ends by `EveryTurnEnds`) and the relaunch of a program that crashed, which is
  the user's: without it nothing can be promised.  Nothing of the network: upsets are
  bounded by `MaxUpsets`.
- `HitlGateway`: the requester's own steps.
- `LocalChat`: the steps of a request (it has a timeout), and that users go on asking, since
  a breaker that nobody asks is not expected to close.
- `McpServers`: the steps of who holds the mutex (starts and stops of a client have limits)
  and the health cycle, a loop with an interval.
- `VoiceTurns`: the tasks of a turn, the draining of its queue (a chunk is played to its
  end), the loop, the abort's steps. Not the model's next sentence, nor the end of the
  audio.
- `GpuWatchdog`: polling and the passing of an hour.
- `ComfySidecar`, `ImageSwap`, `MemoryIndex`, `ServerInstall`, `SidecarBridge` have safety
  properties only.

**Deadlock** is not checked in these runs, since all these systems may come to rest: the
runtime never has to take a step between operations, and when all turns have ended, all
requests are settled, all messages are served or all bounded faults have happened, the
modelled program waits for its user.  The liveness properties say that it does not stop
earlier.

## 5. Proofs

All are checked by TLAPS with the SMT, Zenon and PTL back ends, for arbitrary sets of turns,
sessions, calls, requests, processes, callers, documents and so on (finite where a
constant's assumption says so), and for any bounds.  Every theorem is `Spec => []Inv`,
`Spec => [][A]_vars`, or `Spec => Abstract` under a refinement mapping (but `TargetsLeaveYield`,
which is about `calculate_target_params` alone), by an inductive invariant: `Init` implies it, each action preserves it
(one lemma per action, one step per conjunct the action can disturb), and it implies the
property.

| Module | Properties proved | Inductive invariant, and why the property alone is not inductive |
|---|---|---|
| `HitlGateway_proofs` | `GatewayInv`, and the safety half of the refinement (`GatewayKeepsContractSafety`) | `GatewayInv` itself |
| `AgentTurns_proofs` | `AgentInv`, `Authorised`, `CancelStopsStarts`, `FailureIsFinal`, `OnlyFailedImagesUnlogged`, `NeverAskedAgain`, `TurnsRunDown`, and the safety half of `GatewayKeepsContract` for the turns (`TurnsKeepContract`) | `IInv`, with `LogInv` and `AskInv`, below |
| `LlmRuntime_proofs` | `RuntimeInv`, `NoStrayServer`, `OperationsDeliver`, `OperationsRunDown`, `RuntimeKeepsContract` | `RuntimeIInv`, with `GoalInv`, below |
| `TelegramPoll_proofs` | `NothingLost`, `NoLoopRepeats`, `AnswerLands` | a loop has seen to every update up to its `last`, but for the turn it is in, and to every one before its batch (`LoopOK`), so whatever offset it sends next is safe, also when an older loop sends it; as long as an approval has not been answered there are tries left (`Tireless`) |
| `McpServers_proofs` | `ServersAsConfigured`, `ToolsReachTheirServer` | no two servers share a client (`OwnClients`); while a boot or a reconcile goes on, what it has still to stop or start, and that everything else is as it wants it (`Asked`) |
| `MemoryIndex_proofs` | `VectorsDescribeRows` | nothing is stored under an id not handed out yet (`Untouched`: the code's AUTOINCREMENT never gives one again); the index in memory, the index on disk (`Agrees`) and what a call is about to put in (`CallsAgree`) agree with the row of the id as long as it exists |
| `Stores_proofs` | `PartIsPrefix`, `NoStrayComfy`, `StartingIsSomeones`, `ReadyServes`, `NotStranded`, `CardIsFree`, `HangsNeedCompany`, `RequestsInTransit` | one per component, below |
| `Desktop_proofs` | `RetryIsClean`, `ReleaseSparesTurns`, `GateHolds`, `BudgetsHold`, `OpenIsFull`, and what a scale-up leaves free (`TargetsLeaveYield`) | `Counts` (the count is the number of counted turns), `Watched` (while the monitor is sure every counted turn is late), `Traces` (what the first run did shows in the consumer's locals); `Alone` (a turn that nobody crossed is the only one, the slot has its token, and an abort going on has cancelled it); while a scale-up dwells its bucket still has the budget that was seen (`BudgetSeen`); a call about to open the circuit has a full count or is overtaken (`FullAtTrip`) |

`GatewayKeepsContractSafety`: each gateway step maps to `Ask`, `Consent`, `Close` or a
stutter.  It rests on `GatewayInv`: that what is in the channel or returned is the user's
word is what makes `Receive` a legal `Close`.

Why `RuntimeIInv`: `OperationsDeliver` speaks of the end of an operation.  `Progress` says what
holds on the way while nobody disturbs it: nothing is stored from the kill to the store, the
state is STARTING while the port is looked for, the address is the spawn's own once the port
is known, and what is stored during the health check is its own process or nothing (when it
died and that was noticed).  `NoStrayServer` needs that a spawn past the launch knows its process
(`SpawnInv`): otherwise an actor could hold the value that stands for no process.  A new
process is no stray because its id is used by nobody (`Unused`).  The steps of watchdogs need no
case of their own: they set `disturbed` or leave everything `Progress` speaks of alone.

Why `IInv`: `Authorised` speaks of tools that were started, and `Start` has no test of tier
or approval in its guard.  What it relies on was established several steps before: past the
policy the current call is not blacklisted and, if RED, is in `approved_this_turn`
(`PointInv`); every member of that set is backed by a question of this turn with the outcome
`Approved` (`ApprovalsInv`); an outcome `Approved` is the user's consent (`GatewayInv`, in
`AgentInv`).  In turn `ApprovalsInv` survives `Park`, the only step that changes the subject
of a question, because the question it submits is still `new` at the gateway and so cannot
be the one an approval rests on.  `OnlyFailedImagesUnlogged` adds that past the policy a RED
call has its row (`RowInv`, in `LogInv`), and `NeverAskedAgain` that the question being put
is about a call not approved, that a question answered with yes is remembered, and hence
that no later one has its subject (`QuestionsInv`, `AskedOnce`, in `AskInv`).

`TurnsKeepContract`: a turn touches the gateway only in `Park`, whose request is one of
`Requests` because the turn has asked at least once (`PointInv`) and at most `MaxAsks` times; so
each step of the loop is a gateway step or leaves the gateway alone (`StepsUseGateway`), and
the gateway's own lemma does the rest.

`TurnsDoRunDown` and `OperationsDoRunDown` are the safety halves of `EveryTurnEnds` and
`OperationsEnd`: the first needs the types and lengths of the lists (a call is taken off a list
that is not empty, `PointInv`), the second that a step of a watchdog is not the operation's
(`DogLeavesOperation`).

`RuntimeRefinesContract` is a full refinement, since `ServerContract` states no fairness.  Each
step of the runtime maps to a step of the contract or to a stutter: the operation's own
`StopServer` to `TakeDown`, `Healthy` to `Succeed`, a spawn that fails for good to `Fail`, what a
watchdog does to `WatchdogActs`, the last dropped task to `Fade`.  `RuntimeIInv` is not enough:
that an eviction succeeds on the CPU is decided at `Launch`, several steps before the spawn is
healthy (`GoalInv`).  With it `NotStranded`, `CardIsFree` and `HangsNeedCompany`, proved over
the contract, do not rest on a promise of the runtime that is only stated.

The layout: lemmas for the steps that only touch a turn's locals (`LocalStepInv`,
`OutOfCallInv`, `WithinCallInv`) carry the parts of the invariant such steps cannot
disturb, so each action's own lemma argues only about the point it moves to.

`Stores_proofs` has four invariants.
- `InstallInv`: what a response still holds continues what the partial file has
  (`Continues`), which `PartIsPrefix` does not mention.
- `ComfyInv`: a process runs that is stored, in a call's hands or of an earlier session
  (`Held`), where a call stands tells what it holds (`Points`), and a stop that crossed
  nobody is alone and the state STOPPED (`LoneStop`).
- `SwapInv`: the holder of the lock and the contract's operation agree (`Locked`), the card
  is clear from a job's eviction to its restore unless somebody came between (`Clear`), a job
  that evicts a second time had company (`Company`), and a model on the CPU during an
  eviction not yet done, or at the end of a restore, is excused (`Excused`).
- `BridgeInv`: one caller writes at a time (`Exclusive`), before Python starts there is
  nothing (`NotYet`), Python's unfinished line has heads only (`OnlyHeads`), and that line
  and the pipe are one stream in which a line that began clean comes out whole (`Stream`).

**Assumptions.**  Constants are constrained by the named `ASSUME`s of their modules, which
TLC evaluates in the runs: that markers such as `NoProc`, `NoBot` or `NoText` are not in the
sets they stand beside, that limits which the code has as positive constants are positive,
that jobs and defragmentations are different users (`ComfyConstants`), that request ids are
drawn per turn (`TurnRequests`), that images are neither Colab cells nor the call that opens
the connection, and that proposals are non-empty lists (`TurnConstants`).  Time enters in
two places: twenty tries outlast the step between an approval's event and its entry (the
guard of `Confirm`), and in the watchdog's instance `Margin` is at least
`Yield` plus `MinKv`, which with the shipped profile holds on tier Lite only; without it
`LayersSettle` is false (section 6).  `TargetsLeaveYield` is the part of it that needs no time: with
such a margin, what a scale-up takes leaves the yield threshold free.

**Only model-checked**: what is out of the prover's reach, that is liveness under fairness
(`EveryTurnEnds`, `OperationsEnd`, `TurnsFinish`, `MessagesServed`, `CircuitCloses`,
`DeadServersLeave`, `AbortSettles`, `LayersSettle`, `PressureIsMet` and the fairness half of
`GatewayKeepsContract`).  Every safety property that a passing run checks is proved.  That a
turn's and an operation's steps are finitely many follows from the two run-down theorems by
induction over their measures, which the provers cannot do; the theorems are the induction's
step.

## 6. Differences between the documentation and the code

- `cancel_session` says "Cancel all in-flight work for `session_id`"
  (`loop_engine.rs:4589`).  There is one token per session; a second turn replaces it and
  the first one to end removes it.  Run `cancel_reach`: two turns begin, and cancelling
  the session reaches one.
- The gateway's doc says "All RED actions pass through here" (`hitl.rs:35`).  Before a
  Colab cell the loop runs `mcp_colab-mcp_open_colab_browser_connection` itself, without
  policy, approval or audit row; by its name the policy takes it for RED.  Run
  `red_through_gateway`.
- The project's README promises that every action is logged.  A failed `generate_image`
  ends the turn before its row is written.  `OnlyFailedImagesUnlogged` shows that among
  the calls that go through the loop it is the only one.
- A comment (`loop_engine.rs:5765`) says that cancelling aborts the entire turn at once.
  It makes the running call fail and detaches its task; the turn goes on to its next
  call or round, where no tool starts any more (`CancelStopsStarts`).
- `ensure_ready` is to "Ensure llama-server is running and healthy" (`mod.rs:384`).  Alone among the
  operations it stops and spawns without stopping the watchdog, whose swap takes no lock.  Run
  `ensure_ready`: the two spawns overlap, and it returns success with an address that is not the
  stored process's.  The next `ensure_ready` sees a live process and READY and returns at once.
- The manager's token is "cancelled during swap to abort in-flight streams"
  (`server_manager.rs:76`).  It is made once and never renewed, so after the first stop every
  stream ends before its first chunk.  Run `stream_token`.
- "polls for messages and routes them through the agent loop" (`platform/telegram.rs:1`).
  The loop logs the first hundred bytes of a text by slicing it (391); if that cuts a
  character the slice panics, and the release build ends on a panic.  The update is fetched
  again after every relaunch: the exception (`Sound`) of `MessagesServed`.
- "HALF_OPEN → CLOSED on success, OPEN on failure" (`infra/circuit_breaker.rs:17`).  Count
  and state are written apart: a success or a reset between a failure's count and its opening
  leaves the circuit open with nothing counted, and a failure in its half open state leaves
  it half open: the exception `belated` of `OpenIsFull`.
- "`stop_voice` signals it to exit via `voice_active = false` + `force_abort`"
  (`commands.rs:1953`).  The loop stores its token in `run_turn`, after it has looked at the flag
  and woken the pipeline.  Run `stop_voice`: the stop falls in between, `force_abort` finds no turn's
  token to cancel, and the loop begins its turn and waits for audio that nobody sends.  With a
  spoken turn (`Speeches = {s1}`) the abort may also find only that turn's token.
- "Resumable downloads" (`infra/download.rs:4`).  A partial file that is complete makes the
  server answer 416, in every attempt; nothing removes it.  Run `resume`.
- "We still need to confirm the VRAM barrier" (`image/swap.rs:163`).  With the model on the
  CPU the barrier is skipped, so the retry after a barrier timeout draws without it
  (`HangsNeedCompany`).
- "VRAM must be above recover for this long before scale-up" (`config/default.toml:165`).
  In Recovering the dwell is tested before the memory (`gpu_watchdog.rs:416`), so a server
  is scaled up at the poll at which memory has just fallen.
- "Anti-thrash guarantees" (`gpu_watchdog.rs:24`).  `calculate_target_params` grants `min_context`
  even when the layers have used up the budget (`strategy.rs:118-125`), so a server that is scaled
  up on a card that holds the projector but not all layers takes up to 400 MB of the margin, with the
  shipped profile, for its KV cache.  What it leaves can be below the yield threshold of 512 MB
  unless the margin is at least 912 MB, and of the margins of `tune_for_tier` (`config.rs:529-537`:
  1024, 768, 512, 256) only that of Lite is.  The server is scaled down to what fits beside itself,
  the card is free again, it is scaled up, and so on, as often as the budgets allow.  With
  `Margin = 2` (= `Yield`) in `Services.cfg` TLC finds the cycle against `LayersSettle`.
- "Health monitoring with auto-restart on crash" (`mcp/server_manager.rs:7`).  A restart
  that fails leaves the server out of the map the health cycle looks at: it is not tried
  again (`DeadServersLeave` holds because it has left).
- The sidecar's health loop, which restarts it after failed pings (`sidecar/health.rs:26`),
  has no caller.
- Hard barge-in (`voice/v2/pipeline.rs:5`): the watcher is started by tests only.

Further things the models show, about which no document says otherwise:
- ComfyUI's READY survives a crash of its process, and its STARTING survives a spawn error
  or a dropped start, after which other calls wait for a start that nobody makes (the
  exceptions of `ReadyServes` and `StartingIsSomeones`).
- The vector index is written when it is dropped: a crash loses what was added since, and
  the rows stay.
- A caller of the sidecar that is dropped within its line spoils the next line, and a
  dropped or timed-out caller's entry stays in the map of pending ids unless the answer
  comes.  The write itself has no limit, and it holds the lock.
- `server_binary.rs:218` copies the binary into place; a crash in between leaves a file that
  exists and is not complete.

## 7. What is not modelled

The modules cover the parts in which several actors, failures or restarts meet.  That is a
small share of the repository's lines: most of it is tools, commands, providers and views,
each of which does one thing to the machine or to a table and whose result the models choose
freely.

- **Tools** (`tools/`): handlers that act on files, processes, packages, mail and so on.
  The loop sees success or failure.  A model of what a handler does to the machine would be
  a model of the machine.
- **Text and numbers**: prompts, parsers, intent grammars, embeddings, semantic routing,
  memory scoring and decay, tier tables, workflow graphs, document processors, the policy's
  table.  They compute values that the models choose freely or take as constants.
- **Inbox** (`platform/inbox/`): a persistent queue, a broker and a rate limiter that no
  binary constructs.  There is no running program whose behaviour a model of it would show.
- **Automation**: conditions and failure branches of workflow steps are stored and not
  evaluated; what is left is a table and a timer.
- **Audit chain, rollback store, PIN guard**: single statements and files.  That a snapshot
  is named by the second, so that two of one second share a directory, is plain from the
  line; the PIN guard is constructed by tests only.
- **Most desktop commands**: a read or a write of a setting, file or table.  Those that
  start, stop or cancel something are in `TurnConsumer`, `TelegramPoll`, `McpServers`,
  `VoiceTurns` and `AgentTurns`.
- **HTTP server, plugins, configuration, logging, probes, Python modules, web UI**: thin
  fronts, stateless workers, I/O.
- **Voice v1**, audio, wake word, recognition and synthesis; **cloud** model and image
  requests: one request and its answer.
- **Wall-clock values**: a timer is a step that may happen at any time; the watchdog counts polls.
- The product of the components: each sees the others as what they promise (section 2).

In `AgentTurns`, an ended turn is not reused: a session's next message is another turn, and
the sets of turns are as large as the instance says.  A turn that panics is not modelled;
the code has no handler for it (the release build ends the program), and in a debug build
`CancelGuard` runs as in `End`.
