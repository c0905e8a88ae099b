# A TLA+ verification of free-claude-code

The program is a local proxy: it accepts Anthropic- and OpenAI-style requests of
coding agents, routes each to one of some twenty-five model providers, converts the
protocols, and streams the answer back; around it stand a command line, a
messaging front end and an admin page. It is one asyncio process, with a few
helper threads and child processes. This directory holds a TLA+ model of the parts
whose correctness depends on interleaving, cancellation, failure or the splitting
of data, the TLC runs that check it on small instances, and TLAPS proofs of its main
safety properties for every instance. Paths below are relative to
`src/src/free_claude_code/` unless they start with `src/`.

`PROJECT.json` lists the components, the runs, the mutation each property was
tested with, the source lines of each definition, the hazards and the theorems.

## 1. Inventory

The asyncio loop is single-threaded, so two tasks interleave only at an `await`
that suspends. Most hard behaviour comes from one fact: **a task can be cancelled
at every such await**, by a client that disconnects, by a timeout, by shutdown or
by a user's "stop", while shared state is half-way through a change. Three things
do run in threads: the timers of the session file, file access behind
`asyncio.to_thread`, and the server's supervisor under the desktop's tray.

### Providers (11 300 lines)

| Part | State | Operations | What is hard, and what makes it correct | Module |
|---|---|---|---|---|
| Admission controller, `providers/admission.py` | recovery episode (leader, probe, backoff, outcome, waiters), bulkhead permits, attempts used | `open_attempt`, `accept`, `retry`, `reject`, `correct`, `aclose`, backoff timers | Late results of attempts begun before an outage; a leader that fails, succeeds, exhausts its budget or is cancelled; a permit handed to a task cancelled before it runs. Never too many permits, none lost, no lost wake-up, one probe, one verdict for coalesced executions. | `ProviderAdmission` |
| Strict sliding window, `core/rate_limit.py` | deque of admission times, a lock | `acquire`, `acquire_if` | Conditions that take time, sleepers overtaken or cancelled. Never more than the limit in *any* window, no sleep without cause. | `SlidingWindow` |
| Executions, `providers/http.py`, `openai_chat/`, `openai_codex/` | phase of each retry loop, its attempt, its stream | unary retry, chat stream with early retry and mid-stream recovery, Codex with 401 renewal | The order of the `finally` blocks against cancellation. Every permit back, no dead leader, every execution ends. | `ProviderRunners` |
| The stream they make | block ledger, held-back events, tool calls, text parsers | delta by delta, retry unseen, repair, continue | What is held back, thrown away or repaired; a client must see one legal stream whatever was retried. | `ProviderStream` |
| Corrections and failure policy | learned output caps and vocabularies, per request its body | refuse, classify, correct, try again | Tables that must agree; limits learned by one request used by another. | `RequestCorrections` |
| Connected account (Codex) | tokens in memory and in a shared file, two locks, a login task | login, cancel, `access()`, refresh, disconnect, status poll | Worker threads that outlive their cancelled task, another process, a poll that is late. | `ConnectedAccounts` |
| Discovery and model cache, `providers/runtime/`, `providers/model_listing.py`, with the catalogs made of it | listings by provider, the scope of providers, the catalog file of Codex | warm up, refresh, replace, account change, check, list | Listings that arrive after their provider is out of scope, answers in pages, writes that fail. What is offered can be asked for. | `ModelNames`, `ModelCatalog` |
| Adapters | none of their own | shape requests | Sequential data. | — (parts in `TextParsers`, `RequestCorrections`) |

### API, application layer and core (13 300 lines)

| Part | State | Operations | What is hard, and what makes it correct | Module |
|---|---|---|---|---|
| Request lifetime and response bodies, `api/request_lifetime.py`, `response_streams.py`; fallback, `application/execution.py` | receiver and application task, lease, candidate, deadline, committed flag | run until done or disconnected, pull with a deadline, fall back, close the body, release | Disconnect at the moment of completion, a deadline against a late event, a body closed unstarted. One model answers; the lease goes back once, behind the body. | `InferenceRequest` |
| Responses streams, `core/openai_responses/` | output items, provisional error, terminal event | Anthropic event to Responses events | The input may end or fail anywhere. One terminal event, items in order and finished. | `ResponsesAssembly` |
| Histories, `core/anthropic/conversion.py` | ledger of pending calls and held-back messages | message by message | Results late, split or mixed with text. Each call answered behind it, nothing lost. | `ChatHistory` |
| Text parsers, `core/anthropic/thinking.py`, `tools.py`, `nvidia_nim/native_tool_stream.py` | possible tag at the end of a chunk | feed, flush | A tag cut by chunks. The result does not depend on the chunks. | `TextParsers` |
| Routing and reasoning policy, `application/routing.py`, `core/` | settings only | name to model, fallbacks and reasoning | Names with prefixes, tiers and aliases overlap. An offered id means its model. | `ModelNames` |
| Local answers, `api/web_tools/`, `api/optimization_handlers.py` | one request: its provider's hidden decision, the local answer, a fetch | refuse, decide, search, fetch, answer at once, pass on | A tool the provider must not see, redirects, a client that leaves. One answer, whole, from an allowed place. | `WebTools` |
| Admin routes, tokens, schemas | settings only | sequential handlers | Data. | — |

### Runtime, configuration, command line (10 800 lines)

| Part | State | Operations | What is hard, and what makes it correct | Module |
|---|---|---|---|---|
| Provider generations, `runtime/provider_manager.py` | current, retired, unpublished generations, leases, cleanup and refresh tasks, catalog | `acquire`, `release`, `replace`, `refresh`, account change, `close` | The last release against replacement and close, failing and cancelled cleanups. No use after close, one close, none lost. | `ProviderGenerations` |
| Application, `runtime/application.py`, `messaging/platforms/discord.py` | what it holds, its phase, the platform, handlers, turns | start, ordered and resumable shutdown | A step that fails, times out or is cancelled. Nothing is closed under its user. | `ServerLifecycle` |
| Supervisor and desktop, `cli/commands.py`, `cli/desktop.py` | worker thread, server, restart generation | run, restart, stop, relaunch | A request while no server is published. It reaches the server it is for. | `ServerSupervisor` |
| Settings, `config/`, admin apply | managed file, older files, environment, live settings, pending fields | consolidate, load, apply | Precedence, blanks, masked values, a restart outstanding. What was in effect stays. | `ManagedConfig` |
| Launchers, `cli/launchers/` | one launch: its arguments, its temporary files, its child | scan, refuse or route, start, wait, Ctrl-C | They scan command lines they do not own. The route once, or the arguments untouched. | `ClientLaunch` |

### Messaging (9 300 lines)

| Part | State | Operations | What is hard, and what makes it correct | Module |
|---|---|---|---|---|
| Message trees, `messaging/trees/`, with intake, workflow, node runner | per tree: graph, queue, claim, task; index; snapshots | admit, claim, run, finish, stop, clear, restore | Late finishes, tasks cancelled before their body, detached trees, a command that raises. | `MessageTrees` |
| One turn, `messaging/node_runner.py`, `transcript/`, `ui_updates.py` | transcript segments, subagents, throttled status | event, update, end | Parallel subagents, an end while an update is throttled. The end is told as recorded. | `NodeTurn` |
| Rate limiter, `messaging/limiter.py` | queue by key, futures, pause, worker | enqueue with compaction, work, retry, shutdown | Inherited futures, operations that raise `CancelledError`. One current answer for each caller. | `MessageLimiter` |
| Voice, `messaging/voice.py`, `platforms/voice_flow.py` | registry of pending notes, hand-over task | reserve, transcribe, hand over, cancel | Cancelled while handed over. Delivered or cancelled, never both. | `PendingVoices` |
| Session file, `messaging/session/` | state, dirty generation, timer threads, file | debounced save, flush, clear, crash | Two threads write; an older snapshot never replaces a newer one. | `SessionPersistence` |
| Chat messages, `workflow.py`, `managed_message_log.py` | messages in the chat, the log of their ids | post, record, delete, `/clear` | Posted first and recorded later. Nothing is orphaned. | `ChatMessages` |
| Managed CLI sessions, `cli/managed/` | pool with two id tables, process and locks of each session | get, start, register, stop, `stop_all` | Cancellation at every await of a start or a stop. No process without an owner. | `ManagedSessions` |

The rest: core utilities, the hook guard's rules (no state), deployment files, scripts, smoke and unit
tests.

### How they interact

A request takes a **lease** on the current provider generation, its candidates are
tried in order, each candidate runs one **execution** of an adapter, which opens
**attempts** at the admission controller of that provider (shared by every execution
of the same runtime), which admits through the **sliding window** and the
**bulkhead**; the execution turns what upstream sends into Anthropic events, which the
executor passes on and the Responses adapter converts once more. The lease is given
back when the response body is closed. An admin apply changes the settings file and
builds a new generation or asks the supervisor for a restart; shutdown closes the
front ends, then the manager, then the accounts. A chat message becomes a node of a
tree, which runs a managed CLI session, whose requests come back through the same API;
its status is sent through the limiter and recorded in the log and the session file.

In TLA+: `ProviderRunners` composes with `ProviderAdmission` and refines its
interface; `ProviderStream` and `ResponsesAssembly` refine the contracts their
consumers rely on (`AnthropicStream`, `ResponsesStream`), which is also all that
`ResponsesAssembly` assumes of its input. The other parts meet only at interfaces one of
which is modelled as free choices: a lease that may be released at any time, a stream that may fail anywhere,
a delivery that may fail. They are checked side by side, not as a product (section 4).

## 2. Plan

Done: every module named above, with proofs about seventeen of them (section 5).
What is left of a queue or a log when some of its elements leave it, `MessageTrees` and `ChatMessages` take
from a module of their own, `Queues`, with its lemmas in `Queues_proofs`.

Next to prove: `ProviderStream` against `AnthropicStream`, with `ToolCallsAreUsable`, for streams of any length; then `LaunchesAreOwned`.

Not modelled so far and worth a module: the conversion of a Responses request's input, the request shaping of
the adapters.

## 3. The models and the code

Conventions. Code between two awaits that can suspend is one action, with every
call it makes. A suspended task is a value of a state variable (`stage`, `phase`,
`app`, `owner`, `closer`); what may happen to it there is one action per outcome:
resumption, failure, cancellation. Names follow the source. Definitions named
`<definition>_<word>` are not part of the model: each is a plausible mistake in the
definition that follows it, and shows that a property would notice it. Variables marked
*history* are not in the code; they let a property speak of the past.

### ProviderAdmission (`providers/admission.py`)

A *session* is a `ProviderRetrySession` with the task that runs it.

| Variable | Code |
|---|---|
| `episode` | `_recovery_episode`; its `ready` is "`ready_at` has passed", its `cooldown` is `terminal_until`: unset, in the future, in the past |
| `nextGen` | `_next_generation` |
| `slots`, `queue` | permits of `_concurrency_sem` with the attempt that holds each, and its FIFO of waiters |
| `stage` | where in `open_attempt`, `_wait_for_gate` or `aclose` the session's task is |
| `permit` | the `_GatePermit` the session got last |
| `started`, `doomed` | `_attempts_started`, `_terminal_error is not None` |
| `attempt` | the state of the session's latest `ProviderAttempt` |

`open_attempt` is `OpenAttempt`, then one action per branch of `_wait_for_gate`
(`GateRefuses`, `GatePasses`, `GateReopens`, `GateLeads`, `GateWaits`), `LeaderWakes`
after the backoff sleep, `WindowRejects`/`WindowAdmits`/`WindowQueues` for the rate
window and the fast path of the semaphore, `SlotAdmits`/`SlotRejects` for a task the
semaphore chose, and one cancellation per await: `CancelWaiter`, `CancelLeader`,
`CancelInWindow`, `CancelQueued`, `CancelGranted`. The semaphore hands a freed
permit to the head of its queue before that task runs (`Release`), which is the
window the code's re-check of the permit is about. `Succeeded`, `Rejected` and
`Corrected` are an attempt's results; the `Fail*` actions are what `_failed`
does: open an episode, re-arm the probe, coalesce, exhaust, keep an outcome, or ignore a
stale result. `aclose()` runs the abandonment in a task behind `asyncio.shield`:
`CloseResolved`, `CloseUnresolved` (starts the task), `AbandonmentRuns` (its single
step), `FinishAbandoning`. `KeepOpen`/`CloseKept` serve a caller with two open
attempts; `Drop` is a caller that walks away. `BackoffElapses` and
`CooldownElapses` are the clock.

Abstractions. The critical sections of the `asyncio.Condition` suspend only in
`wait()`, so its lock is never contended and each is one action. Times are reduced
to whether they have passed. The length of a backoff and the choice between
`Retry-After` and exponential delay are left out. A semaphore also counts as locked between a hand-off and
the next step of the waiter, even with another permit free; a session that arrives just then queues for a
step in the code and not in the model.

### ProviderRunners (`providers/http.py`, `openai_chat/provider.py`, `openai_codex/provider.py`)

`Unary` is `run_with_retry`; `Chat` is the chat stream runner, with `_create_stream`'s
correction of a request, its early retry, and mid-stream recovery; `Codex` is the
Responses runner. `phase` is the position in the retry loop and its `finally`
block, `plan` whether another attempt follows that block, `outer` the attempt a
mid-stream recovery leaves open while it opens its own, `renewed` Codex's
`authentication_recovered`. The constant `Events` selects what the environment does:
`cancel` (while admitted or upstream), `close` (a cancellation, or an error the code
lets through, while a stream is being closed), `auth` (credentials missing, or
cancellation while they are read), `correct` (a 401, a correctable request),
`midstream` (a committed stream breaks and is continued).

Every action of the controller is used through its own definition in
`ProviderAdmission`, so the runners refine its `Spec` by construction and its invariants hold of them; what
needs a check is the other direction, that the calls the loops make, in their order, leave the controller
clean whichever way an execution ends (`EndsAreClean`). A stream has one event (the commit) and then ends or breaks.

### SlidingWindow (`core/rate_limit.py`)

`clock` is `time.monotonic()` in ticks, `times` the deque `_times`, `wakeAt` the end of
each caller's sleep; `grants` is a history of when acquisitions really returned. A
critical section of the lock never suspends, so it is one action, beginning with the
purge of the deque: `Grant`, `Reject` (the condition of `acquire_if` does not hold) or
`SleepUntilFree`. The condition runs inside the lock and may take up to `MaxDelay`
ticks, after which the code reads the clock again. `CancelSleep` cancels a sleeper. With
real numbers the computed sleep can round to zero, and the code then yields once
(`sleep(0)`); with integers that branch cannot be taken.

### ProviderStream (`openai_chat/provider.py`, `tool_calls.py`, `core/anthropic/streaming/ledger.py`, `providers/stream_recovery.py`, `core/openai_responses/provider_stream.py`)

| Variable | Code |
|---|---|
| `flavour`, `step`, `budget`, `reauthed` | which runner, where its generator is, `attempts_remaining`, `authentication_recovered` |
| `blocks`, `tools`, `parser` | the content blocks of `AnthropicStreamLedger`, the state kept for each upstream tool call, what the text parsers hold back |
| `held`, `released`, `emitting` | the hold-back buffer, whether it has let events through, the events about to be yielded |
| `mended`, `stream` | how a recovery completed the answer; what the consumer has assembled |

One action per kind of upstream item (`ReasoningDelta`, `TextDelta`, `NativeToolCall`,
`ItemArguments`, `ItemDone`, …), per end (`ChatFinishes`, `CodexFinishes`, `Flush`) and per
failure (`OpenFails`, `Reauthenticate`, `EarlyRetry`, `CodexRetry`, `Recover`, then `RepairTools`
or `ContinueText`, or `Surface`); `Yield` sends one event. `AnthropicEvents` is what may follow what, from
`stream_contracts.py`; `AnthropicStream` is the promise: legal events, `message_stop` before a
return, no open block behind a failure. Arguments of a tool are reduced to whether they
are none, a part, whole or broken JSON.

### ResponsesAssembly (`core/openai_responses/stream.py`, `streaming/`)

`source` is the Anthropic stream so far, any the contract allows; `items` the output ledger,
`stopReason`, `provisional`, `terminal` the assembler's fields, `sending` the list of events being
yielded, `response` what the consumer has. `Message*`, `Block*` are the handlers of the
assembler, `InputEnds` and `InputFails` its two ends. `ResponsesStream` is the promise.

### ChatHistory (`core/anthropic/conversion.py`)

`Says` adds a message of any mixture of text, hidden thinking, calls and results;
`ledger` is `_OpenAIChatHistoryLedger` with its pending calls, results and deferred messages;
`Convert` ends the conversion, coalesces, and refuses a history with a call that has no
result. Texts are numbered in the order spoken, calls by their id. Left out: a `tool_use`
id repeated within a message, a second result for a pending call, a result for no call.

### TextParsers (`core/anthropic/thinking.py`, `tools.py`, `providers/nvidia_nim/native_tool_stream.py`)

`parsing` selects the parser: the think-tag parser, the filter of function-call envelopes, the NIM
framer. `fed` is the text so far, in chunks of up to `MaxChunk` symbols; `mode`, `tail` and `kept`
are the parser's state, `shown` what it let through. Tags are short words over symbols with the
same common prefixes as the real ones, so each way a chunk can cut them happens.

### RequestCorrections (`providers/failure_policy.py`, `openai_chat/output_cap.py`, `usage.py`, the NIM, Groq and Mistral adapters)

`upstream` is what the model's upstream accepts, `cap` and `learned` what the provider
learned of it, `call` each request's body and attempt. `OpenWith`, `Refuse`, `Accept` and
`FailOpening` are `_create_stream`; `Judge` asks the classification about any class of
error and marker. The text of an error is what the parsers find in it.

### ProviderGenerations (`runtime/provider_manager.py`)

A generation is named by the number of its runtime. `request` is a task that
holds a lease, or awaits the cleanup its release started; `holder`/`step` are the
operation that owns `_replace_lock` and where it is suspended; `closer` is where
`close()` is; `todo` what either is still cleaning up; `cleanups[r]` counts the live
tasks of `_run_generation_cleanup` for `r`, so that "once" is a property and not a
type. `Acquire`, `Release`, `ReleaseReturns` and `CancelRelease` are the lease;
`Enter`, `ReplaceRetries`, `AdminCleans`, `BuildFails`, `CommitFails`, `Publish`,
`Discarded`, `ReplaceReturns` are `replace()`; `Explicit*` the refresh an admin asks
for; `Connect*` the change of a connected account, which uses the current runtime without a lease
but under the lock; `Background*` the background refresh; `Close*` is `close()` with
its retries; `CancelAdmin` and `CancelClose` cancel the last two kinds wherever they
are suspended. A cancelled `close()` leaves `_closing` set, and the next call
continues. `start_model_list_refresh()` has one caller, the application's start, and is
part of `Init`.

What the catalog holds, its scope, its file for Codex and the warm-up are `ModelCatalog`. `ReleaseReturns` includes the admin's provider check, which caches what
it listed after its lease is gone, possibly of an older generation; nothing in
the code or its documents promises otherwise, and `CatalogIsCurrent` is about
refreshes only.

### ModelNames (`core/gateway_model_ids.py`, `application/routing.py`, `reasoning.py`, `providers/model_listing.py`)

No variables. A name is the sequence of its segments between slashes; `Wording` says which tiers' words a segment
contains. `GatewayId`, `NoThinkingId` and `Ref` make the ids a model is listed by, `Direct` decodes them, `PrimaryOf`,
`PreferenceOf` and `RouteCandidates` are the router, `PolicyOf` the reasoning policy. `Listings` is what an adapter makes of
a provider's answer, which comes in pages of items: doubled, with aliases, not readable, without tools or hidden.

### ModelCatalog (`providers/runtime/`, `runtime/provider_manager.py`, `api/model_catalog.py`, `codex_catalog.py`)

`modelCache` and `scope` are the listings by provider and the providers that may have one, `discovering`, `locked`, `checked`
the background task, the holder of the replace lock and the checks that wait for a provider; `connected` is the
credential store, which other processes change. `codexFile` is the catalog file; `lagging` (history) says that it may differ
from what is offered, since a write failed, a list dropped models, or the server found an older file. `PublishCatalog` ends every
operation as in the code: scope first, then the file, whose write may fail. Generations and leases are those of `ProviderGenerations`.

### WebTools (`api/web_tools/`, `api/handlers/messages.py`, `optimization_handlers.py`)

What the Messages handler does before a provider sees the request. `webStage` is where it is, `decision` the stream of a provider that
is to choose whether to search, read whole before the client sees anything, `localAnswer` and `webSent` the answer that is made here
and the frames sent of it, `hop` the fetch at its current redirect. `Refuse`, `AskForDecision`, `RunForced`, `AnswerAtOnce` and `PassOn`
are the five ways a request may go; `Resolve` resolves and checks each place anew, pins its addresses, and `Redirect` closes the
connection first. `Abandon` is the client that leaves. A name's addresses may differ from one resolution to the next.

### InferenceRequest (`api/request_lifetime.py`, `routes.py`, `handlers/`, `application/execution.py`, `api/response_streams.py`)

`app` names the await the application task is suspended in: reading the body, handling, pulling
from the provider, draining it, sending, closing, releasing. `client`, `unsent`, `queued`,
`receiver`, `boundary`, `shut`, `cancelled` are the middleware: the client, the body still to come,
the queue of one between its two tasks, and its own call. `lease`, `cleanup` are the route's
lease and the response's `_cleanup_task`; `candidate`, `upstream`, `committed`, `late`, `why` the
executor: the model in use, each candidate's generator, whether it may still fall back, whether the
deadline has passed, why a stream is being closed. `out` (history) records whose chunks the
client got. The nested generators of a body are one object. `CancelLands` is the delivery of a
cancellation at whichever await it finds; `DeadlineFires` may find the chunk already there
(`TakeChunk`), as `asyncio.timeout` may.

### ConnectedAccounts (`providers/openai_codex/auth.py`, `runtime/application.py`)

`credentials`, `file`, `revision` are the manager's token, the shared file and `_revision`;
`operation` what holds `_operation_lock` and its step, `login` the login task, `writer` a worker thread
that still has a credential to write, `fileLock` the interprocess lock, `refresh` a request in
`access()` or `recover_unauthorized()`, `poll` a status request; `offered` and `synced` are the
application's view. `OtherProcess` changes the file whenever the lock is free. Credentials are numbered
in the order they were issued.

### ServerLifecycle (`runtime/application.py`, `messaging/platforms/discord.py`)

`owner` is the step the server's task is in, from "new" over start-up to "closed"; `purpose`
says whether a clean-up is a `close()` or a failed messaging start, `trouble` what went wrong in its
current step, `holds` which references are not yet let go. `sdk`, `accepting`, `handler`, `turn` and
`delivery` are the Discord client, its gate, a task per message, the turn of each, the outbox.
`StepFails`, `GivesUp`, `ClientTrouble` and `DrainCancelled` are the failures and time-outs of each step;
`Close` may be called again and resumes.

### ServerSupervisor (`cli/commands.py`, `cli/desktop.py`)

The fields of `ServerSupervisor` are `scheduled`, `running`, `stopped`, `generation`, `server`;
`worker` is the thread between its critical sections, `seen` the generation its round began with.
Each critical section of the lock is an action. `owed` (history) is an accepted
restart whose settings have not been loaded yet.

### ManagedConfig (`config/env_migrations.py`, `loader.py`, `admin/persistence.py`, `runtime/application.py`)

A file is a function from the keys it assigns to values. The keys are representatives: a
plain setting, a secret, a nullable one, one that needs a restart, one that replaced an older name, that older
name, the proxy token and its flag, the schema marker and an unknown key. `ConfigStarts` enumerates what the files and the environment may say at first;
`Start` consolidates and loads, `Prepare` and `Commit` are `apply_admin_config`.

A running server has its settings in two places. `live` is what the provider runtime was made from, which every apply
in place replaces as a whole and which the API reads on each request (also the token, `api/dependencies.py`); `bound` is what
was taken at the start and stays: the address, messaging, the token managed sessions are given. A commit with fields that need a
restart (`Announces`) only writes the file and says so: with a restart callback (`callback`) a background task becomes `due`, without
one the fields go to `pendingFields`; `told` remembers what this server has announced. The restart itself is a later step
(`Restarted`), and more may be applied before it. `Replaces` is an apply in place, which also empties `pendingFields`.
Left out: a file edited by hand, or by another process, between prepare and commit; an
explicit path that is the managed file itself counts as absent.

### ClientLaunch (`cli/launchers/`)

`launch` is one run of an `fcc-<client>` command: the client, the user's arguments over a small
vocabulary per client, the variables present, the invocation mode once classified, the command line once
built, the step. `child`, `registered`, `temp`, `asked` are its process, the process registry, its temporary
directory, and whether the local server was asked for anything. Per client there is one operator for each of its
tables: how it classifies (`HermesMode`, `GrokMode`, …), what it drops from the environment, what it
puts on the command line, which steps it goes through. How a client reads its own
command line is external: `Reading` states what the launchers assume of it. Lines with an option the launcher
does not know are excepted from `RouteIsOwned`, and so is one corner (`Glued`) in which an option's value
looks like another option. `FCC_DISABLE_SECURITY_HOOKS` and an interrupt inside `Popen` are not modelled.

### MessageTrees (`messaging/trees/`, with `workflow.py`, `turn_intake.py`, `node_runner.py`)

| Variable | Code |
|---|---|
| `trees` | every `MessageTree` ever created: its graph (`nodes`, with state, status message and the exact message each replies to), its `queue`, its `active` claim and that claim's `requested` flag |
| `published`, `index` | `TreeRepository._trees` and `_reference_to_tree` |
| `slots` | every claim with its `_TaskSlot`: where its task is, and the cancellation it has yet to receive |
| `intake` | where `MessagingTurnIntake.handle_message` is with a prompt, and the token and parent it read |
| `boundary` | `_stop_generation` and the chat's clear generation, as one number |
| `draining`, `owed` | the tasks that the command holding `_state_lock` still awaits, and the trees it saves or removes after that |
| `taken` | the snapshots that command has taken in the manager and not yet saved in the workflow |
| `saved`, `overtaken` | `SessionStore._conversation`: the snapshot of each tree; and, as a history, the trees a claim saved while a command had an older snapshot of them |

`Receive` takes the admission token and resolves the reply; `AdmitReply`, `AdmitRoot`,
`AdmitAgain` (a repeated delivery) and `Discard` end the turn, after the status message was
sent. `Start` to `StoppingEnds` are the node runner, `CleanupEnds` its end with `_finish_claim`,
which launches the successor. `StopReply`, `StopAll`, `ClearChat` and `ClearReply` are the four
commands; `Deliver` is the arrival of the `CancelledError` they cause, at every stage of a
task, `Recover` the recovery of a task that was cancelled before it began. `Drained` ends a
command's wait, with its tasks done or after `CANCEL_TASK_DRAIN_TIMEOUT_S`.

A claim, an admission and a failure save the tree in the step that changes it. A command does not: it takes its snapshots in the
manager, under the shield of the transition and once the tasks it cancelled are done (`Take`), and saves them in
the workflow (`SaveTaken`), and the store takes whatever it is given. Between the two, tasks go on and save: a snapshot
is then `overtaken`, and the store goes back to it. `Restart` stops the server in any state
and restores what was saved last; what a crash loses between a save and the file is `SessionPersistence`.

No critical section of the manager's lock or of a tree's suspends: their awaits are
uncontended locks. So each is one action, and only `_state_lock` is held across awaits. The tree
that a late `fail_claim` finds is looked up by its root's identity, as in the code, and may
be a newer tree than the one that made the claim (`TreeOf`). `status = 0` is a
node whose status message was cleared; `_ui_target` raises for it, and the four commands model what
such an exception leaves behind (`Interrupted`, `Reached`, `Blocked`).

Left out: other chats, `close()`. A reply to a message that is not indexed is a root, as in the code.

### NodeTurn (`messaging/node_runner.py`, `node_event_pipeline.py`, `transcript/`, `ui_updates.py`)

`turn` is where the runner is with its local variables, `claim` the node's claim, `heard` the
parsed events so far; `segments`, `open`, `stack` the transcript buffer with its subagents; `recent` and `message`
the throttled status message. `Rendered` are the segments that have something to show, and `Total` adds up their lengths. Every event the parser can deliver is `Hears`; `ExitWell`, `ExitBadly`, `EndSilently`,
`Refused`, `Breaks` and `Cancel` end the stream, `Settle`, `RemoveSession` and `ShowCancelled` follow. Text is a length.

### MessageLimiter (`messaging/limiter.py`)

`worker` and `job` are the worker task and what it popped, `queueList`, `queueMap` the two
containers, `paused`, `closed`, `stopping` the flags; `calls` each caller, `future` its future, `newest` (history) whose
operation was queued last under a key. The sliding window is the action `Admitted`, taken at any time.
`OperationEnds` answers a job, with a pause and a retry after a flood error; `OperationCancelled` is an operation
that raises `CancelledError`.

### PendingVoices (`messaging/voice.py`, `platforms/voice_flow.py`)

`flow` is where `VoiceNoteFlow.handle` is with the arrival of a note, `entry` its entry in the registry, `handover`
its hand-off task, `cancelReq` and `handed` the two flags they share, `shown` its status message, `drains` what
each canceller took out of the registry. A command may itself have been spoken: it then runs inside the hand-over of
another note and excludes itself.

### SessionPersistence (`messaging/session/persistence.py`, `store.py`)

A change is a version. `state` is the version in memory, `file` that of the session file;
`generation`, `timer` and `alive` the debounce; `store` and `writing` the two locks; `doing`, `claimed`, `snapshot` where
each thread (the event loop or a timer's) is in a write. `Replaces` is the `os.replace` of a whole temporary file,
`Crashes` loses everything but the file, `promised` (history) is the newest version a clear or flush reported as written.

### ManagedSessions (`cli/managed/manager.py`, `session.py`)

`pending`, `sessions`, `toReal`, `toTemp`, `closing` are the manager's tables, `manager` the holder of its lock; by
session, `process` is its subprocess (doomed once killed), `shut`, `reading`, `stopHolder`, `shielded` its flag and locks; `node`
is the node each tree runs and where, `stopper` where `stop_all` is. `Cancels*` cancels a node at each of its awaits; a stop called in
`start_task`'s `finally` is shielded and goes on.

### ChatMessages (`messaging/workflow.py`, `turn_intake.py`, `commands.py`, `session/managed_message_log.py`)

`chat` is what is to be seen, `log` the ids recorded for `/clear`, `admitted` the prompts of the trees, `turn`, `slash` and `notice` the
handlers. A message is posted in one step and recorded in a later one. `failed`, `dropped` and `missed` (histories) name the
messages that the property excepts: their deletion failed, the log's cap pushed them out, or they answered another command while
a `/clear` waited. A voice note's ids belong to `PendingVoices`. A handler cancelled at shutdown, and a notice whose
send is cancelled, are not modelled.

## 4. The runs

Five runs are *sums*: `MCUpstream`, `MCExecutions`, `MCRequests`, `MCMessageTrees` and `MCMessaging` each extend several modules
that share no variable. The variable `part` names the one a behaviour is about; the others
rest in an initial state. So such a run explores the sum of its parts' state spaces, not their
product, and a part's fairness is asked of its own behaviours only. Nothing is lost: no action reads the variables of two parts. TLC
counts a step of a sum as one of its next-state relation as a whole; every action of every part is taken when TLC runs the part's own
next-state relation alone under the same constants.

| Run | Instance | What it shows |
|---|---|---|
| `upstream` | `MCUpstream.cfg`, 831 000 states | Between an execution and its client: admission controller, rate window, corrections, Responses answer, history, text parsers. |
| `runners` | `RunnersAll.cfg` with `MCExecutions`: one execution of each kind, every event, 2 attempts, 1 permit; and the stream one of them makes; 1.45 million states | However an execution ends, it leaves neither a lead nor a permit behind, except at the places the four violated runs name (`EndsAreClean`), each permit ever taken is traceable to an execution or to an attempt abandoned unclosed (`PermitsAreTraceable`), and the stream an execution makes is legal whatever was retried (`KeepsContract`, `StreamsAreSound`). |
| `runners_undisturbed_close` | `RunnersLive.cfg` with `MCExecutions`: one execution of each kind, only `cancel`, 2 attempts, **1** permit; 410 000 states, with fairness | While cancellation strikes only where the code is prepared for it: the leader is an execution at work, permits come back, none is held in a backoff, an exhausted leader ends its episode, and every admitted execution ends. |
| `requests` | `MCRequests.cfg`, 340 000 states, with fairness | Between a client and a provider: generations, the models offered, the tools that run here, one request, the account, start-up and shutdown, the supervisor, the settings, the launchers. |
| `message_trees` | `MCMessageTrees.cfg`, 801 000 states | The turns of a chat and their snapshots; one turn as it is shown. |
| `messaging` | `MCMessaging.cfg`, 617 000 states, with fairness | The same trees with two commands and liveness; limiter, voices, session file, CLI sessions, chat messages. |
| `lost_leader`, `lost_permit`, `last_correction`, `midstream` | `Runners*.cfg`: two executions of one kind each, one class of event | Disagreements 1–4 of section 7. |
| `cleared_status` | `TreesCleared.cfg`: 2 prompts, 2 deliveries, 2 commands | Disagreement 5. |
| `disconnect_removes` | `AccountDisconnect.cfg`: 2 credentials, 2 operations | Disagreement 6. |

### The properties, and what each one would catch

The parts' type invariants are one per sum, in `runners` and `message_trees` a conjunct of `StreamsAreSound` and `TurnIsTold`. `PROJECT.json` gives for every property a plausible mistake in the
code that breaks it.

`upstream`

- `BulkheadIsExact`: never more permits than `MaxConcurrency`, and nobody queues while one is free. A
  release too few or too many on any of the five ways out of a permit.
- `ProbeIsSound`: a probe permit belongs to the leader of the current episode, and an episode marked as probing has a
  leader that holds it. A permit kept across a change of episode; a probe not handed back.
- `WaitersAreLed`: who waits has someone to wake it and shares the outcome; leadership does not change under a leader
  that sleeps; and one branch of the gate is unreachable.
- `OutcomeSticks`: an execution that shares a terminal outcome starts no further attempt.
- `OnlyProbesDecide`: late successes and failures of attempts from before an outage neither end the recovery nor prolong it.
- `WindowIsExact`: about the real times of admission and not about the deque: at most the limit in any window, and
  no sleep while there is capacity.
- `AnswersAreWhole`: `ResponsesAssembly` implements `ResponsesStream`, and keeps what was finished when its input fails.
- `ConversionsLoseNothing` = `HistoryIsReplayable` (each call's result behind it, every text once and in order, refused exactly
  if a call has no result) and `ParsersIgnoreChunks` (the result for a chunked text is that for the whole).
- `CorrectionsHelp`: the three tables of the failure policy agree; no upstream refuses twice the same thing of one request; what
  was learned is the upstream's; and a request is given up only for the reasons the code gives.

`runners`, `runners_undisturbed_close`

- `PermitsAreTraceable`, `EndsAreClean`, `UndisturbedIsClean`, `EveryExecutionEnds`: as in the table.
- `KeepsContract`: `ProviderStream` implements `AnthropicStream`, whatever was held back, retried, repaired or continued.
- `StreamsAreSound`: every event about to be yielded, deltas included, is one that may come next (`EventsFit`), and a
  finished answer has no tool call with missing, partial or doubled arguments (`ToolCallsAreUsable`; except after a
  continuation in text, see the observations in section 7).

`requests`

- `RuntimesAreKept`: no runtime is cleaned under a request, a refresh or an account change, and a failure or cancellation
  leaves each runtime closed or where a later operation finds it.
- `CleanupsAreExact`: one cleanup at a time, none after success; a terminal manager owns nothing that is open.
- `CatalogIsCurrent`: a refresh of a replaced generation caches nothing.
- `OffersAreGood`: every id listed or written for Codex leads back to its model and to no reasoning if it was listed so, under all
  settings that may come between (`ListedModelsRouteBack`); no model is tried twice (`CandidatesAreDistinct`); every reasoning policy
  asked for can be built (`PoliciesAreValid`); the file is what is offered unless it may lag (`CodexFileIsCurrent`); and a cached listing is
  the whole of one answer of a provider in scope (`ListingsAreWhole`).
- `WebToolsAreContained`: no provider gets a server tool (`ProvidersSeeFunctions`), one party answers and nothing of a decision is
  seen before it is whole (`OneAnswer`), a local answer's blocks are closed in order (`LocalAnswerIsWhole`), and what is connected to is
  allowed, after redirects too (`WebIsBounded`).
- `RequestIsContained` = `OneVoice` (an answer is one model's, and an error frame ends it), `LeaseCoversStreams` (no stream is
  live without the lease) and `NothingOutlivesCall` (task, receiver, lease and streams are over when the call is).
- `OfferedModelsHaveAccount`: an application that has taken note of the account's revision offers no models of an account that is gone.
- `ShutdownIsOrdered`: nothing is closed under a handler or turn, nothing forgotten before it is closed.
- `ConfigIsKept` = `ConsolidationKeeps`, `AuthIsKept`, `OthersAreInert`, `AppliedIsKept`, `AppliedIsLive`: each setting has the value
  the last source that spoke of it gave it; who was asked for a token still is; old files are read once; an applied
  request changes what it names; and what it changed is in use, or a restart is on its way or was announced. Two things the
  code does are named in it: the one value the migration loses (`Lost`), and that a server that announced a field need not go on saying
  so (`told`; section 7).
- `LaunchesAreOwned` = `RouteIsOwned`, `NativeIsUntouched`, `LaunchIsContained`: a chat gets the route once and from nobody else, what is
  not a chat gets the user's own arguments, and no child, directory or registration is left.
- `OperationsEnd`: a request whose client left ends and no pull lasts for ever (`RequestEnds`), every admin operation
  on an account ends (`AccountOperationsEnd`), every accepted restart takes effect unless the server it meets
  ends by itself or does not close cleanly, which the supervisor answers by ending (`RequestsTakeEffect`), and a retired generation is
  eventually closed, unless a cleanup of it fails or a `close()` that took over is broken off (`RetiredGenerationCloses`).

`message_trees`

- `ClaimsHaveTasks`: the active claim of a tree is the one whose task has not finished. A successor claimed on a detached
  tree, a recovery that comes twice or not at all.
- `GraphsAgree` = `QueueAgrees` (what is queued is what is pending, once each; an idle tree has no queue), `IndexAgrees` (a
  reference is indexed exactly if its message is in a published tree) and `StoreAgrees` (the store can be restored at any time, and
  between commands has just the published trees: as they are, or, where a claim saved while a command had an older snapshot, with the
  same messages and replies and some turn's end missing).
- `NothingFromBefore`: no turn received before a global stop or clear waits or runs after it, also if it was
  between its status message and its admission.
- `TurnIsTold` = `SubagentsStayInside`, `DisplayFits`, `EndIsTold`: what a subagent says is hidden while its Task runs and
  no longer; a display fits the platform; and the last thing shown is the end that was recorded.

`messaging`

- `AnswersAreCurrent`: a caller gets one answer, of an operation no older than its own, and what waits under a key is its newest.
- `VoicesAreSettled`: a cancelled note is not delivered after it; an ended one leaves no entry and no status message it should have removed.
- `EveryProcessIsOwned`: a subprocess that may still run is one the next `stop_all` ends; the two id tables agree.
- `ChatIsOwned` = `NothingIsOrphaned`, `LogIsCurrent`, `ClearedLeaveNothing`: what is to be seen in the chat is in the log, a
  tree or the hands of a handler, and a `/clear` is not undone by what began before it.
- `SavesAreKept`: the file never moves back to an older version, and what was reported as written is. `ChangesAreSaved`: a change is eventually in the file.
- `WorkEnds`: a queued turn moves on (`QueueMoves`), every call is answered (`EveryCallAnswered`), every note and
  command ends (`VoicesEnd`), a cancelled node ends (`CancelledNodesEnd`).

### Bounds, and why they suffice

- *Admission*: 3 sessions — one leads, one waits or queues, one arrives with a result or permit from before the episode; 2
  attempts, a first and a last (the default is 5; those between behave like the first); 2 permits in `upstream`, where a late result can meet
  the probe, 1 in `runners` and `runners_undisturbed_close`, where it is contended most. Safety is proved without these bounds. Episode generations are not bounded: each costs an attempt.
- *Window*: limit 2, window 3, clock to 9: three windows pass, and a condition may take up to 2 ticks of one.
- *Stream*: 2 upstream tool indexes, 2 attempts, 2 blocks and 2 held events: one of each on either side of a failure. *Answer*: 2 items.
- *History*: 2 calls, 3 texts, 5 blocks: two results in either order, in one message or two, with text before, between and
  behind. *Parsers*: texts of 6 symbols in chunks of up to 3, envelopes of 3: every tag can be cut everywhere. *Corrections*: 2
  requests that share what is learned, budget 2, 3 tries, 9 kinds of upstream.
- *Catalog*: three providers, one that lists by its models' parameters, one local, one behind the account; two settings that route differently, with
  a tier, a fallback and models whose names look like prefixes or tiers; answers of up to 2 pages; 2 operations. *Server tools*: tools of each
  kind with every choice, 4 places of which one has several addresses, 1 redirect, 2 chunks of a decision.
- *Generations*: 2 requests, 2 runtimes. *Request*: 2 candidates, 2 parts of a body, 3 chunks. *Account*: 3 credentials, 2 operations. *Lifecycle*: 2
  messages, 3 faults. *Settings*: 2 assignments to begin with, 3 operations. The safety
  properties of these are proved without bounds. *Supervisor*: 3 restarts, 2 exits.
- *Launchers*: all nine, every command line of up to 3 arguments for `dsh`, `hermes` and `muse`, whose scans look furthest ahead, and of up to 2 for the
  others, over each client's vocabulary; Ctrl-C on those of at most 1 (the arguments play no part in it).
- *Trees*: 3 prompts make an active node with a dependant and an independent one in its queue, or two
  trees (`MaxTrees`); 3 deliveries include a repeated one; one command or restart meets every stage of every task. In `messaging`, 2 prompts and two
  commands, so that they meet each other's leftovers. *Turn*: 4 events, of which the first two may be the last.
- *Limiter*: 2 calls, 2 keys, 1 retry. *Voices*: 2 arrivals of 2 notes, 1 typed command. *Session file*: 3 changes, 1 crash, 1 failing write, 1 flush. *CLI
  sessions*: 2 trees, 1 reported id, 2 sessions, 1 trouble. *Chat*: 2 prompts, 2 commands, 3 handled, a log of 3, 1 refused call.

`CHECK_DEADLOCK FALSE` is given where the model really stops: an instance has a
finite number of executions, messages or operations, the window's clock reaches its bound, and a closed manager stays
closed. `RunnersLive` keeps the deadlock check, with an explicit step for the state in
which every execution has ended.

### Fairness

- `RunnersFairness`: weak fairness of each execution's own steps, of the
  abandonment tasks, and of the clock. The event loop runs every ready task; an upstream call or
  stream ends because HTTP read timeouts and the progress timeout (600 s by default) bound its
  silence; the window lets an attempt pass after finitely many windows. The bulkhead is FIFO.
- `Spec` of `ProviderGenerations`: weak fairness of the lock holder's and of `close()`'s next
  step, of the background task, of the end of a cleanup (with success or failure), and of `Release`, i.e. requests end.
- `RequestFairness`: the application's and the middleware's ready steps, and the deadline passes.
- `AccountsFairness`: the steps of the login, a refresh, an operation and a worker thread; strong where the step waits for a
  lock that others take in between, since `asyncio.Lock` is FIFO.
- `SupervisorFairness`: the worker thread runs.
- `TreesFairness`: the tasks' steps taken together: ready tasks run, an awaited CLI ends its stream, a cancellation arrives. `LimiterFairness`, `VoicesFairness`,
  `PersistenceFairness`, `SessionsFairness`: ready tasks and threads run, armed timers fire, deliveries return, a killed process ends.

Cancellation, errors, messages, commands and calls of `close()` are never assumed to happen.
`SlidingWindow` promises no fairness among its callers — a newcomer may take the slot
a sleeper waits for — and no liveness is claimed of it.

## 5. What is proved

Every theorem holds for all values of the constants that the named assumptions admit. Each module proves a theorem
`Invariance` (one per component in `ApplicationRuntime_proofs` and `Messaging_proofs`), that its inductive invariant holds in every reachable state, and takes
the others from it; `RoutedModels`, `ContainedWebTools`, `KeptConfig` and `ToldTurns` have their invariant as a step of their own proof. The inductive invariants were checked by TLC on an instance before they were proved.

| Module | Theorem | Property |
|---|---|---|
| `ProviderAdmission_proofs` | `Typing` | `TypeOK` |
| | `ExactBulkhead` (`Bulkhead`, `WorkConservation`) | `BulkheadIsExact` |
| | `SoundProbe` (`SingleProbe`, `ProbeHasHolder`) | `ProbeIsSound` |
| | `LedWaiters` (`WakeupsAreNotLost`, `SleepersLead`, `LeadersNeverWait`) | `WaitersAreLed` |
| | `OutcomesStick` | `OutcomeSticks`, an action property |
| | `ProbesDecide` | `OnlyProbesDecide`, an action property |
| | `RunnersTyping` | `RunnersTypeOK` |
| | `TraceablePermits` | `PermitsAreTraceable` |
| | `CleanExecutions` | `UndisturbedIsClean`, for `Events` within `{"cancel"}` |
| `SlidingWindow_proofs` | `Typing` | `WindowTypeOK` |
| | `ExactWindow` (`StrictWindow`, `NoIdleWindow`) | `WindowIsExact` |
| `ProviderGenerations_proofs` | `Typing` | `TypeOK` |
| | `KeptRuntimes` (`UsedRuntimesAreOpen`, `Ownership`) | `RuntimesAreKept` |
| | `ExactCleanups` (`NoDoubleCleanup`, `Termination`) | `CleanupsAreExact` |
| | `RefreshesAreCurrent` | `CatalogIsCurrent`, an action property |
| | `RoutedModels` | `CatalogTypeOK`, `OffersAreGood`, of `CatalogSpec` |
| `InferenceRequest_proofs` | `RequestTyping`, `ContainedRequests` | `RequestTypeOK`, `RequestIsContained` |
| | `ContainedWebTools` | `WebToolsTypeOK`, `WebToolsAreContained`, of `WebToolsSpec` |
| `ApplicationRuntime_proofs` | `AccountsTyping`, `OfferedModels` | `AccountsTypeOK`, `OfferedModelsHaveAccount` |
| | `LifecycleTyping`, `OrderedShutdown` | `LifecycleTypeOK`, `ShutdownIsOrdered` |
| | `KeptConfig` | `ConfigIsKept` |
| `MessageTrees_proofs` | `Typing` | `TypeOK` |
| | `ClaimsStay` | `ClaimsHaveTasks` |
| | `GraphsStay` | `GraphsAgree` |
| | `NothingStays` | `NothingFromBefore` |
| | `ToldTurns` (`ToldEnds`) | `TurnIsTold`, of `TurnSpec`, if `TasksApart` |
| `Messaging_proofs` | `SettledVoices` | `VoicesAreSettled` |
| | `CurrentAnswers` | `AnswersAreCurrent` |
| | `KeptSaves` | `SavesAreKept`, an action property |
| | `OwnedChat` | `ChatIsOwned` |
| | `PoolTyping`, `OwnedProcesses` | `SessionsTypeOK`, `EveryProcessIsOwned` |

The assumptions are those named in the modules: `AdmissionAssumption` (positive bounds, which the constructors enforce; `None`
is no session), `RunnersAssumption`, `WindowAssumption`, `GenerationsAssumption`, `NamesAssumption` and `CatalogAssumption` (a provider's id is not a prefix of ids, and settings are as their validators leave them), `RequestAssumption`, `WebToolsAssumption`, `AccountBounds`, `LifecycleAssumption`,
`TurnBounds`, `SessionBounds`, `MessageLimiterAssumption`, `PersistenceBounds`, `TreesAreNotHolders` and `TreesAssumption` (bounds are naturals, and the markers of who holds a lock are not names of trees; `NoNode` is no prompt). `Sessions`,
`Requests`, `Messages`, `Conversations`, `Ids`, `Nodes`, `Providers`, `Configs`, `Asks` and `Hosts` may be infinite.

**The admission invariant.** No promise is inductive alone. That nobody queues while
a permit is idle needs to know which permits are out, i.e. the control state of every session
(`ControlInv`: where a session is and what its attempt looks like go together), that
the queue holds suspended sessions, once each (`QueueInv`), and that the permit a
release takes back is really out (`SlotInv`). That the probe is unique needs generations to
be a clock (`EpisodeInv`: every permit is older than the next generation), so that a stale
permit never looks like a current one. That an outcome sticks needs that whoever shares an
outcome, *or may come to share one*, is not already past the gate (`OutcomeInv`) — the
interesting part, since an outcome is fixed while some sessions queue for a permit.
Bulkhead and recovery are proved apart, one lemma per building block (handing back
a probe, releasing a permit), then one per action, and joined in one step lemma.

**The executions.** Every step of `ProviderRunners` is a step of the controller or leaves it alone; that holds by the way the
steps are written, and is a lemma (`RunnersStep`) through which the invariants of the controller are used here. A step of one session leaves the others as `Leaves` says: their
program counters and outcomes stay, and of their attempts only what the controller itself decides may change. `TraceInv` says where
each permit comes from; its interesting conjunct is that an abandoned attempt whose close was cancelled has already returned its permit.
`DoomInv`: who shares a terminal outcome has no open attempt and does not lead the recovery. `CleanInv` says what each phase
of an execution holds (`Phased`) and what the leader is doing (`Leads`). `CleanExecutions` is about instances whose only event from outside is a
cancellation (`Events` within `{"cancel"}`); with corrected retries or failures in mid-stream, `UndisturbedIsClean` is only model-checked.

**The window invariant.** The deque is the end of the history of admissions, and what was
dropped had left the window when it was dropped, hence has left it for good (`TimesInv`,
`GrantsInv`); so the admission `rate_limit` places back is either in the deque, and the
capacity check saw that it has expired, or was dropped. `SleepInv` ties every sleeper to a full deque.

**The generations invariant.** `LeaseInv` is an accounting equation: `active_leases` equals
the number of requests, background and explicit refreshes that use the generation, so
zero leases means no user. `LifecycleInv` says who owns which runtime, `RefreshInv` that a refresh
that may still write belongs to the current generation and is the one `_cancel_refresh` will
find, `ControlInv` what the lock's holder and `close()` are doing. An account change has no
lease, and is safe only by the lock: that is the conjunct about `connecting` in
`ControlInv`, with `LifecycleInv`'s that the current runtime is not retired before closing.

**The models offered.** The names are data, and the lemmas about them carry the theorem: an id made of a model with any of the three
prefixes decodes to that model (`IdsDecode`; no provider is called like a prefix, and no model's name is
empty), and the candidates of a request are distinct because the fallbacks are and the primary was removed from them (`CandidatesDiffer`). `CatalogInv` then says
only what the operations keep: each listing in the cache was read from one answer of its provider and is in scope (`CacheInv`), and
each entry of the file, an old one too, has one of the three forms, while the file is what is offered unless `lagging` (`CatalogFileInv`).
Routing back holds under *every* setting, not the current one, which is what makes a stale file or a list in a client harmless.

**The request invariant.** `LeaseInv` says at which places of the application task the lease is held, `StreamInv` that only the
candidate in use is open, and only in a body that is not closed, `VoiceInv` that what has not committed has not spoken and
nothing follows an error frame, `CallInv` that the call leaves nothing running. The lease outlives the streams because
`cleanup` closes the body before it releases: that order is the conjunct about `closing`.

**The server tools.** `WebInv` reads the answer off the stage: who answers and whether something was found (`WebStagesInv`), that the frames
sent are a beginning of the ten of a local answer, or of the provider's own (`WebFramesInv`), that a connection exists only
while fetching and only to what was just checked (`HopInv`), and that the hosts shown passed the filter (`HostsInv`). That the blocks are well
formed is then a fact about the ten frames. Neither the redirects nor the hosts nor the requests are bounded in it.

**The account and the lifecycle.** `RevisionInv`: the revision grows with every loss of the account, so a status request
that has read the current revision has not read an older connection; late ones are harmless because they also take
an older revision with them. `HoldsInv`: *what is closed later is held longer*, phase by phase; `IngressInv`: messages are accepted only while
everything they need is held, and nothing runs after the turns were stopped.

**The settings.** Each file is described by what it tells of a key, under its name or its old one (`Tells`), and the consolidation and a request by
what they make of a key (`ConsolidatedIs`, `RequestIsKept`). `ConfigInv` then needs only to name the place the managed file came from: it is the one
of the beginning, or that one consolidated (`FirstInv`), or what the last request made of a file that served (`RequestsInv`); and what serves is current,
and loads, and is what the runtime and the server have unless a restart is due or was announced (`ServingInv`). That an apply in place keeps
what the server took at its start needs that a setting no field of the request announces has its old value (`UnannouncedStays`). A start that finds settings it cannot load has already written
the consolidated file, and the next one must not consolidate again: that is why `FirstInv` speaks of the stage. The theorem needs no
assumption on the bounds.

**The session pool.** `MapsInv` ties the two id tables to each other and to the pending sessions; `GuardInv` adds the
conjunct that makes ownership inductive: whoever is on its way into a session nobody owns any more finds it shut, and a session
is shut before it is forgotten.

**The trees.** `ClaimInv` says of each tree that its queue is what is pending in its graph and that only its active node may run, and nothing
once its claim is cancelled; `SlotInv` that a tree's active claim is the one whose task has not finished, and that nothing
of the tree runs once the task has written the end of its node. The two must go together, because a tree detached by `/clear` or left by a
restart keeps its task, whose late finish still writes to it. `GraphInv` gives each published graph
its shape — a root, parents reached from it, one node to a status message — and makes the index
exact; trees outside the repository have nothing pending or running, which is what makes a late finish harmless. `StoreInv` says what
the store holds *between* commands and what it may lack while a command waits for its tasks (`owed`), and what the snapshots a command has
taken may lack (`TakenInv`): a snapshot shows its tree, or the tree is `overtaken` and the snapshot differs from it in ends of turns
only. No admission gets between the taking and the saving, since both happen under `_state_lock`; that is why the
messages and replies always agree.
Only `StoreInv` knows what a restart restores, so it carries that stored graphs are trees and clash neither with each
other nor with the running ones: without it the index is not exact after a restart.

What a reply-`/clear` removes is the least set that holds the prompts replied to and is closed under children, so what it leaves is a
tree again (`PrunedTree`), and all goes if the root does (`RootTakesAll`). The command that raises (section 7, 5)
stops at the first tree that blocks it; that there is a first one is the well-order of the naturals
(`ReachedOrBlocked`), that nothing runs in it is `RaisesQuiet`, and the trees behind it keep their state. This is the exception that
`NothingFromBefore` and the store's part of `GraphsAgree` make with `raised`.

**A turn's display.** `EndInv` follows the status message of a turn from place to place. While the turn goes on nothing final is recorded
(`OpenInv`); while it settles, what it is about to record is already what the message says (`SettlingInv`); after an error event the message has told it or more was
heard since (`FailedInv`); and after the end the message fits the record (`EndedInv`). Hence `EndIsTold`, for every order of events and cancellations (`ToldEnds`).

`TranscriptInv` is about what is shown. Its `StackInv` says that the active Tasks are Tasks that were heard and not answered, the younger above the older, and that a Task
not answered is active unless an older one was answered meanwhile, since that answer ends the younger ones too. What is said while such a Task runs is
then inside it, and a tool call is held by one segment, the youngest active Task's or its own.
That `DisplayFits` is a fact about any segments: the newest suffix that fits is kept (`DisplaysFit`), where the length of a suffix is a sum that exists and is an integer because
there is no first partial sum for which that fails (`TotalExists`, `TotalIsInt`): a least counterexample in place of an induction.

The hypothesis `TasksApart` of `ToldTurns` says that a result looks like one of at most one Task, in the sense of `_ids_roughly_match`, where one id may be a prefix of the other. The ids
of tool calls are unique tokens of one length, so the code's tolerance for a suffix does not confuse two of them; were one Task's
id a prefix of another's, the result of either would end whichever is youngest. The instance TLC checks has a result with a suffix (`"a-task"` for `"a"`) and satisfies it.

**Voice notes, limiter, session file.** `VoicesInv` says what is registered of a flow and what its task does wherever the flow is (`FlowInv`), that a
cancelled task has lost its note (`ShownInv`) and that what a command took stays gone until it is over (`DrainInv`). In `LimiterInv` a pending future is
with exactly one operation, because compaction hands the futures of the older operation over to the newer (`PendingInv`). That
the file never goes back needs two things of the threads (`PersistenceInv`): one at a time replaces it (`WriterInv`), and what a *current* one has copied is the state in
memory unless a change is being scheduled (`SnapshotInv`); an older copy never gets past the comparison of generations under the writer's lock.

**The messages of a chat.** That every message is kept somewhere (`AllKept`) is not inductive alone: a step that forgets ids must not
forget one that another handler is yet to record, and a `/clear` must have all there is. `HandlersInv` says so. What a handler
has not recorded yet nobody has heard of: it is in no log, tree or batch to delete (`Unheard`). A `/clear` that waits for the
turns it cancelled has the whole log in hand but for what was recorded meanwhile, which is an answer, excused as `missed`, or the status of a turn
that will be rejected and deletes it itself. And what an older turn, or an older notice, has in the log is in the hands of such a `/clear`
(`Doomed`), since whatever begins under the lock finds no `/clear` waiting and is of the current generation. The theorem needs no assumption on
the constants, so it holds for any cap of the log and any number of prompts, commands and failed deletes.

## 6. Only model-checked

- *Liveness* (`EveryExecutionEnds`, `OperationsEnd`, `WorkEnds`, `ChangesAreSaved`): reasoning about fairness and
  `ENABLED` is outside the provers used here.
- *Recursion over data* (`AnswersAreWhole`, `ConversionsLoseNothing`, `KeepsContract`, `StreamsAreSound`, `CorrectionsHelp`): what a history, a parser,
  a stream or an answer becomes after any input is an induction over that input, which the installed provers cannot instantiate.
- *Disturbed executions*: `UndisturbedIsClean` with events other than a cancellation, see `CleanExecutions` above.
- *Launchers* (`LaunchesAreOwned`): finite case distinctions over tables, which TLC goes through exhaustively.

## 7. Where the code and its documents disagree

1. *A cancelled leader may keep the lead* (`lost_leader`).
   `src/ARCHITECTURE.md:717-718`: "leader cancellation transfers ownership to a
   waiter". `retry()` resolves the attempt and makes the execution the leader; the `finally` block then
   awaits the close of the broken stream. An execution cancelled there never enters the
   gate again, and its resolved attempt has no lead to give back: the episode keeps a
   leader that is gone, and every later caller waits for it.
2. *A permit may be lost* (`lost_permit`). `providers/admission.py:183`: "Release attempt
   ownership and its concurrency slot exactly once". `attempt.aclose()` is the second await of the
   runners' `finally` blocks; a cancellation in the first one, or at two places an
   error of the stream's close, skips it.
3. *A last correction leaves its episode open* (`last_correction`).
   `src/ARCHITECTURE.md:723-724`: "If the leader exhausts its attempt budget, that terminal
   outcome stays attached to every coalesced logical execution". Codex answers a first 401 with a
   correction, whether or not an attempt is left; on the last one the loop runs out of its range
   with no outcome attached.
4. *Mid-stream recovery waits with a permit* (`midstream`). `src/ARCHITECTURE.md:711-713`:
   the bulkhead is held "never during retry backoff". The recovery opens its attempt
   before the broken stream's attempt is closed; with as many broken streams as permits,
   each queues for a permit only the others could free.
5. *A global stop can fail half-way* (`cleared_status`). `src/ARCHITECTURE.md:1692`: "Global
   `/stop` drains every queue instead". A reply-`/clear` of the status message of a running
   node leaves its claim active until its task has ended, which the command awaits for five
   seconds. If the task needs longer, the node has no status message and is in `ERROR`; a `/stop`
   then asks for its UI target, and gets a `ValueError` before the queue is drained. The
   turns queued behind it run later, and the trees after it are not reached. A global `/clear` that fails so
   still empties the store, while the trees it did not reach stay live.
6. *A disconnect can be undone* (`disconnect_removes`). `providers/openai_codex/auth.py:282`: "Best-effort revoke,
   then always remove FCC-owned credentials." A login cancelled while it saves ends at once and releases the
   file lock, while its worker thread goes on writing. Disconnect deletes the file; the thread writes its
   credentials after that, and the next start finds the account connected.

For the first four, `runners_undisturbed_close` checks the same properties with the corresponding events switched off:
they hold there, so nothing else breaks them.

### Observations without a run

Met while modelling; no document of the repository promises otherwise, or only in general words.

- *Streams.* Stale `pre_start_args` of a tool call survive into a recovery in text (`openai_chat/provider.py:1108-1124`,
  `tool_calls.py:259`); hence the exception in `ToolCallsAreUsable`. Codex keeps reading after `response.completed`, so a failure can
  follow `message_stop` (`openai_codex/provider.py:254-263`). `HeuristicToolParser` drops text held at a flush, and what it recognises
  depends on the chunks (`tools.py:438-462`); it is not part of `TextParsers`. The NIM framer raises for a chunk with text after `finish_reason`.
  `sse_aggregation` turns an incomplete tool call into `{}`.
- *Histories.* A `tool_use` id repeated within one message raises `KeyError`; a second result for a pending call overwrites the first; a result for no call becomes a tool
  message of its own; top-level reasoning is lost for list content in the think-tags mode.
- *Corrections.* An adapter's own correction is tried once per request, so a NIM upstream that refuses two fields ends the request. `is_retryable_stream_error` differs from
  `is_retryable_provider_error` for a denied permission with a rate marker, connect time-outs and write errors.
- *Messaging.* A retry of fire-and-forget queues its operation after a newer one of the same key (`limiter.py:297-322`). A voice flow cancelled before its
  hand-over task starts leaves its status message. With parallel Tasks, the answer of the older ends the younger for the display. After an error event followed by more of the
  transcript, a failing exit leaves the status at work. A `/clear` whose deletions fail leaves those messages untracked; one whose final save fails has cleared the log and
  deletes nothing. A subtree removed by a reply-`/clear` is restored if the server dies during the drain. A turn that ends, or whose session's id
  becomes known, between the snapshot of a command and its save is in the store as it was before, until the tree is saved again; a restart then shows a finished
  turn as failed (`trees/manager.py:374`, `518`, `workflow.py:480`, `697`, `session/store.py:100`). A node cancelled while its session's removal waits for the manager's lock leaves the session to the
  next `stop_all`.
- *Settings.* A file with a blank new key beside an old one that is set loses the old value: `_defines_key` takes the blank for the user's choice, the old line is dropped, and
  then so is the blank one (`env_migrations.py:313-343`, `262-297`). `ARCHITECTURE.md:374-375` has recognized effective values written, and the test that "canonical setting
  wins" has a value in both. `ConsolidationKeeps` names it (`Lost`). Without a restart callback, a later apply in place empties `pending_fields` while a field still waits, and
  from then on the API checks a new token while the address and the managed sessions keep the old settings (`application.py:205-211`, `388-411`); the supervisor
  always passes a callback, so it is then a matter of the time before its restart. A blank `PROXY_AUTH_ENABLED` suppresses its materialisation. Two processes may settle on different proxy tokens.
- *Supervisor.* A restart requested between the last comparison of a round and `_running = False` is accepted and not served, after a server that ended on its own. Stale settings stay cached over a relaunch after an unexpected exit.
- *Launchers.* `muse resume` reached only through an option's value raises an uncaught `ValueError`. `cline` and `muse` stop scanning at an unknown option. A second Ctrl-C while the launcher waits for a killed child leaves it unawaited.
- *Account.* `_refresh_locked` posts a stale refresh token when the newer credential it reloaded has expired as well.

## 8. Not modelled

`PROJECT.json` gives the status of each component. Left out because they keep no state across an await and are data or
input and output: request shaping of the adapters, the wording of their requests for models, token counts, schemas, the parsing of search results and pages, admin
routes, the fields and validators of the settings, the platforms' libraries and markup, the tray icon, the files launchers write for their clients, the hook
guard's rules, deployment files. The interprocess lock is the operating system's. Also left out: Telegram's own draining (it is inside its library), an admin's `stop_all` while the server closes. A message's deletion and its removal from the log are one step, as are a launcher's `Popen` and its `register_pid`. The
ASGI adapter never repeats an incomplete close; `ServerLifecycle` lets it, as the tests do.

## 9. Running

    tlc -workers 2 -config RunnersAll.cfg MCExecutions
    tlapm ProviderAdmission_proofs.tla

`MCUpstream.cfg`, `MCRequests.cfg`, `MCMessageTrees.cfg` and `MCMessaging.cfg` go with the MC module of the same
name, `RunnersAll.cfg` and `RunnersLive.cfg` with `MCExecutions`, the other `Runners*.cfg` with `MCProviderRunners`,
`TreesCleared.cfg` with `MCMessageTrees`, `AccountDisconnect.cfg` with `MCRequests`.
