# VERTUS in TLA+

Specifications of VERTUS, model-checked with TLC, and proofs about them checked with TLAPS.
Two parts of the repository are covered: the hub, in Python (`src/vertus/server`), and the core
of the terminal agent, in TypeScript (`src/pi/packages`). Paths are relative to the repository.
Abbreviations: AR, SM, VS, HB for `agent_registry.py`, `session_manager.py`,
`vertus_server.py`, `hermes_bridge.py` in `src/vertus/server/`; `sessions.ts`, `server.ts`,
`snapshots.ts` are in `packages/server/src`, `client.ts`, `connection.ts`, `state.ts` in
`packages/client/src`, `agent.ts`, `agent-loop.ts` in `packages/agent/src`, and
`agent-session.ts`, `hermes-session.ts`, `hermes-gateway.ts` in `packages/coding-agent/src/core`.

## 1. The system

VERTUS is a personal assistant. A Python hub serves several clients (a Mac quick bar,
a phone, browsers) over HTTP and server-sent events; it owns *agents*, runs one engine
process (Hermes, or the legacy pi) per agent in use, and streams what the engine says to
every client of that agent. A terminal agent, a fork of the pi coding agent, runs a model's
turns itself or drives Hermes on its own; a session server shares its sessions with remote
clients.

### Components

| component | state | operations | who calls it |
|---|---|---|---|
| **Agent registry** (AR) | on disk: per agent a directory with `profile.json` and `sandbox/`, and the marker `_primary`; in memory a lock | ensure_primary, create, list, get, rename, delete | HTTP threads, `serve()` |
| **Session manager** (SM) | the map agent → bridge, a lock | get_or_create_session, has_session, live_ids | HTTP threads, `serve()` |
| **Agent bridge** (`AgentBridge`, VS 91-363) | queue of prompts, the engine session, a worker thread | prompt, slash_catalog; the worker: prewarm, slash expansion, run a prompt and respawn | HTTP threads; the worker calls the engine session |
| **Event fan-out** (VS 112-126, 468-493) | list of subscribers, one bounded queue per client | subscribe, unsubscribe, `_emit`, the SSE loop | SSE threads; worker and engine readers emit |
| **Hermes engine session** (HB) | gateway process and its two pipes, `_pending` RPCs, `_pending_turn`, `is_dead` | create, prompt, RPCs (catalog, dispatch), reader, close | worker, HTTP threads, the reader thread |
| **Hub server** (VS 366-579) | none of its own | routes requests, start-up (`serve`, `build_session_manager`) | clients |
| **Hermes gateway** (not in the repository) | the turn it runs | answers JSON-RPC, streams events | HB, `hermes-gateway.ts` |
| **Legacy pi bridge** (`pi_coding_agent.py`, `pi_bridge.mjs`) | a Node child, a turn in flight | as the Hermes session | worker, when `VERTUS_BRIDGE=pi` |
| **Coding agent session** (`agent-session.ts`) and **agent loop** (`agent.ts`, `agent-loop.ts`) | the transcript and the messages the model sees, steering and follow-up queues, messages deferred during a run, retry and compaction state | prompt, steer, followUp, clearQueue, abort, custom messages, shell results; the run: stream, tools, post-run handling | terminal UI, extensions, session server |
| **Hermes engine in the terminal** (`hermes-gateway.ts`, `hermes-session.ts`) | engine process, session id, turn in flight and its timer, pending RPCs, steering and follow-up lists | prompt, steer, follow up, abort, dispose | the terminal UI |
| **pi session server** (`sessions.ts`, `server.ts`, `snapshots.ts`) | connections and their stage, live and opening sessions with users and operations, revision of the server snapshot | start, close, handshake, attach, detach, operations, broadcasts | remote clients |
| **pi session client** (`client.ts`, `connection.ts`, `state.ts`) | connection, requests in flight, leases per session, cached snapshots | acquire, create, detach, dispose, reconnect | remote front ends |
| **pi session storage, file mutation queue** | writer leases on disk; a queue per file | open, append; run in order | coding agent |
| **Plan mode** and other extensions (`src/vertus/extensions`) | mode, saved tool set, notices in the conversation | toggle, hooks on tools and turns | the coding agent |
| **Clients** (`src/vertus/apps`) | chat, SSE connection | send, stream, reconnect | the user |
| **Model providers, terminal UI** (`packages/ai`, `packages/tui`) | catalogues, components | HTTP, rendering | the coding agent |

### Interactions

    client --HTTP--> handler thread --> session manager --> agent bridge --queue--> worker
                          |                   |                                       |
                          +--> registry <-----+ (validation, sandbox)       engine session
                                                                        stdin |       ^ stdout
    client <--SSE-- SSE thread <--client queue-- _emit <-- reader thread <-- gateway process

    terminal UI --> coding agent session --> agent loop --> model, tools
                        |  (or its Hermes subclass --> hermes gateway --stdin/stdout--> engine)
    remote client --frames--> session server --> live session --> runtime (a coding agent session)

The hub's threads share memory and use few locks: one in the registry, one in the session
manager, one around the `_pending` table of an engine session. Subscribers, the turn in flight
and `is_dead` are shared without a lock. The TypeScript parts each run on one event loop:
nothing interleaves but at an `await`, and whatever was read before it may be stale after it.

### What is hard

* The registry's operations are several disk writes each; the process can die between
  any two, and the next start must repair what it finds.
* The hub deliberately releases the map's lock to validate an agent, so that lookups,
  creations and deletions interleave with it.
* `prompt()` of the hub blocks without a timeout; every way in which a gateway can end a turn
  or die, relative to submission, arming and the check of `is_dead`, must wake it.
* A response, an error or the end of the stream must reach the RPC it belongs to, in time
  or late, and a dead gateway must release all callers.
* A dead gateway's prompt is tried again: once, never if it had finished, and the
  reader of the old session may still be emitting.
* Bounded client queues overflow and subscribers come and go while several threads emit.
* The terminal's Hermes session accepts prompts, steering and aborts while a turn is submitted,
  answered, timed out or lost with its engine; frames do not say which turn they end.
* A run of the coding agent awaits listeners, the model, tools, sleeps and summaries; at each
  of these users queue, clear and abort, and extensions add messages that must not come between
  a tool call and its result. Retries and compactions take messages away and bring them back.
* A live session is shared: it may be opened once however many ask, must not be disposed of
  under an operation, and must be disposed of by whoever turns out to be the last.
* A handshake takes several awaits, during which broadcasts begin, the client sends requests,
  and the server closes.
* Client leases outlive requests that fail, cross, or lose their connection on the way.

### What makes each part correct

* Registry: one primary among the agents shown, the last agent stays, a new agent's
  sandbox is empty, each operation takes effect at once and survives crashes.
* Session manager: one bridge per agent, no bridge for an unknown one, every request ends.
* Engine session: a waiting worker has a waker, `prompt()` keeps its contract
  (`EngineSession`), death is told from error.
* Agent bridge: a terminator for each prompt as long as the worker lives, in order, one gateway
  at a time, no needless retry.
* Fan-out: no gaps, no orphaned queue, every event arrives.
* Hermes engine in the terminal: a turn ends with its own end, no text is run twice, or lost
  other than to a turn that says the same, every run and `abort()` end.
* Coding agent session: each text enters the transcript once, results stay with their calls,
  what is shown as queued is what will be delivered, the session becomes idle.
* Session server: one runtime per durable session, never cut off, never leaked, and nothing
  left by `close()`; clients show the list as it is and never an older one.
* Session client: exclusive means alone, a lease stands for an attachment, the last release
  gives it up.

`PROJECT.json` lists every hazard with its line and the properties that cover it.

## 2. Modules

| module | models | proved about in |
|---|---|---|
| `AgentOrder` | the order of agents by `created_at` and id (AR 97, 152-157) | both modules that use it |
| `AgentDirectory` | abstract: a set of agents, one of them primary; add and remove are single steps | |
| `AgentRegistry` | AR as threads see the disk, crashes, start-up of the hub (VS 499-579) | `AgentRegistryProofs` |
| `SessionManager` | SM and its handlers; the registry is an INSTANCE of `AgentDirectory` | `HubProofs` |
| `EngineSession` | abstract: what the hub's worker expects of `prompt()` | |
| `HermesBridge` | HB: worker, reader, HTTP threads and gateway of one session | `HermesBridgeProofs` |
| `AgentBridge` | VS 91-363: queue, worker, respawn, generations of sessions | `AgentBridgeProofs` |
| `EventFanout` | `_emit`, subscribe, unsubscribe, SSE threads | `HubProofs` |
| `AgentSession` | the coding agent session with the agent and the loop it drives | `AgentSessionProofs` |
| `HermesEngine` | the terminal's Hermes session and gateway client, with timers and the engine's death | `HermesEngineProofs` |
| `LiveSessions` | `sessions.ts`: live sessions, requests on them, runtimes, `close()` | `LiveSessionsProofs` |
| `PiServer` | `server.ts`, `snapshots.ts`, and the snapshot cache of `state.ts`: connections and broadcasts | `SessionProtocolProofs` |
| `SessionLeases` | `client.ts` over `connection.ts`: leases of one session, requests, reconnection | `SessionProtocolProofs` |

`MC<module>` instantiates a module for TLC; each `.cfg` belongs to the run of its name. An
operator that only differs from its neighbour by a dropped guard or a lost assignment
(`ReadyOrNot` beside `Ready`) is never part of `Next`: it is a wrong variant of that
operator, kept to show that the properties tell the two apart.

How they compose: `AgentRegistry` is shown to implement `AgentDirectory`, and
`SessionManager` is built on `AgentDirectory`, so what is checked of the latter does not
depend on how the directory is stored. `HermesBridge` is shown to implement
`EngineSession`; `AgentBridge` sees a session as that module describes it, plus the
failures (death, a refused request) the worker must handle. `PiServer` takes the sessions'
list as a number that changes; `LiveSessions` says how it does. `SessionLeases` sees the
server as one that carries requests out or fails them, before or after the fact.

### How state and actions correspond to the code

**AgentRegistry.** `dirs`, `profiles`, `sandboxes`, `worked`, `created` and `marker` are the
disk; `lock` is `_lock`; `pc`, `job` and `arg` say where each HTTP thread (`Handlers`)
and the main thread are. A step is one access to the disk that another thread or a crash can
separate from the next: `_create_locked` is `MakeDirs`, `WriteProfile`, `WriteMarker`;
`delete_agent` is `StartDelete`, then `RemoveProfile` and `RemoveSandbox` in either order
(that of the file system), `RemoveDir`, `Remark`. `Ensure` is `ensure_primary`, one step unless
it has to create an agent. `ListAgents` and `Load` are single locked reads. `MakeSandbox` is
the `mkdir` of `resolve_sandbox_cwd`, which takes no lock. `Crash` empties memory and keeps the
disk. `_atomic_write` renames a temporary file, so a profile or marker is never half written.
Ids are natural numbers in the order of the id strings, because that order breaks ties.
`rename_agent` rewrites the display name only and shares `Load` with `get_agent`.
`Resolvers` says which handlers may resolve a sandbox: what the unlocked `mkdir` does to a
deletion is the subject of a run of its own.

**SessionManager.** `sessions` is `_sessions`, `built` every bridge the factory has made. The
steps of a request are `Lookup` (first look, under the lock), `Validate` (registry, no lock),
`Recheck` (second look), `Resolve` and `Make` (the factory, under the lock) and `Use`. A
request of `/api/skills` that meets an unknown agent is `dropped`: it ends without an answer.
`UnknownNotServed` is what holds on every route, which is less than the 404 of `src/README.md`.

**HermesBridge.** `stdin` and `stdout` are the pipes as sequences of frames; `armed` is
`_pending_turn`; `done` the event and result the worker waits for; `call` an entry of
`_pending` with its event and holder. The reader's handling of an error response is two
steps (`ReadErr` sets the caller's event, `FailTurn` ends the turn in flight), its end
three (`ReadEof`, `FailDead`, `Clear`), in the order of the code. An RPC is named by caller,
method and turn in place of a number. Any request may be refused and any answer but that to the
submission be late. A worker that a refused slash command has woken may submit and arm before the
reader is at `FailTurn`, which then ends that turn. Two history variables: `overtaken`, the
end of a turn was handled before the turn was on record; `interrupted`, the turns that a refusal
has ended while something of them was still to come (`Unfinished`).

**AgentBridge.** `wpc` is the line of `_run_prompt_with_respawn` the worker is at; `gen` the
session it holds; `pipe[g]` what gateway `g` has written and its reader has not read;
`wire` all events given to `_emit`, tagged with the prompt they belong to. `Submit` and `Arm` are the
two halves of `prompt()` between which a turn may end unrecorded (`overtaken`, the pairs of prompt and
generation). `Raised` is the except clause with its `close()` and `continue`. `Tell` emits an
event of the worker's own, or is thrown when the event is `cut`: from `Done` into the except clause,
from anywhere else out of the worker, which is then `lost`. Slash expansion is what it leads to: text to
submit, after a notice or not, or `ran` with some output and a `done` to follow.

**EventFanout.** `Emit` takes the copy of `subscribers`, `Put` is one iteration, `Drop` and
`Unsubscribe` the `remove()` that follows a membership test made earlier.

**AgentSession.** `entries` is the persisted transcript and `hidden` the part of it that
`agent.state.messages` lacks (removed errors, compacted turns); `pc` is where the run stands:
`inject`, `stream`, `tools`, `turnEnd`, `prepare` in the loop, `post`, `sleep`, `overflow`,
`threshold` in `_handlePostAgentRun`. `steerQ`, `followQ` are the queues of the agent,
`pending` what the loop has drained from them, `shown` the session's own lists of what is
queued. `StartRun` is `_runAgentPrompt`; `Respond` the end of `streamAssistantResponse`;
`TurnEnd` and `PrepareNextTurn` poll the queues; `PostRun`, `PrepareRetry`, `Retry`,
`CompactionEnds` are what follows a run, each ending in `Continue` (`Agent.continue`) or in
`Settle` (the `finally` of `_runAgentPrompt`). Tool calls of a response complete one by one, and
after an abort any number of them are left without a result. The
model's answer and what a compaction keeps are choices.

**HermesEngine.** `run[t]` is the run that text `t` starts: before `runHermesPrompt`
(`preflight`), about to ask (`turn`), inside `connect`, `ensureSession` or the promise of the
turn. `turn` is `this.turn`, `rpcs` is `pendingRpc`, `inbox` the engine's stdin, `wire` its
stdout. `HandleLine` is `handleLine` with the code its promises wake; `RpcTimeout`,
`ReadyTimeout`, `TurnTimeout` are the timers; `Exit` the process's exit event; `Dispose`
closes the gateway. `NextTurn` takes a follow-up, at most `DrainGuard` of them in a run. A run is
`stuck` when nothing is left that could settle it: its turn has been cleared under it and its
timer has fired. `forgotten` is history: the texts whose turn the gateway has given up before
the engine ended it.
`Says` is what each text says: texts may say the same, and the code tells them apart by nothing else.
`MessageStart` is the removal of an equal text by the `message_start` of a turn's user message
(`hermes-session.ts` 222, `agent-session.ts` 644-664), in `StartTurn` and `NextTurn`; `dropped`
is history, the texts it has removed. `First` and `Landed` are the `indexOf` of the code in a list held
as a set, since texts get into it in the order of their numbers.

**LiveSessions.** `runtime[r]` is a `LiveSession` or the opening that leads to one (`acquiring`,
`reading` its first snapshot, `live`, `abandoned`, `disposing`, `over`). A request's steps are
what `executeCommand` does between two awaits: `Attach` is `acquire` up to its first await
(share, wait, open), `RecordAttachment` is `attach`, `RunOperation` and `EndOperation` the two
halves of `runOperation`, `Detach` and `AfterDetach` those of `detach`. `MaybeDispose` is
`maybeDispose`, called where the code calls it; `Terminate` an error event of a runtime.
`Close`, `CloseConnections`, `WaitForOpenings`, `DisposeAll` are `close()`. A `create` is an
`attach` to a session nobody has opened.

**PiServer.** `stage` is the stage of a connection, `hand` what its `finishHandshake` awaits:
the list (`ReadList`), the hello (`SendHello`), the catch-up snapshot if the revision has moved
(`CatchUp`). `queue` and `pub` are `SnapshotPublisher`'s chain of broadcasts: `Begin` increments
the revision and takes the ready connections, `List` reads the list, `SendSnapshot` sends it
to one of them. `shown` is what a client's `applyServerSnapshot` has made of what it got.

**SessionLeases.** `lease[k].pc` is where the call that acquires, holds or releases lease `k`
stands. `Acquire` is `acquireSession` up to its first await, `Proceed` the part after the wait
for a detachment; `Respond` is `#handleMessage` with the result applied, and the steps of
`Continue` are the code its promise wakes later. `BeginRelease`, `Released`, `ReleaseFailed` are
`detach()` and `dispose()` of a lease. `Down` rejects what is in flight and begins a new
generation. `held` is the server's side: whether this connection is attached there.

## 3. Runs

Times are with two workers on a small machine.

| run | bounds | states | checks |
|---|---|---|---|
| `MCAgentRegistry` | 3 ids, 2 handlers, 2 seconds, no resolvers | 113k, 4 s | `ListShowsOnePrimary`, `ImplementsDirectory` (which implies `LastAgentStays`) |
| `MCAgentRegistrySandbox` | 2 ids, 2 handlers, both may resolve sandboxes | 5k, 1 s | `FreshSandbox` and `LastAgentStays` hold in spite of the unlocked `mkdir` |
| `MCSessionManager` | 3 requests on any of the three routes, 2 agents, 4 creations, deletions | 719k, 92 s | `OneBridgePerAgent`, `UnknownNotServed`, `EveryRequestAnswered` |
| `MCHermesBridge` | 3 prompts of up to 2 pieces of text, one HTTP thread; any request refused or late | 317k, 23 s | `Consistent`, `PromptReturns`, `ImplementsSession` |
| `MCAgentBridge` | 2 prompts, 2 generations, 1 piece of text each, 1 event cut off | 1.42M, 2 min 20 | `Consistent`, `Serialized`, `EveryPromptTerminated`, `NoNeedlessRetry` |
| `MCEventFanout` | 2 clients, one of which leaves; emitters of 3 and 1 events; queues of 1 | 103k, 20 s | `Consistent`, `NoGap`, `EveryEventArrives` |
| `MCLiveSessions` | 3 runtimes, 3 requests, 2 connections, 1 durable session | 438k, 2 min 15 | `Consistent`, `OneRuntimePerSession`, `DisposedWhenUnused`, `EveryRequestAnswered`, `CloseReturns` |
| `MCPiServer` | 1 listener, 1 change, 2 connections with 1 request each | 218k, 45 s | `ServerConsistent`, `UpToDate`, `NeverBack`, `EveryRequestHandled`, `CloseReturns` |
| `MCSessionLeases` | 4 leases | 434k, 60 s | `Consistent`, `ExclusiveExcludes`, `HeldIfLeased`, `EveryCallReturns` |
| `MCHermesEngine` | 3 texts, 2 of which say the same, 1 follow-up in a run | 0.90M, 2 min 8 | `Consistent`, `OwnResult`, `InOnePlace`, `EveryRunEnds` |
| `MCAgentSession` | 2 texts, 1 custom message, 1 tool turn of 2 calls, 2 errors, 1 compaction, 1 retry | 886k, 2 min 12 | `Consistent`, `ResultsFollowCalls`, `DeliveredOnce`, `QueuedIsDelivered`, `AbortReturns` |
| `MCAgentSessionContinue` | the same | violation after 11 states | `CanContinue` |

`Consistent` (`ServerConsistent` in `PiServer`) is a module's type invariant together with what
relates two parts of its state: that whoever waits has somebody to wake it, that a count is the
number of those it counts, that nothing is kept for one who has gone. The type invariants of `AgentRegistry` and
`SessionManager` are proved (section 4) and in no run.

Why the bounds are enough.

* Registry: a deletion of the primary must leave two agents to choose from, by age and, within
  a second, by id; any pair of operations meets any crash.
* Session manager: two requests race to build and a third finds the outcome.
* Engine session: what one turn leaves behind can reach the next and the one after.
* Agent bridge: a prompt can lose its gateway and be retried on a second, or the next one starts it;
  the tail of one prompt can meet the next; one event that is cut off is enough to end the worker.
* Fan-out: a gap needs three events of one thread, a race for `remove()` a second thread, a
  bystander a second client. A queue of one overflows at once; the code's capacity of 1000
  changes only how soon.
* Live sessions: one runtime is being disposed of while the next is opened and a third is the
  one that must not be; of three requests two race and one finds what they leave. Durable
  sessions share nothing but `close()`.
* Session server: one connection is ready while the other is at each stage of its handshake;
  a change makes one revision older than the other.
* Leases: the last of two leases goes, one asks for the session meanwhile, and one follows.
* Terminal engine: one text is in flight, one given up and still in the engine, one next; one
  says the same as another, as a prompt, a follow-up or steering.
* Agent session: an error followed by a retry and an overflow, a response with a result before
  and one after the interruption, two texts that can be told apart and change places.

`CHECK_DEADLOCK FALSE` stands where the system may stop: prompts, requests, connections and
texts are bounded, clients need not come back, and a closed server, a dead engine or an idle
session does nothing.

### Disagreement between code and comment

`MCAgentSessionContinue` refutes `CanContinue`: a response ends in an error; `_prepareRetry` takes
it out of the agent's messages, not of the session, and the retry meets an overflow, whose
response `_checkCompaction` takes out as well; the compaction rebuilds the messages from the
session, which brings both back; the code removes the last of them only (`agent-session.ts`
2388); the other is an assistant message, and `agent.continue()` (`agent.ts` 371-384) throws out
of `prompt()`. The comment above (2384-2387) says that the response is removed *because*
`continue()` rejects an assistant at the end. It takes both recoveries: section 4 proves that with
retries or with compactions alone `continue()` never rejects, and with both only at this line.

### Other disagreements met while modelling

These follow from the same modules and lines and have no run of their own. A property that one of
them would break says so, and exempts the case or assumes it away, as described here.

*The hub*

* The `mkdir` of `resolve_sandbox_cwd` (VS 510) during a deletion of the primary makes
  `rmtree` fail (AR 135) after the profile is gone and before the marker moves; a listing
  whose `ensure_primary` ran before then shows no primary. With `Resolvers` not empty,
  `ListShowsOnePrimary` fails once three handlers take part; the proofs assume
  `Resolvers = {}` for this reason.
* After the agent with the id `primary` has been deleted the hub does not start again: it
  always seeds that id (VS 528-531), while `src/README.md` 135-137 has the marker say which agent is
  primary.
* `get_agent` and `rename_agent` read the marker after releasing the lock (AR 105, 118),
  though the class comment (AR 56) says all reads take it: `is_primary` may be torn.
* `src/README.md` 141-142 has "an unknown agent id on any endpoint is a 404". `/api/skills` does not
  catch the `KeyError` (VS 394), and the connection is closed without an answer. `UnknownNotServed`
  is what holds: no bridge on any route, and a 404 where the `KeyError` is caught.
* A bridge stays in the map when its agent is deleted (SM 69): prompts to a deleted
  agent are still accepted. (No endpoint deletes yet; `delete_agent` is public and tested.)
* `_pending_turn` is set after the prompt has been submitted (HB 87-91): the end of the turn may be
  read before, and the worker then waits for good, with every later prompt behind it. Such a
  turn is `overtaken`, in `HermesBridge` and in `AgentBridge`, and exempt.
* An error response to *any* RPC ends the turn in flight (HB 305), a client's refused or late
  catalog request included, and the refusal of a slash command: its caller is woken first
  (HB 303), may submit the raw text, and have that prompt ended by the reader's next statement. The
  engine goes on with such a turn. `EngineSession` has it as `Interrupt`: `prompt()` raises, and text
  of the turn still comes. `AgentBridge` exempts the prompts it happens to (`spoiled`) from order
  and from the no-retry rule.
* A gateway that dies during `session.create` is reported as an error (HB 322, VS 242-243,
  253-256), not respawned.
* `message.complete` and `turn.end` both finish the turn in flight (HB 259), unmatched: a
  gateway that sends both would end the next turn with the second. The models have one
  frame end a turn.
* `is_dead` is read in the except clause (VS 277), not when the error occurs: an error
  that was already shown to clients is retried if the gateway exits in between.
* An error event of the Hermes bridge loses its message (VS 343 uses `getattr` on a dict).
* A client whose queue was full once is unsubscribed (VS 126), but stays connected and gets nothing
  more, although the worker emits its `done` so that "clients always see a terminator" (VS 270-272).
* `unsubscribe` (VS 117-119) can raise `ValueError` out of `_emit`, when two threads remove the same
  queue. The clients that follow in the list miss the event; `NoGap` and `EveryEventArrives`
  exempt such an event (`cut`). The readers catch the exception (HB 225). The worker emits the
  error of a failed start (262), the last error of a prompt (292) and what a slash command has to
  say (230-233) outside any `try`: its thread ends, and this prompt and all later ones are
  accepted and never answered, although the comment on the backstop `done` wants that "clients
  always see a terminator" (270-272). If it is the `done` itself that is cut off (273), the except
  clause takes that for a failure of the prompt and, if the gateway has died by then, submits a
  finished prompt again. `EveryPromptTerminated` says what is left: a terminator, unless the worker
  is `Stuck`, its thread dead or its turn overtaken. TLC refutes it without either exemption.
* An alias cycle of slash commands (VS 225) recurses until a dispatch fails (VS 210); the text of
  the last alias is then submitted.
* An unsolicited error response before `session.create` returns makes `create_agent_session`
  raise without killing the gateway it has started (HB 398).
* Every worker sets `VERTUS_REMOTE` in the hub's environment before a prompt (VS 166), but an
  engine keeps the environment it was started with.
* The legacy pi bridge's reader ends without finishing the turn in flight (`pi_coding_agent.py`
  116), and the phone ends its turn at anybody's first terminator (`VertusClient.swift` 55).

*The session server*

* `attach()` looks at the connection after `acquire()`, not at the session (`sessions.ts`
  300-307): one may be attached to a runtime that has failed or is being disposed of meanwhile.
  `Consistent` therefore speaks of the connections of live runtimes only.
* `broadcastSnapshot` may fail after the attachment has been recorded (62, 71): the client is told
  an error and stays attached.
* A change that finds no connection ready does not change the revision (`snapshots.ts` 54): a client
  whose handshake has read the list before keeps showing it. `UpToDate` exempts it (`missed`).
* The first request after the hello can be answered before the catch-up snapshot is sent.

*The session client*

* A lease is made out one microtask after its response (`client.ts` 172). A listener that
  disconnects in between leaves a lease of the next generation that holds nothing (209-211, 410);
  `SessionLeases` assumes that listeners do not disconnect in the chunk that grants a lease.
* `session_removed`, which the client handles, is never sent by the server.

*Hermes in the terminal*

* Frames do not name their turn. A turn that is given up (`hermes-gateway.ts` 151) leaves its end
  to the next one: `OwnResult` exempts the ends of texts the gateway has given up (`forgotten`).
* The rejection of a `prompt.submit`, refused or not answered within 90 seconds, sets `this.turn` to
  `undefined` whosever it is (167). A turn can be over before its submit is answered: the
  late end of one that has timed out settles it, or the error of a late answer (319). The next turn
  is then the one cleared: its end finds no turn (386), nor do its timer and the exit of the
  engine (`failTurn`), and `prompt()` stays pending, with the session active and `abort()` waiting,
  although its comment (142) has it "resolve when hermes finishes the turn". So `WaiterHasTurn`
  exempts the texts whose turn the gateway has given up, the cleared ones among them, and
  `EveryRunEnds` the runs that have lost theirs (`LostTurn`); TLC refutes both without the exemption.
* The timer of a turn that has been cleared by the rejection of another's submit is not: after half
  an hour it fails whichever turn is in flight (152). `TurnTimeout` does so, once (`stuck`).
* The `message_start` of a turn's user message removes an equal string from the steering or the
  follow-ups (`hermes-session.ts` 222, `agent-session.ts` 644-664). In the other sessions these lists
  only say what is shown as queued; here they are the queues. So of two equal follow-ups the
  second does not run, and a prompt that says the same as a queued text takes that along, be it
  steering that was carried as a follow-up "so it is never silently dropped"
  (`hermes-session.ts` 93-94). `InOnePlace` has `dropped` as a place, and allows it for this reason only.
* Steering before there is a session is not sent (`hermes-gateway.ts` 176) and waits in the
  steering list if a run is active, where nothing takes it (`hermes-session.ts` 97). Whether the run still
  streams is read after the steering request was awaited: what the engine has taken may be queued as
  well.
* Two first prompts may both create a session; the engine keeps the one nobody uses.
* `abort()` before there is a session interrupts nothing; a dead engine is not started again.
* `dispose()` during a run with follow-ups lets the next one start an engine nobody closes (132).
* A run takes at most 50 follow-ups (175); the others stay queued.

*The coding agent session*

* `prompt()` looks at `isStreaming` long before its run is on record (`agent-session.ts`
  1112-1118, 1211): a second prompt on its way fails in `Agent.prompt` and settles the session
  (925) under the first. `AgentSession` has one prompt on its way at a time.
* The session takes a text off what it shows as queued by what it says, an equal one first, and
  an empty one not at all (`agent-session.ts` 649-663). `QueueShown` is about texts that are distinct
  and not empty; with others the display, and nothing else, may be wrong.
* A custom message flushed after an error hides the error from `_prepareRetry` (2911-2915), which
  looks at the final message only: the retry repeats with the error in its context.
* `clearQueue` (1588) also returns texts the loop has drained already; they are delivered too.
* `abort()` leaves queued messages, which then run; a retry that is cancelled while messages are
  queued is followed by a run all the same; the aborted response of a retry reports
  `auto_retry_end` with success.
* A listener that throws ends the loop with the messages it has drained (`agent-loop.ts` 202).

### Fairness and assumptions

* The hub's threads that can take a step do (weak fairness of worker, readers, emitters,
  SSE threads and requests): they are OS threads and block only where the models say so.
  Locks favour nobody, but a request takes one at most twice. The hub's process is one; nothing
  else writes the registry's directory.
* A gateway that lives serves its pipe and ends its turns (`WF` of `Serve` and `EndTurn`):
  `prompt()` has no timeout and relies on it. It need not say anything, and may die. It is external:
  its behaviour is what the hub's code expects of it, plus death at any moment and refusals of
  the requests in `ErrorReplies`, which in the runs are all of them.
* The TypeScript modules have weak fairness of what the event loop runs (continuations, timers)
  and of the outside only where the code awaits it without a timer. `LiveSessions`: the service and
  the runtimes settle their promises, a busy runtime becomes idle, a closed transport reports
  its end. `PiServer`: awaited
  calls return; a client that says nothing is ended by the handshake timer. `SessionLeases`: a
  server that stays connected answers; a failing one answers with an error. `AgentSession`: the
  model, the tools and the summaries end, listeners do not throw. `HermesEngine` assumes nothing
  of the engine, since every wait has a timer.
* Clients, prompts, deletions, crashes, deaths, disconnects, aborts and `close()` are never forced.

## 4. Proofs

All by TLAPS, for every value of the constants the assumption of the module admits: any number
of agents, handlers, prompts, turns, sessions, connections, leases, requests. Bounds such as
`MaxTurns` are arbitrary natural numbers there. Every inductive invariant was checked with TLC
before it was proved. A proof has one lemma per action, and lemmas that say what the queues, maps
and counts hold after an element comes or goes.

**`AgentRegistryProofs`**. Here and in `HubProofs`, `OldestIsFirst` says that the oldest of
a non-empty set of agents exists, belongs to the set and is first: the least id among those of
least age exists because ids are natural numbers (well-foundedness of `<`).

* `Safe == TypeOK /\ LockInv /\ StoreInv /\ ThreadsInv` is inductive (`AlwaysSafe`). The
  invariants the runs check are not inductive on their own: that a deletion leaves an
  agent needs that `profiles # {arg[t]}` still holds when the profile is removed, hence
  that nobody else is between taking and releasing the lock (`LockInv`) and what each
  place of an operation knows of its argument (`ThreadInv`). Fresh sandboxes need that
  files lie in sandboxes, sandboxes in directories, and that no file is left once there is no
  profile (`StoreInv`), whatever a crash has left half deleted.
  From `Safe`: `Typed`, `SandboxesAreFresh`, `LastAgentSurvives`.
* `Serving == HubInv /\ MarkerInv` is inductive relative to `Safe` if `Resolvers = {}`
  (`AlwaysServing`): once the hub serves, only a deletion under way leaves the marker
  dangling. From it: `ListingsShowOnePrimary`, and `RegistryIsDirectory`, the
  refinement of `AgentDirectory`: `WriteProfile` is an Add, `RemoveProfile` a Remove, and
  every other step, crashes included, leaves the mapped state as it is, because until a
  dangling marker is repaired the mapped primary is the one the repair will choose.

**`HubProofs`**, on the session manager. `Mapped == TypeOK /\ LockInv /\ MapInv` is inductive: the map
and the list of bridges are each other's inverse, and while a thread builds a bridge under
the lock its agent has none. From it `Typed` and `OneBridge`. `KnownInv` (bridges and
validated requests belong to agents that have existed, and so do answers other than a refusal) gives
`UnknownAgentsNotServed`: a request for an agent that has never existed never gets a bridge, and a
404 wherever the `KeyError` is caught. It cannot give the 404 on every route, which is refuted.

`HubProofs`, on the fan-out (its specification is `FanoutSpec`, so that one module can extend both).
`FanoutIInv` is inductive; its parts beside the types are:

* a client is in the list of subscribers once at most, and only from its subscription to the end of
  its thread; it is once at most in what an emission still has to serve, and then it has subscribed
  (`ListInv`). So one `remove()` takes it off the list for good, which gives `NoOrphanQueue`;
* a client has no event its thread has yet to emit or that is still to come to it (`NumberInv`), hence
  an event that is put into a queue is the newest of its thread there;
* after an event that a client has got, every later one of that thread has been got, or was cut off
  by an exception, or is the one on its way to the client; or else the client is off the list and in
  no copy of it that this thread still walks through, and gets no more (`GapInv`). `NoGap` itself
  does not look at events that have yet to be put, so it is not inductive without this.

From it `NoOrphanQueue` and `StreamsHaveNoGap`. `NoGap` speaks of positions in the stream; the facts
the proof needs of lists (`AppendIn`, `TailIn`, `RemoveFirstIn`) say who is in a list, and who is there
once, after an element is appended, taken from the front, or removed.

**`HermesBridgeProofs`**. `Awaited == TypeOK /\ WakerInv /\ DeathInv /\ TurnInv /\ ErrorInv /\
CallInv` is inductive (`AlwaysAwaited`), for any visitors and any requests the gateway refuses or is
late with. That a waiting worker has a waker must be known from the moment its prompt is
written: before the turn is on record (`arm`) its end may be on its way, or missed by the reader's
last act, which the check of `is_dead` that follows (`check`) makes good (`WakerInv`). It needs that
a reader that is done has seen a dead gateway (`DeathInv`). That a death is not blamed on the
engine needs that each error in the pipe has been reported (`ErrorInv`); that no RPC is left behind,
that whoever waits is registered until the reader is over (`CallInv`). From it `NobodyWaitsInVain`.

`BridgeIsSession` is the refinement of `EngineSession`. It rests on a second invariant, `Kept`,
inductive relative to `Awaited`: a turn is requested, runs, or has its last frame on its way, one
after the other (`OnceInv`) and all of it while the worker is at that turn or the turn was
interrupted (`OwnInv`); nothing of it is left once the worker can be told of its end, again unless it was
interrupted (`ToldInv`); and a session does not outlive an interrupted turn (`CutInv`), which is why
what the engine still says of it never meets another prompt. Then the end of a turn is a Finish,
the delivery of text a Say, the way to `submit` a Call, a refusal that ends a turn under way an
Interrupt, a raise or a normal wake-up a Return, and all other steps leave the mapped state alone.
There is no hypothesis: whatever the gateway refuses or is late with, be it for the worker or
for a visitor, an interrupted `prompt()` raises and the worker closes the session.

**`AgentBridgeProofs`**, in three layers, each inductive relative to those before.

* `Placed`: the queue holds the prompts that follow the one the worker runs, and the gateways
  other than that of the worker's session are down (`BridgeConsistent`).
* `Piped`: what is left in the pipes. Frames of a turn come only from the gateway of the session
  in use, for the prompt in progress, and the last of them once; an earlier session's pipe
  holds nothing but what a refusal has interrupted, and a reader that is through has left nothing
  (`DeadInv`), so that no end is still to come when `Arm` finds the gateway dead. This is what the lack of any tag on the
  frames makes necessary: the reader attributes a frame to nobody, so that order depends on
  what is left when the worker goes on.
* `Ordered` gives `EventsSerialized`, `FinishedInv` gives `RetriesAreNeeded`: a prompt that its
  engine has finished has its end in the pipe or in the worker's hands, hence is not raised, unless
  that end has escaped (`EndEscaped`): behind a refusal, before the turn was recorded, or with a
  `done` that was cut off, all three described in section 3.

**`LiveSessionsProofs`**. `Mapped` (the two maps and the runtimes' stages agree; a runtime being
opened has a request that waits for it; operations are counted) and `Attached` are inductive
together (`AlwaysAttached`). That no runtime is leaked (`NotTooLate`) is an invariant only with all
of them: each action that takes away the last reason to keep a runtime must leave a request that
will call `maybeDispose`, or call it itself. The module assumes that there are connections
and sessions at all. From it `AttachmentsAgree`, `SessionOpenedOnce`, `UnusedAreDisposed`.

**`SessionProtocolProofs`**, on the server (its specification is `ServerSpec`, so that one module
can extend both ends). `Handshaken` (stages, greeting and handshake agree) is inductive and gives
`StageAgrees` and, with the client's check of the revision, `ClientsGoForward`. `Published` adds that whatever list a handshake has read, a broadcast carries or a client shows is the
current one *or* a broadcast is to come that will reach that client (`Fresh`): `ClientsUpToDate`.

`SessionProtocolProofs`, on the client. `Leased` is inductive (`AlwaysLeased`): the count is right
(`CountInv`) because what each stage of a call knows about the session stays true until it goes on (`StageInv`),
there is one request in flight (`RequestInv`), and a lease that releases the session is the last:
the others only wait (`LastInv`). `DownInv` says what a lost connection leaves, `HeldInv`
relates the server to what the client believes and to the response on its way. From it
`LeasesConsistent`, `ExclusiveAlone`, `LeasedIsHeld`.

**`HermesEngineProofs`**, for any number of texts and any `DrainGuard`. `EngineIInv` is inductive
(`EngineInvariant`) and has two parts that need each other.

* `Core`: where the texts are. The texts of the runs, the follow-ups, the steering, the dropped ones
  and the results are disjoint and are together what has been typed (`PlaceInv`). A text is dropped
  only when another that says the same has had its turn begun (`DroppedInv`), and a text that had
  its turn begun is in a turn or has its result ever after (`HadKept`). No two runs have the same text
  (`HolderInv`), none is queued twice (`QueueInv`), and the run of a text that was not a prompt has not
  begun (`NewInv`). A text given up has its result or a run that still waits (`ForgottenInv`), which
  is why it is never submitted again.
* `Matched`: what the engine has of a text. It is the request, the work or the line that ends it,
  one of them and once (`OnceInv`), and the text is that of the turn in flight or one given up
  (`EngineInv`). Lines do not name their turn, so this is all that keeps `OwnResult` true: the end
  that settles a turn can only be its own or one of a text given up.

From it `WaiterKeepsTurn`, `OwnResults`, `TextsInOnePlace`. The proof found what the runs with three texts
had not shown. A first version of the model had the submit of a finished turn answered in time, and
claimed that nobody clears the turn of another; the induction fails at the rejection of a submit,
where it is not so (see section 3, *Hermes in the terminal*).

**`AgentSessionProofs`**, for any number of texts, notes, tool calls, errors and retries and either
queue mode. `IInv` is inductive (`AlwaysIInv`); its parts beside the types are:

* `TextInv`, text by text. The three queues and the transcript hold a text once each (`Singly`);
  of the five places only one has it, if any, only a text that was submitted is anywhere, and one
  that was not cleared is somewhere (`Alone`). What is shown is what a queue or the loop holds and
  was not cleared (`ShownAs`). `DeliveredOnce` counts positions and `QueueShown` compares sets;
  neither can be carried through a step as it stands, since what a poll does to a queue
  (`DrainIs`) and a delivery to the transcript (`ConcatIn`) is said element by element.
  `TextsMove` states once what every action that moves texts has to satisfy.
* `PendingInv`: what the loop has taken from a queue it delivers before it polls again, ends or
  compacts. Without it a retry, which polls too, could drop what an earlier poll has taken.
* `CallInv`: while tools run, the transcript ends in the response that called them and results of
  that response, so the next result, too, is attributed to it. It holds because notes wait while
  a run is active, hence needs `IdleIsIdle`: a run that is not idle is active.
* `ResultInv` is `ResultsFollowCalls` with the place of the response added.

From it `SessionConsistent`, `ResultsFollow`, `TextsDeliveredOnce`. The transcript only grows, and
grows by messages that are no results except where a tool has run (`Longer`, `LongerKeeps`), so most
actions need no more than that; what compactions hide plays no part in these properties.

It does for `continue()`. `ContinueInv` says when a run's visible messages end in one of the model's
and when they do not: before the model is asked they do not, unless there is a text to deliver
(`TurnInv`); after it has answered, hiding that answer leaves none at the end (`OneAssistant`), which
is what lets a retry go on. `OverflowInv` says the same of the whole session without its hidden
entries, which is what a compaction shows again; it is inductive only without retries, since a
retried error stays in the session. From it

* `OneRecoveryContinues`: `CanContinue` if `MaxRetries = 0` or `MaxCompactions = 0`. The first
  is what `retry.enabled` off amounts to, the second that no compaction comes to its summary;
  neither restricts anything else.
* `OnlyOverflowRejects`, for every value of the constants: a retry, and a `continue()` for queued
  messages after a run, a cancelled retry or a compaction, always find something to continue from;
  the one call that may reject is that after the summary of an overflow.

Only model-checked:

* liveness (`EveryRequestAnswered`, `PromptReturns`, `EveryPromptTerminated`, `EveryEventArrives`,
  `CloseReturns`, `EveryRequestHandled`, `EveryCallReturns`, `EveryRunEnds`, `QueuedIsDelivered`,
  `AbortReturns`), which is out of the prover's reach;
* that `CanContinue` does not hold with both retries and compactions.

## 5. Not modelled, and why

* Authentication, JSON and JSON-lines framing, HTTP, binding of sockets, keepalives, Unix
  listeners: input checks and I/O.
* Tool activity events, stderr of the gateway, agent names, wording of messages, prompts and
  summaries.
* Alias chains of slash commands, which end as text or as output like any other command; the hub
  without an SDK (VS 167-169); `interrupt()` of the hub's engine session, which has no caller.
* Of the terminal's Hermes session: empty texts and the blanks around a text, which the code trims
  when it takes a follow-up (`hermes-session.ts` 176-178), so that two texts are equal or not.
* Of the coding agent session: manual `compact()`, `sendCustomMessage` with `triggerTurn`,
  navigation in the tree of entries, model and thinking-level changes, bash execution itself,
  overlapping prompts and listeners that throw.
* Of the session server: the content of session snapshots and the wrapping of commands; a
  runtime's own work is `RunOperation` to `EndOperation`.
* Of the session client: cached session snapshots and event listeners.
* The legacy pi bridge, session storage with its writer leases, the file mutation queue, plan mode
  and the other extensions, the SDK: possible, not done yet.
* The providers and their generated catalogues, the terminal UI, exports, the Swift and browser
  clients: data conversion and user interface, which are most of the TypeScript lines. The share
  of the lines that is modelled is small for that reason: the state machines are a few files.

## 6. Plan

1. The legacy pi bridge as a second implementation of `EngineSession`.
2. The writer leases of the session store and the file mutation queue.
3. Clients on top of `EventFanout`: reconnection and the turn a client believes it is in.
4. Plan mode: the toggle, its persistence and the filter of notices.
