# CoVibeCode in TLA+

CoVibeCode is a desktop application (Rust/Tauri backend, Svelte frontend, optional
web server) that runs coding-agent CLIs as child processes, one *run* per
conversation, and shows what they do in one or several clients. This directory
holds models of the parts of the backend in which order, interleaving and failure
decide correctness, the TLC runs that check them and the proofs TLAPS checks.

`rs:` below stands for `src-tauri/src/` in the repository.

## 1. Inventory of the system

| Part | Where | State it keeps | Operations | Talks to |
|---|---|---|---|---|
| Event log | `rs:storage/events.rs` | `events.jsonl` per run; a process-wide map run -> (next number, tail repaired) behind mutexes | append an event, repair the tail, snapshot, copy for a fork, page read | everybody who emits; readers take no lock |
| Session actor | `rs:agent/session_actor.rs`, `turn_engine.rs` | active turn, ticket queues, quarantine, Ralph loop, pending prompts, error tracking | one task per live session: mailbox, stdout, stderr, 500 ms tick, cancellation | CLI over two pipes, event log and broadcaster, meta.json |
| Session commands | `rs:commands/session.rs` | `ActorSessionMap`, `SpawnLocks` | start, resume, send, control, respond, fork, approve, stop | actor mailboxes, run metadata |
| Event delivery | `rs:web_server/broadcaster.rs`, `ws.rs` | two broadcast channels; per connection: subscriptions with a checkpoint, replaying set, replay buffers, pending full reloads | emit (persist, then publish), forward, subscribe, replay, flush, catch up after lag | event log, frontend transport |
| Frontend transport | `src/lib/transport/websocket.ts` | subscriptions, last number per run, open requests | connect, reconnect, subscribe, call | ws.rs |
| Frontend store | `src/lib/stores/event-middleware.ts`, `session-store.svelte.ts` | loaded run, last processed number, batches, pending permissions | load with catch-up, apply, deduplicate | transport |
| Codex session | `rs:agent/codex_appserver.rs`, `codex_control.rs` | root and claimed threads, buffer of unclaimed messages, pending requests of a JSON-RPC server | open a thread, turns, approvals | the actor's Codex branch |
| Interaction responses | `rs:agent/session_actor.rs`, `src/routes/chat/+page.svelte` | durable facts in the log: response started, failed, resolved; a card on every page | answer, give up, load | actor, log, pages |
| Run metadata | `rs:storage/runs.rs` | `meta.json` per run behind a lock that only some writers take | create, status, result errors, soft delete, archive, orphan reconciliation | actor, commands |
| Protocol mapping | `rs:agent/claude_protocol.rs` | emitted tool ids, the latest tool, error tracking | a line of the CLI to bus events | actor |
| History projection | `rs:storage/history.rs` | entries, streams, open tools, pages and spools of a build; generations on disk, `current.json`, retention | read lines of any length, build, publish, clean up, page | event log, frontend |
| Run and prompt index | `rs:storage/run_index.rs`, `prompt_index.rs` | entries and a manifest of fingerprints, a cache | rebuild, query | run directories |
| Pipe chat | `rs:commands/chat.rs`, `agent/stream.rs`, `pipe_parser.rs` | process map, one process and task per message | spawn, pump, time out, stop | event log, meta.json, page |
| CLI import | `rs:storage/cli_sessions.rs`, `codex_sessions.rs` | watermark in `meta.json`, `import-index.jsonl` | import, sync, reconcile | transcripts of the CLI, event log |
| Configuration | `rs:storage/settings.rs`, `favorites.rs`, `cli_config.rs`, `mcp_registry.rs`, `plugins.rs` | settings, favourites, files of the Claude and Codex CLIs | read, change, write back | the file system |
| Forks, side questions | `rs:commands/session.rs`, `agent/claude_stream.rs` | sessions of the CLI, processes of their own | fork a session, ask beside it | CLI, log, chat page |
| Credentials, providers | `rs:agent/claude_stream.rs` (gate), `storage/settings.rs`, `agent/adapter.rs`, `agent/spawn.rs` | a semaphore; settings resolved at each launch | take the gate, resolve | CLI processes |
| Web server, login | `rs:web_server/*` | listener, generation, effective port; tokens | start, restart, stop; dispatch, login | commands |
| Usage and scan caches | `rs:storage/claude_usage.rs`, `codex_usage.rs`, `cli_sessions_common.rs`; `extract_run_usage`, `scan_run` | results in memory, cache files; the tally of one reading of a log | scan, keep, read; add up what a run reported | transcripts, event log |
| Chat page | `src/routes/chat/+page.svelte`, `session-store.svelte.ts` | the run shown, the operations under way | navigate, load, resume, fork, send, stop | commands, event delivery |
| Catalogues, teams, shell, other pages | `rs:storage/*`, `rs:commands/*`, `rs:lib.rs`, `src/lib/*` | JSON files, windows | read, aggregate, show | the file system |

What is hard in it, and what correctness means there:

* **Event log.** Several tasks write one file; a write can fail half way, the
  process can die, entries of the writer map are collected, readers look at the
  file while a line is being written, a fork copies a log that is still growing.
  Correct: the numbers of a run are 1, 2, 3, ... without repetition or hole; what
  was acknowledged, and what was shown to a reader, stays; a catch-up misses
  nothing; a fork misses nothing.
* **Session actor.** The CLI answers late, or never, or dies; users send messages,
  interrupt, stop, answer prompts from several clients and run a Ralph loop at
  the same time; timeouts take a turn away from a CLI that is still busy with it.
  Correct: one turn at a time in the CLI; every caller gets one reply, and an
  error only when its message did not run; messages keep their order; every
  prompt can be answered, once; the shown state and the final verdict are right;
  a quarantine ends.
* **Session commands.** Start, stop, resume and fork of one run race. Correct: at
  most one actor per run, and metadata that matches it.
* **Event delivery, transport, store.** Numbers are assigned under the log's lock
  and published after it; channels drop messages; replays, live events, lag
  catch-up and reconnects overlap. Correct: every client ends with every event,
  once and in order, or reloads.
* **Run metadata.** Written by actor and commands, some of which write whole copies they
  read earlier; a crash leaves `running`. Correct: the status tells whether a session is
  there, and orphans are reconciled.
* **Codex session.** Many threads share a connection, the messages of those nobody has
  claimed wait in a bounded buffer, and the server blocks on every request. Correct:
  each interactive request gets one reply, each message of the user reaches the thread.
* **Interaction responses.** Three writes around the one that matters, each of which may
  fail; the run may end and be resumed in between. Correct: one answer at most, and a
  prompt that waits is offered.
* **Protocol mapping and timeline.** The calls of agents are streamed into each other;
  messages are shown before they are confirmed. Correct: one card per call, in its place,
  with its state and input; each message as often as it was said.
* **History.** A live run is cut where nothing is open; generations are built, published
  and removed while clients page through older ones. Correct: what a page has shown stays;
  a client keeps its generation; an ended run is shown whole. Entries are split into pages of bounded size and patched
  afterwards; a line too long to be parsed is scanned byte by byte. Correct: every entry once, in order, with its own text.
* **Index.** Files are read while sessions write them. Correct: what is kept is current,
  and the costs are those of the sessions.
* **Pipe chat.** All processes of a run share one entry of a map. Correct: each message is
  told what became of its process, and no process is forgotten.
* **Import.** A transcript grows, or shrinks, while it is read; the watermark, the keys and
  the events are saved one after the other. Correct: every line once.
* **Configuration.** Several writers without a lock. Correct: no broken file, no key lost
  unseen.
* **Codex turns.** Actor and server each act on what the other was some messages ago. Correct:
  one turn at a time, in order, with the settings chosen for it; nobody waits for nothing.
* **Chat page.** Each operation is a chain of awaits, and the user goes elsewhere in between.
  Correct: the page shows the run it names, all of it, and nothing of another.
* **Forks, side questions.** Each is a process besides the run's own. Correct: a fork remembers
  what it shows and works on a session of its own; an answer belongs to its question.
* **Credentials, providers.** Processes share one credentials file; settings change between
  launches. Correct: no two refreshes race; key, URL and model are of one provider, the run's.
* **Web server.** A stop waits only so long for the old server. Correct: one server, shown as it is.
* **Caches.** What is scanned changes meanwhile. Correct: what is kept is current.
* **Usage.** Processes report running totals or turns, restart, fail and are abandoned. Correct: no cost is counted
  twice or lost, two readers of one log agree, and each turn has an index of its own.
* **The rest** are sequential transformations or file I/O.

`PROJECT.json` lists these hazards one by one with their lines.

## 2. Modules

| Module | What it is |
|---|---|
| `AppendLog` | the abstract promise: per run one append-only sequence of numbered events, acknowledgements only for what it holds |
| `EventLog` | `storage/events.rs` in detail |
| `EventLogProofs` | theorems about `EventLog` with their proofs |
| `HistoryProjection` | `storage/history.rs`: builder and boundary tracker over any log |
| `HistoryGenerations` | `storage/history.rs`: generations on disk, locks, publication, clean-up |
| `HistoryPages` | `storage/history.rs`: pages, files of tools, sub-histories, limits, a paging client; extends the projection by what the files hold |
| `LongLines` | `storage/history.rs`: `read_bounded_line`, the metadata scanner, the extraction of one field |
| `RunUsage` | `extract_run_usage`, `scan_run` and the numbering of turns over the restarts of a run |
| `MCReading` | bounded instance of the last three |
| `LogReadingProofs` | theorems about `RunUsage` and `LongLines` with their proofs, for the behaviours of `MCReading` |
| `CliImport` | `storage/cli_sessions.rs`: import, sync and reconciliation of a transcript |
| `CodexImport` | `storage/codex_sessions.rs`: import and sync of a Codex thread |
| `ImportIndex` | the index of imported events that both use: `load_import_skip_set`, the buffered writer |
| `RunIndex` | `storage/run_index.rs` |
| `ScanCaches` | the caches of usage, of thread summaries and of prompts |
| `InteractionResponses` | the answer to one prompt, from the button to the CLI and back |
| `ConfigFiles` | the files that commands read, change and write back |
| `StoredFilesProofs` | theorems about `ConfigFiles`, `HistoryGenerations`, `InteractionResponses`, `ScanCaches` and `RunIndex` with their proofs |
| `MCStorage` | bounded instance of `EventLog` and the eight modules of storage above |
| `StorageProofs` | the theorems of `StoredFilesProofs`, for the behaviours of `MCStorage` |
| `SessionActor` | `agent/session_actor.rs`, Claude path, with its callers and the CLI around it |
| `SessionActorProofs` | theorems about `SessionActor` with their proofs |
| `MCSessionActor` | bounded instances of `SessionActor` |
| `WsSession` | `broadcaster.rs` and `ws.rs`: emitters, the A-channel, one connection's two tasks |
| `WsDelivery` | extends `WsSession` with the client: `websocket.ts`, `event-middleware.ts`, the loading and numbering part of `session-store.svelte.ts` |
| `WsDeliveryProofs` | theorems about `WsDelivery` with their proofs |
| `MCWsDelivery` | bounded instances of `WsDelivery` |
| `SessionLifecycle` | `commands/session.rs`, `storage/runs.rs`: the commands, actors and meta.json of one run, to the exit and restart of the application |
| `CodexAppServer` | `agent/codex_appserver.rs` and the actor's Codex branch |
| `CodexTurns` | the turns of a Codex thread, its settings, client requests and cards |
| `PipeChat` | `commands/chat.rs`, `agent/stream.rs`: a run with a process per message |
| `ChatTimeline` | `agent/claude_protocol.rs` and the store's reducers of calls and messages |
| `RunView` | which run the chat page shows: store, middleware and page handlers |
| `WebServer` | `web_server/mod.rs`: start, restart, stop |
| `Forks` | `fork_session`, `fork_oneshot`, and starts of the forked runs |
| `SideQuestions` | `side_question` and the panel that shows the answer |
| `Credentials` | the processes that refresh credentials, and the gate between them |
| `ProviderEnv` | host, credential, URL, model and flags of a process |
| `ServicePartsProofs` | the inductive invariants of `PipeChat`, `WebServer`, `Credentials` and `ProviderEnv` |
| `MCServices` | bounded instance of `SessionLifecycle` and the ten modules above |
| `ServicesProofs` | theorems about `SessionLifecycle` with their proofs, and about these four parts for the behaviours of `MCServices` |

The modules meet at what they share in the code: `EventLog` is the log that the others
append to or read; `SessionLifecycle` sees an actor through its task and meta.json,
`SessionActor` through its turns, `InteractionResponses` through one prompt;
`HistoryGenerations` takes from `HistoryProjection` that some lengths of a log are safe
points; `ChatTimeline` takes from `WsDelivery` that events arrive in order.
`MCStorage`, `MCServices` and `MCReading` are sums, not products: the initial state chooses one part
and only its actions are taken. Each module says which of the others' behaviour it
leaves open.

### EventLog

A line is `[seq, ev]`. A file is split into `log[r]`, the lines that end in a newline,
and `tail[r]`, the bytes behind the last newline: none, a fragment that does not
parse (`torn`) or a complete JSON value that lacks its newline (`whole`). `writer`
is the map of `RunWriterState`, `holder` the per-run mutex, `op[p]` the call a task is
executing, `rd[q]` a page read. `issued`, `acked`, `shown`, `owed`, `forked` are history.

| Action | Code |
|---|---|
| `BeginWrite` | `write_*_event` up to `run_lock`, with the collection of the map and the first `next_seq` |
| `LockAndRepair` | the mutex, `ensure_tail_repaired`, the number read again from the repaired file |
| `WriteFragment`, `WriteLine`, `WriteNewline` | the `writeln!`: the bytes of the line, possibly in pieces, then the newline; `Ok(seq)` |
| `WriteFails`, `OpenFails` | `Err` after some bytes, or before any |
| `BeginFork`, `Snapshot`, `CreateTarget`, `CopyLine`, `EndCopy`, `CopyFails` | `fork_session` and `copy_bus_events` |
| `BeginRead`, `ReadLine`, `ReadFragment`, `ReadWholeTail`, `ReadOversized`, `EndRead` | `list_bus_events_page`, which takes no lock |
| `Crash` | the process dies: the map, mutexes and calls are gone, the files stay |

`next_seq` looks at the last 4 KiB first. Lengths are abstracted to one bit: an event
in `Big` has a line longer than that window, so the window holds the lines behind the
last big one; with none, the whole file is scanned. The three writing functions
differ in the payload only and are one action. The pages of one catch-up resume at
the line where the previous one stopped, so a read is one pass over the file.

### SessionActor

The actor is one task: every handler of its `select!` loop runs to its end before the
next one starts, so a handler is an action. The methods it calls
(`try_dispatch`, `start_user_turn`, `ralph_on_turn_end`, `emit_state`, ...) are
operators from the actor's private state, the record `eng`, to the next one. Three
other parties interleave with it: callers, who fill the mailbox; the CLI behind
`stdin` and `stdout`; and the clock, whose timers may fire whenever they are armed.

| Action | Code |
|---|---|
| `SendMessage`, `Interrupt`, `StopSession`, `Respond`, `StartRalphLoop`, `CancelRalphLoop`, `AppExit` | the commands of `commands/session.rs` that post to the actor; the exit handler of `lib.rs` |
| `HandleSendMessage`, `HandleInterrupt`, `HandleStop`, `HandleResponse`, `HandleStartRalph`, `HandleCancelRalph` | the mailbox branch |
| `ReadResult`, `ReadPromise`, `ReadPrompt`, `ReadWithdraw` | the stdout branch: results, Ralph text, control requests and their withdrawal |
| `HardTimeout`, `QuarantineInterrupt`, `QuarantineKill`, `RetryRalph` | the tick |
| `HandleEof`, `HandleCancelled`, `Cleanup` | the ends of the loop, and `cleanup` |
| `Cli...` | the CLI, external: as the code in `src/` uses it |

The record also holds history: `reply` and `answers` (what each caller was told, how
often each request was answered), `interrupted` (the user interrupted this very turn)
and `outcome` (how the last turn ended as its user saw it). Four kinds of interactive
request (permission, hook, elicitation, user input) follow one path and are one kind of
prompt; `Permissions` marks those the "remember this tool" answer applies to.

A write to stdin fails exactly when the process is gone. In the model a result, a
prompt and a withdrawal are the only lines that matter; text matters when it holds the
promise of a Ralph loop.

### WsSession and WsDelivery

One run, one connection at a time, one page. An event is its sequence number and `log`
counts the events in the file. On the server `sess` is the run's part of `WsSession`
(subscribed, checkpoint, replaying, buffer, pending full reload), `task["fwd"]` and
`task["cmd"]` are `a_forward` and `cmd_loop`; a task gives up the session's lock before it
sends, so everything under one lock is one action and every send is one. `up` and `wire`
are the two directions of the socket. On the client `tr` is the `WsTransport`, `mw` the
`EventMiddleware`, `st` the `SessionStore`; the client is single-threaded, so a handler and
the promise reactions behind it are one action.

| Action | Code |
|---|---|
| `Persist`, `Publish` | `persist_and_emit_durable`: number and line under the writer's lock, broadcast after it; a full channel drops its oldest message |
| `FwdSkip`, `FwdBuffer`, `FwdTake`, `FwdSend`, `FwdMark`, `FwdLagged` | `a_forward` |
| `Subscribe`, `Unsubscribe`, `ReadHistory`, `Reply` | `cmd_loop` |
| `ReplayPage`, `ReplaySend`, `ReplayDone`, `ReplayFails` | `replay_events`, `advance_checkpoint`, by either task |
| `Drain`, `FlushSend`, `FlushMark` | `flush_replay_buffer` |
| `BeginFullReload`, `SendFullReload` | `send_full_reload` |
| `OpenRun`, `StartSession`, `LeaveRun` | `subscribeCurrent` with `loadRun`; `_wsSubscribeNewSession`; another run is opened |
| `RequestHistory`, `OnHistory`, `OnNoHistory` | the reads of `loadRun`, and the subscription that follows them |
| `OnAck`, `OnNack`, `SubscribeTimeout` | `confirmSubscription` and what hangs on it: `finishHistoryLoad`, or the socket is closed and asked for again |
| `OnEvent`, `Flush` | `handleMessage` and the microbatch, `applyEvent` and `applyEventBatch` |
| `OnFullReload`, `RetryReload` | `_full_reload`, `_requestFullReload`, `_performFullReload` |
| `Connect`, `ConnectFails`, `Drop`, `OnClose`, `Supersede` | `connect`, `onopen` with `resubscribeAll`, `onclose`, a second socket while the first one is closing |

A failed send, or a task of the connection that ends, is `Drop`. The several reads of a
history load are one request: what happens between them can only make the load stale, which
`stale` counts. `ghost` is history: `gone`, what the channel overwrote and `a_forward` has
not noticed; `owed`, what an unfinished full reload must bring; `excused`, the events a page
may lack, each for one of three reasons the model names: it was broadcast after a later
number (see `WsOrder`); it was overwritten while its run was being replayed or waiting for a
reload, which the lag branch leaves out; the connection ended between `begin_full_reload` and
the delivery of `_full_reload`, after which the next one starts from the client's checkpoint,
which live events may have moved past the hole.

The properties ask that everything that is not excused is on the page (`NoHole`), that no event is
shown ahead of an earlier one (`InOrder`), that the number a page would resume from is
honest (`CheckpointHonest`), and that an open page shows every event in the end or tells
its user that it failed (`CaughtUp`). An event can be shown twice: `applyEventBatch` applies
what it is given, and a replay and an event that `a_forward` holds may meet in one batch.
So no property counts occurrences.

### SessionLifecycle

A command is an operation slot whose `pc` names the await it is at. `lock` is the run's entry
of `SpawnLocks`, `registered` that of `ActorSessionMap`, `held` the handle a command took out of
the map or spawned, `seen` the meta.json it has read. `start`, `resume`, `stop`, `fork` and
`approve` take the lock; `stop_run`, delete and archive do not. `writer` is history: who wrote the
status last.

| Action | Code |
|---|---|
| `CallLocked`, `CallUnlocked`, `PreflightOk`, `PreflightFails` | entry of a command, `SpawnLocks::acquire`, validation and the probe of the provider |
| `Mark` | "spawning" is emitted and the status becomes Running |
| `Take`, `Wait`, `After` | `stop_actor`: out of the map, Stop, the wait; then Stopped where the code writes it |
| `SpawnOk`, `SpawnFails`, `Insert`, `SendFirst`, `SyntheticIdle` | spawn, the map's entry, the first message, the idle of a resume without one |
| `ReadCopy`, `WriteCopy` | `soft_delete_runs`, `set_runs_archived` |
| `TurnEdge`, `PersistTurnEdge`, `Eof`, `HandleStop`, `Reaped`, `Cleanup` | the actor: `persist_idle_running`, `handle_eof`, `reap_gracefully`, `cleanup` |
| `Quit`, `Drain`, `Die`, `Restart` | the exit handler, `graceful_shutdown_actors`, the end of the process, `reconcile_orphaned_runs` |

`StatusHonest` names who may leave a wrong status: `lateActor` (start writes Running before it
stops the old actor, whose last write comes after it), `stopRun` (without the lock it meets a
start), `stale` (a whole copy is written back; a deletion can be undone in the same way),
`preflight` (it trusts such a status), `failedStart` (a start that fails after Running leaves it),
`idle` (the idle of a resume whose CLI has already ended). `OneCli` excepts a `stop_run` that
still waits, and the exit.

### CodexAppServer

`driver` holds the fields of `CodexAppServer`, the buffer as one sequence in the order of arrival;
`engine` the actor's queue, turn and prompts; `fate` what became of each request.

| Action | Code |
|---|---|
| `ServerText`, `ServerSpawn`, `ServerTurnOver`, `ServerThreadStarted` | notifications: `handle_notification`, `register_subagents`, `replay_deferred_thread`, or `defer_thread_message` with its three limits |
| `ServerRequest`, `ServerRequestNoThread` | `handle_server_request` |
| `ServerOtherRequest` | a request of a method that is not one of the seven interactive ones: `parse_line` ignores it |
| `ServerOpened`, `ServerOpenFailed` | the reply to `thread/start`, with or without a thread id; an error is ignored by the code, and the start waits for ever |
| `Send`, `Respond` | `try_dispatch`, `start_user_turn`, `frame_user_turn`; `frame_response` |
| `Tick`, `Age` | `expire_deferred`; the clock |

Every line also runs what `handle_codex_line` does after `parse_line`: the gate opens, prompts are
recorded, a turn's end dispatches the next message.

Two exceptions are part of the properties. `OneReply` is about interactive requests: any other is ignored
and the server waits for ever. `TurnReachesThread` leaves out a new thread whose opening reply does not name
it: the session is ready, but without a thread id no frame is written, so the first turn is dropped and stays
active.

### InteractionResponses

| Action | Code |
|---|---|
| `Begin`, `Write`, `Finish` | `deliver_interaction_response`: the durable start, the write to the CLI, the durable outcome and the reply |
| `Load`, `Deliver` | a page is loaded from the summary of any prefix of the log and catches up; `applyEvent` |
| `Click`, `Return`, `GiveUp`, `NoSession` | `respondPermission` on a page and its `[interaction:...]` errors, timeouts and lost connections |
| `Withdraw`, `End`, `Resume` | the CLI withdraws its request; the session ends; the run is resumed |

A write of the log may fail, or be reported as failed although its line is complete (`ghost`, as
`EventLog` allows). `StillOffered` excepts `ghost`, where the page shows a response under way that
was not begun, and pages that gave up on a call (`blind`).

### PipeChat

| Action | Code |
|---|---|
| `Send`, `Spawn`, `Insert` | `send_chat_message`; `run_agent` up to the process map, whose former child is dropped and so killed |
| `ReadTurnFailed`, `IdleTimeout`, `Remove` | the output, `CODEX_IDLE_TIMEOUT`, the end of both pipes |
| `WriteStatus`, `EmitState` | the verdict from whichever child was in the map |
| `StopRun`, `StopWait`, `StopWrite`, `PageStop` | `stop_run`; the page's stop button, which asks `stop_session` in vain |
| `Exit`, `ReadCopy`, `WriteCopy`, `Crash` | the process, an archive, the end of the application |

The truth about a message is asked only of those that met no other (`mixed`). `Settled` further
excepts a command line that could not be built, which leaves Running; a `stop_run` that stops
nothing, writes all the same, or is late; and a copy that is written back.
`OneProcess` allows a second process from its spawn until it is in the map, and while somebody
waits for the end of the first.

### ChatTimeline

| Action | Code |
|---|---|
| `Say`, `Begin`, `BeginFails` | the optimistic entry, `start_user_turn`, its failure; in pipe mode the message is emitted at once |
| `BlockStart`, `BlockDelta`, `Assistant`, `BreakOff`, `ToolResult`, `Result` | the lines of the CLI through `claude_protocol.rs` and the reducers of tool events |
| `Resume`, `StreamAgain` | a new `ProtocolState`, and a CLI that streams the last turns again |
| `Reload` | `loadRun` from the history |

`CardsTrue` excepts `crossed` calls: `last_tool_use_id` is one for all scopes, so a half of an
input that comes while another call was started last is added to that one, and the complete
message is passed over because the call is known. `MessagesTrue` is weaker in pipe mode, whose
messages have no uuid: other pages take repeated words for the same message.

### HistoryProjection, HistoryGenerations, CliImport

| Module | Action | Code |
|---|---|---|
| `HistoryProjection` | `Append1` | one event through `SemanticBoundaryTracker::observe` and `handle_event`, of the main timeline or of a sub-agent's; a cut where nothing is open |
| `HistoryGenerations` | `Ensure`, `CleanRead`, `Sweep`, `Hit`, `Miss` | `ensure_history_with_refresh`, `cleanup_history`, `manifest_matches` |
| | `BeginBuild`, `Snapshot`, `Publish`, `Point`, `Retain`, `Fail`, `Summary` | `build_generation`, the rename, the pointer, retention, `get_summary` with its second build, which lacks the run's lock |
| | `AppendEvent`, `SetStatus`, `Damage`, `Crash` | the run, an unreadable summary, the end of the process |
| `CliImport` | `WriteHalf`, `WriteLine`, `Compact` | the CLI, external |
| | `BeginImport`, `BeginSync`, `ReadLine`, `Finalize`, `Save`, `Spill` | `import_session`, `sync_session`, `sync_reconcile`, `TranscriptImporter` |
| | `Stop` | a read or a write of these fails, of `events.jsonl` or of the index, or the process ends |

`PointerValid` excepts a damaged summary: the rebuild after it is not protected by the run's lock
from a clean-up. `TakenExactly` says what is not exact: a line read when half written is passed
by the watermark and never imported; after a rewritten file an append may take new lines for old
ones; overlapping syncs import twice; and a line is imported once more each time its key is lost.

Keys are lost in three ways, all of which are outcomes of `Stop`: the process ends before the buffer is
flushed; the write that fails is that of the index, so that the flush at the end of the buffer's life
fails too, as it does on a full disk; or an append to `events.jsonl` reports an error although its line is
complete there, so that no key was made. A line of the index that was cut off takes the next one with it.
`ImportIndex` counts each loss in the history `lost`, and `ImportExact` and `OnceEach` allow a
copy more for each: an event whose key reached the index is never imported again. The usage of a turn is
imported once even where its key was lost, because a sync also looks for it in `events.jsonl`.

### HistoryPages, LongLines

`builder` has a side per timeline: the pages that are files, the page in memory with the bytes it was counted
for, the open tools with their files, the stream; `projected` is the state of `HistoryProjection` after the same
lines, and history. The bytes of an entry are those of the form its text takes: inline, spooled, wide (too large when it
is encoded), or that of a long line.

| Module | Action | Code |
|---|---|---|
| `HistoryPages` | `ReadLine` | a line through `handle_event` or `handle_oversized_event` to `push_entry`, `flush_page`, `update_tool_page`, `ensure_subhistory` |
| | `Finish`, `ReadLatest`, `ReadOlder` | the end of a build; `get_page` and `get_subhistory_page`, from the latest page backwards |
| `LongLines` | `ReadChunk` | `read_bounded_line`, for every cut the buffer may make |
| | `ScanByte` | `JsonMetadataScanner`, by what it expects next |
| | `StartSearch`, `SearchByte` | `extract_json_string_field`, `extract_json_value_field` |

In `LongLines` a byte is one that JSON gives a meaning, or a letter; the four digits of a `\u` escape are one
letter, which is a character or a half of a pair.

### RunUsage

`process` is what the running CLI has spent and last said, `spent` the truth, `extracted` and `listed` the tallies of the
two readers after the lines so far. `next`, `queue`, `active`, `messages` and `indexes` are the numbering of
turns: by tickets, by messages in the log, by reports.

| Action | Code |
|---|---|
| `Start` | `start_session`: `initial_turn_index` is 1 or counts the messages of the log (`count_user_messages`) |
| `Send`, `StartUserTurn`, `StartRalphTurn`, `GiveUp`, `Ends` | `handle_send_message`, `start_user_turn`, `start_ralph_turn`, `on_tick_timeout`, `handle_eof` |
| `Result` | a `usage_update` with the index of its turn, through `extract_run_usage` and `scan_run` |

`kind` is where the amounts come from: a Claude CLI (the running cost of its process), an imported transcript (that of each
turn), an imported run that was resumed, Codex in pipe mode (the turn) or through the app-server (the thread). That the
Claude CLI reports the running cost of its process, and begins again from zero after a restart, is assumed: it is not in `src/`
but how `extract_run_usage` uses it. A stdin that failed once takes no later message.

### RunIndex, ConfigFiles

| Module | Action | Code |
|---|---|---|
| `RunIndex` | `Begin`, `ReadMeta`, `TakePrint`, `Scan`, `WriteIndex`, `WriteManifest`, `Publish`, `WriteFails`, `Expire`, `Crash` | `build_or_update_index` |
| | `Report`, `WriteMeta` | a session that writes its log and meta.json meanwhile |
| `ConfigFiles` | `UpdateUserSettings` ... `ToggleCodexPlugin` | the commands, which differ in the file, what they may do to a key, and what they take for an empty file |
| | `ReadMissing`, `ReadFile`, `ReadError`, `Open`, `Fill`, `Rename`, `WriteFails`, `Crash` | the read and the write of the file, in place, through a temporary file of one's own, or through one that all share |

`KeptIsCurrent` excepts what is written to meta.json between its reading and its fingerprint,
which stays unseen for good. `CostExact` excepts a session whose first cost is at least nine
tenths of the last cost of the one before: it is taken for its continuation. `ConfigFiles` names
which kinds of file may be broken or taken for empty, and when; `raced` are the keys of a
read-modify-write that another overwrote. That a settings file which cannot be read is
overwritten with defaults is among what `NotTakenForEmpty` allows, because the code does so; for
the files of the CLIs it disagrees with the comment at `storage/cli_config.rs:515`, that all
other existing keys are preserved.

### CodexImport, ScanCaches

| Module | Action | Code |
|---|---|---|
| `CodexImport` | `CodexWrites` | Codex appends a line, external |
| | `BeginImport`, `BeginSync`, `ReadLine`, `EndOfFile`, `Finish` | `import_session`, `sync_session`, `CodexRolloutImporter` |
| | `Stop` | as in `CliImport` |
| `ScanCaches` | `Write`, `SoftDelete`, `Expire`, `Crash` | the owner of a file; two minutes; the end of the application |
| | `Step` | one step of `read_global_usage`, `read_global_codex_usage`, `scan_summary_files`, `build_or_update_index` |

A rollout that is already listed is never read again, so what Codex adds to it later stays out;
two imports at a time make two runs. `OnceEach` excepts overlapping syncs, and allows an event once more for
each time its key was lost; `CallsPaired` excepts a sync that did not end well inside a call, whose end gets
another id; `TurnsApart` a sync that did not end well inside a turn, which the retry gives a second number.

### CodexTurns

`toServer` and `fromServer` are the pipes; `actor` has the queue, the turn it sent and the turn
it has been told of; `server` the turn that runs.

| Action | Code |
|---|---|
| `Start`, `Spawned`, `Choose`, `HotSwitch` | `start_session`, `startup_messages`; the choice of a setting on the page and its control request |
| `SendMessage`, `Steer`, `Interrupt`, `Call`, `CallTimesOut` | `frame_user_turn`, `frame_steer`, `frame_interrupt`, the data requests with their waiters |
| `Opened`, `TurnStarted`, `TurnEnded`, `TerminalError`, `Reply`, `Report` | `handle_codex_line` with `parse_line`, by the line |
| `TimesOut`, `Ends` | the hard deadline, and the kill that ends its quarantine |
| `Server...` | the app-server, external |

A steer or interrupt that comes before `turn/started` is dropped, though acknowledged. An error
reply to `turn/start` is ignored, so its turn stays active until the deadline. A hot switch that
fails while the process is being spawned is kept for the next spawn (`missed`).

### RunView

`page` is what is shown and of which run, `gen` the generation of `OpGuard`, `ops` the
operations under way with the await each is at, `holding` and `buffer` the middleware's history
buffer per run, `wire` the events on their way.

| Action | Code |
|---|---|
| `Navigate`, `LoadGetRun`, `HistoryPage`, `CatchUp`, `CatchUpOversized`, `LoadEnds` | the route effect, `loadRun` |
| `Resume`, `ResumeGetRun`, `Stops`, `ResumeGoesOn`, `SpawnAnswered`, `Fails` | `handleResume`, `resumeSession` |
| `Forks`, `ForkGetRun`, `CancelFork`, `ForkCancelled`, `Spawns` | `_handleFork`, `handleForkCancel`, `connectSession` |
| `StartNew`, `Creates`, `Send`, `Sent`, `Older`, `OlderPage`, `Stop`, `Interrupted`, `StopAnswered` | `startSession`, `sendMessage`, `loadOlderHistory`, `stop` |
| `Says`, `Dies`, `Deliver` | the backend, and the events it emits |

The properties hold but for mishaps that the model names, each a place where an operation goes on
with what an older one left:

* `overtaken`: `loadRun` assigns the answer of `getRun` before it asks whether it is stale
  (`session-store.svelte.ts:2261`, again 2276); `strayed`: a route change during a load (`+page.svelte:1617`);
* `wiped`: an oversized catch-up clears the page before that question (1810);
* `deaf`: a cancelled fork leaves the page without its subscription (`+page.svelte:3782`);
* `misled`: the `finally` of a stop, and a spawn that failed, leave the wrong phase (2762, 3036);
* `misaimed`: a stop reads `this.run.id` again after an interrupt and half a second (2743);
* `missed`, `unread`, `crossed`: an event between two subscriptions; a run that could not be read; two operations on one run.

### Forks, SideQuestions, Credentials, ProviderEnv

| Module | Action | Code |
|---|---|---|
| `Forks` | `BeginFork`, `CreateRun`, `CopyEvents`, `SaveParent`, `ForkOneshot`, `OneshotFails`, `Persist` | `fork_session_impl`, `fork_session_codex` |
| | `Start`, `SessionInit`, `Turn`, `Ends`, `CliDeletes`, `Crash` | `start_session_impl` with its fallback when the transcript is gone; the CLI |
| `SideQuestions` | `Ask`, `SideQuestion`, `ReadLine`, `EndOfOutput`, `Settle`, `TimeOut`, `CallFails`, `Hear`, `Close` | the page, `side_question`, `codex_side_question` |
| `Credentials` | `TakeGate`, `PassGate`, `Exit`, `Kill`, `Ask` | `claude_cred_gate` and who takes it, `reap_gracefully` |
| | `ReadCredentials`, `Rotate`, `Refused`, `WriteCredentials`, `Expire` | the CLI and its server, external |
| `ProviderEnv` | `CreateRun`, `Launch`, `FailPreflight`, `Edit`, `ProviderFails` | `start_run`; what each command that starts a process resolves; `preflight_check_base_url`; `update_user_settings` |

A fork's record carries the session of its parent from its creation to the end of
`fork_oneshot`; `OwnSession` excepts a fork that crashed or failed in between, which goes on in the
parent's session. A Codex fork copies its log after the fork of the thread, while the actor goes on
writing; and `connectSession` refuses it for want of a session id, although `session.rs:1362`
counts on that call. The page does not look at the id of a side question, so
`AnswerOfQuestion` excepts panels in which two questions were open (`mixed`). Chat sessions only
pass through the gate, side questions and forks do not, and a timeout kills a process that may be
refreshing: `LoggedIn` names these (`raced`, `lost`). Of `ProviderEnv`: only `start_session` passes
the model of the run on, so a session that approve or fork starts again has another one; the app-server is asked
for Claude's model names too; an inherited base URL is not taken away; a platform without a key falls
back to the global one; a blank anchor in the models clears the model without setting any.

### WebServer

`Start`, `Restart`, `Cancel`, `TaskEnded`, `Abort`, `GiveUp`, `Reset`, `Bind`, `BindFails`, `Spawn`, `Save`,
`SaveFails` are the steps of `start_server` and `restart_with_config` with `stop_server_inner`,
`bind_with_fallback` and `spawn_server`; `CloseListener`, `LastConnection`, `Drop`, `Check`, `ResetPort` those of a
serve task. `StatusHonest` excepts `slipped`: a task that passed its generation check before the
stop gave it up resets the port of its successor (`web_server/mod.rs:372`).

## 3. Runs

Bounds are in the `.cfg` files.

| Run | Shows |
|---|---|
| `Storage` | `TypesOK`; of the event log `SeqsDense`, `AckedDurable`, `ShownDurable`, `ReadsComplete`, and `AppendOnly`: `EventLog` implements `AppendLog`; `PublishedStays`, `FilesKept`, `TakenExactly`, `PromptAnswered` of the other parts |
| `Services` | `TypesOK`; of the lifecycle `CliAccounted`, `StatusHonest`, `StopDelivered`; `CodexTrue`, `PipeTrue`, `TimelineTrue`, `LaunchesTrue` of the other parts |
| `Reading` | `TypesOK`; `UsageTrue`; `PagesTrue`: the pages are the projection of the log and a client reads them all; `LineWhole` and `ScansTrue` of long lines |
| `ActorPrompts` | `SpinnerHonest`, `OneAnswer`, `PromptReachable` |
| `ActorRalph` | `TypeOK`, `OneTurnInCli`, `NoTicketLost`, `ErrNotRun`, `TurnsInOrder`, `NothingStalled`, `VerdictJustified` |
| `ActorLive` | `QuarantineEnds`, `TicketAnswered` under fairness |
| `ActorPhantom` | violated: `TicketAnswered` when the CLI may withdraw prompts |
| `ActorInterrupt` | violated: `ErrorShown` |
| `ActorPromise` | violated: `PromiseHeard` |
| `WsDelivery` | `TypeOK`, `NoHole`, `InOrder`, `CheckpointHonest`, and `CaughtUp` under fairness |
| `WsOrder` | violated: `EveryEventShown` with two emitters |
| `WsSuperseded` | violated: `CaughtUp` when other parts of the page make requests |

**Sums.** `Storage`, `Services` and `Reading` check several modules in one run. In the first two the parts share the
variables `s1`, `s2`, ...; those the chosen part has no use for are `Off`. The properties of a part hold
trivially in the others. `Storage` has 3.6 million distinct states, `Services` 3.7 million, `Reading` 1.5 million. The
identities `a1`, `a2` and `b1`, `b2` name whatever a part has two of, and are symmetric. Most properties of these runs
join those that one or several parts state separately, as the `MC` modules say: `FilesKept` for instance the
generations, the configuration files, the run index and the caches, `UsageTrue` that no cost is counted twice
(`NeverOver`) or lost (`NothingLost`), that two readers agree (`ListedAlike`) and turns have indexes of their own
(`TurnsApart`).

**Bounds of the event log.** Two runs (a parent and one fork of it), two writers, one reader,
three events: a small one, one beyond the seed window that is also too large for a
page, and one that is neither copied nor replayed. `MapLimit` is 1 instead of 50, so
two runs already cause a collection. One I/O error and one crash: enough for an error
after a crash and a crash after an error, with a second writer in between. Events are
written at most once, which bounds the file.

**Bounds of the actor.** `ActorRalph` has two messages (enough for order, and for a
message queued behind a turn), one loop of at most two iterations with two failures
allowed, one interrupt. `ActorPrompts` has one message and two permission prompts, so
that one answer can make the other automatic, and two clients can answer one prompt.
The mailbox, the pipes and the iterations need no bound of their own: every line has a
cause among the bounded ones.

**Bounds of delivery.** Two events and two emitters: one event is missing while another
moves a number past it, and the emitters can swap them. The channel holds one message, so the second
one makes a slow receiver lag; the replay buffer holds two, so it both flushes and
overflows; a page holds one event, so a replay has two pages and events are appended between
them. Two attempts of a full reload: one that is followed by another and one that is the
last. One lost connection, and one fault (a failed replay, read, connection attempt or a
timeout), in any order, so that each recovery is itself interrupted once. Two visits, so that the
replies and events of the first reach the second. `OtherInvokes` says whether other parts of
the page make requests; only `WsSuperseded` sets it.

**Bounds of the lifecycle.** Two commands at a time, of any kind, as often as they like; two
actors in all, so that one replaces the other; the application ends and starts again once, by an exit, by a
crash, or by a crash during the exit. The theorems of section 4 lift all three bounds.

**Bounds of Codex.** The root and two more threads, two requests, two threads and two messages of
each in the buffer, and a byte limit that one large message exceeds and a small one shares:
every one of the three limits is met, by a notification and by a request. Two messages of the user.

**Bounds of prompts, pipe mode and timeline.** Prompts (a part of `Storage`): two pages, one end of the session, one
ghost write. Pipe mode: two messages, one `stop_run`, one crash or copy: each pair of the four ways to take a
child out of the map meets. Timeline: two pages, an agent that calls a tool, a second call beside it, two
messages of the same words, one mishap (a failed send, a reload or a resume).

**Bounds of history and import.** Five events over a main scope and two nested agents, of which one
may have a sub-history (`MaxSubs` 1 instead of its real limit); every order and repetition of
events. Two requests, two generations, a log of two events, one crash. Two importers, three lines,
each of which may be met in halves, and one sync that does not end well, so that what it left is read by the
next and by one that overlaps it. Imports may fail as often as they like.

**Bounds of pages, long lines and usage.** `HistoryPages`: four lines over a main timeline and two nested agents, of which
one may have a sub-history; a page of three entries or four units of bytes, so that either limit can be met first, and
entries of one to three units. `LongLines`: the documents of `MCReading`, each for one difficulty (the key as a value,
inside a string, deeper down, before and behind the field; escapes at the end of a string; pairs of `\u` escapes; a character of
two bytes across a flush; lists of attachments below and above the limit; brackets as deep as allowed and one deeper), with
every way to cut them. `RunUsage`: three turns, starts and reports, and amounts 0, 1, 9 and 10: just what is and what is
not a fall of more than a tenth.

**Bounds of index and configuration.** One run with three reports of up to cost 2, so that a fall by
more than a tenth, a rise and a hidden restart all occur; one write of meta.json; one crash. Two
writers, two keys, three commands and one fault, for each of six kinds of file.

**Bounds of the other parts.** `CodexTurns`: two messages, one steer, interrupt or call, two updates,
two processes, one refusal, two values of a setting. `RunView`: two runs and a new one, three events each, two
operations at a time. `WebServer`: two servers, one caller, two ports, one refusal. `Forks`: three runs (a
parent, a fork, a fork of either), three sessions, two turns, one fault. `SideQuestions`: two, one
line of text each. `Credentials`: two processes that take the gate, one that passes it, one that does not, two
expiries, one fault. `ProviderEnv`: one platform of each kind, one change of the settings. `CodexImport`: seven
threads chosen for what lines can say, two importers, one fault. `ScanCaches`: one file, two calls, two changes,
one fault.

**Deadlock** is not checked in any run: a session ends, and a log whose events are
all written has nothing left to do.

**Fairness** (`FairSpec`, `ActorLive` and `ActorPhantom`). The runtime polls every branch of
`select!` that is ready, and `select!` picks among them at random, so each kind of command
and each kind of line is weakly fair. Armed timers fire: the tick comes every 500 ms.
A user answers a card that is on the screen. The CLI owes nothing: it may hang for ever
inside a turn. One thing is asked of it: a process whose stdin was closed ends, because
`cleanup` waits for it and then kills it.

For delivery (`WsDelivery`, `WsSuperseded`) every task of the server goes on, every message
that has arrived is handled, timers and `onclose` fire, and a lost connection is made again
(`scheduleReconnect` never gives up). Emitters owe nothing but the broadcast of what they
persisted, users nothing at all, and faults are bounded.

### What the violated runs show

* `ActorPhantom`. `control_cancel_request` takes the card away but leaves the entry of
  `pending_interactive_requests`. The hard timeout is deferred as long as that map is not
  empty, so a CLI that hangs afterwards is never given up. `ActorLive`, where prompts are
  not withdrawn, shows that nothing else stands in the way of the safety net.
* `ActorInterrupt`. An interrupt that crosses the result of its turn is answered by
  nothing, its flag waits for the next result, and the error of the next turn is dropped.
* `ActorPromise`. The text of a Ralph turn is collected on the route of internal turns only.
* `WsOrder`. Numbers are given under the log's lock and broadcast after it. If 2 is broadcast
  before 1, `a_forward` sends 2, moves the checkpoint and skips 1; nothing asks for 1 again
  until the page reloads its history. `NoHole` in `WsDelivery` excuses exactly such events.
* `WsSuperseded`. After a subscription failed the socket is closing. A request made then opens
  another socket, and the old `onclose` returns before it rejects the requests that wait
  on it. The history request of a full reload, which has no timeout, hangs; `WsDelivery`, where no
  other request comes in that window, shows that the recovery is complete otherwise.

### Further disagreements, without a run of their own

The modules also state what other comments say and the code does not do. None is an invariant; TLC
finds a counterexample when one is put in the place of the `INVARIANTS` of `MCStorage.cfg` (the first three) or
`MCReading.cfg` (the others), unless its entry says otherwise.

* `PageHasNoGap` (`web_server/ws.rs:879`, "Replay A-class events"). A page reader that meets a line being appended
  reads a fragment, skips it and the rest of the line, and returns the events behind it. The caller resumes behind the
  last number it got, so the hole stays until the next full load. `ReadsComplete` holds all the same: it is about
  events acknowledged before the page was opened.
* `RetryImportsNothingTwice` (`storage/cli_sessions_common.rs:215`, "crash-recovery dedup") and `RetrySkipsWritten`
  (`storage/codex_sessions.rs:1467`, "skip events that were already written"). An event whose key was lost is imported
  again by the next sync.
* `RetryKeepsTurnsApart` of `CodexImport` (`storage/codex_sessions.rs:1475`, "don't collide with previously imported turn
  indices"). A sync stops within a turn whose message it has written. The retry gives that turn the next number but skips
  the message, so that there is one message fewer than numbers, and the sync after it, which counts messages, gives its
  first turn the same number. It takes a third rollout and usage in two: with one importer and
  `Threads` as `{<< <<S, U>>, <<S, U, T, D>>, <<S, U, T, D>> >>}` TLC finds it, in the bounds of `Storage` it does not occur.
* `PageInMemoryBounded` (`storage/history.rs:62`). The text of a long line is put into an entry that was counted
  without it, so the page can become larger than a page may be; writing it then fails the build.
* `SubsNeverFail` (`storage/history.rs:2724`). Events of a sub-agent beyond `MAX_SUBHISTORIES` are dropped, but a long
  one finds no entry for its text, and the build of the whole run fails.
* `CodexPerTurn` (`storage/events.rs:604`, 634). The app-server tells the total of the thread, `extract_run_usage` adds
  the totals up.
* `ImportsPerTurn` (`storage/events.rs:603`). An imported run stays `cli_import` when it is resumed, though its costs
  are then those of a process.
* `ListedTokens` (`storage/run_index.rs:169`). The list of runs takes the last amount of a Codex run in pipe mode, whose
  amounts are those of turns.
* `IndexIsMessages` (`src/lib/stores/types.ts:28`). A stopped Codex run goes on as a new session, which numbers its turns
  from 1 again; the page keys its tool activity and context history by that number. `TurnsApart` leaves these runs out.

## 4. Proofs

TLC checks the runs of section 3 on small instances; what follows TLAPS has checked for every
value of the constants, from the named assumptions alone. Everything is proved by an inductive
invariant: the property, strengthened by what must be true for a step to keep it. Each action has
a lemma, the temporal theorem at the end only combines them.

| Module | Theorems | Assumes |
|---|---|---|
| `EventLogProofs` | `TypeCorrect`, `SeqsAreDense`, `AckedIsDurable`, `ShownIsDurable`, `CatchUpIsComplete` and `ForkIsComplete`, together `ReadsAreComplete`; `EventLogIsAppendOnly`: `EventLog` implements `AppendLog` | `EventLogAssumption` |
| `ServicesProofs`, first part | `TypeCorrect`, `StopNotInVain`, `NobodyForgotten` and `OneConversation`, together `EveryCliAccounted`; `HonestStatus` | `AbsentAssumption` |
| `SessionActorProofs` | `TypesHold`, `OneTurnHolds`, `NothingStallsHolds`, `SpinnerIsHonest`, `VerdictIsJustified`, `NoTicketIsLost`, `ErrIsNotRun`, `TurnsAreInOrder`, `OneAnswerHolds`, `PromptsAreReachable` | `SessionActorAssumption` |
| `StoredFilesProofs` | `GenerationsStay`, `FilesAreKept`, `PromptsAreAnswered`, `EntriesAreCurrent`, `CachesAreCurrent`: the same of the single parts | the marks for "none" are no names |
| `WsDeliveryProofs` | `DeliveryTyped`, `DeliveryHasNoHole`, `DeliveryIsInOrder`, `CheckpointIsHonest` | `WsSessionAssumption`, `WsDeliveryAssumption` |
| `StorageProofs` | `GenerationsAreKept`, `ConfigIsKept`, `IndexIsCurrent`, together `AllIsKept`; `PromptIsAnswered`; for the behaviours of `Storage` | `StorageAssumption` |
| `ServicePartsProofs`, `ServicesProofs` | `PipeIsTrue`; `WebServerIsTrue` and `LaunchIsTrue`, together `LaunchesAreTrue`; for the behaviours of `Services` | `ServicesAssumption` |
| `LogReadingProofs` | `UsageTyped`, `UsageIsTrue`; `LineIsWhole`; for the behaviours of `Reading` | `UsageAssumption`, `ReadingAssumption` |

The assumptions say that bounds are numbers, that the marks for "none", "nobody" and the loop's own turn are not
also names of something, and, for the configuration files, that there are finitely many writers.

### Event log

`SeqsDense` is not inductive: that the next line gets the right number depends on the
number in the map entry, which is only right once the tail was repaired, while the call
holds the mutex, and as long as nobody else moved the file. The invariant `IInv` says so:

* `CallShape`, `LockHeld`: which fields a call in each step has, and that the holder of a
  mutex is exactly the call between its lock and its release;
* `Pinned`: a call that holds the Arc keeps its entry in the map (why the collection is
  safe);
* `ForkPrivate` (`CallsOnCreated`, `ForkOwned`, `ForkEmpty`, `UnbornEmpty`): nobody but the
  copying call touches a fork before the copy ends;
* `Dense`: committed lines are numbered by their position, a whole tail by the next one;
* `SeedFits`: a repaired entry holds the number behind the last committed line, and there
  is no tail unless a call is inside the mutex;
* `InsideFits`: what a call inside the mutex has already written is in the tail;
* `ReadShape`, `AckedDurable`, `ShownDurable`: positions of readers and history within the
  file.

The lemmas about `Window`, `MaxSeq` and `NextSeqOf` say that on a dense file both the seed
window and the full scan give the length plus one, whatever the window holds. The refinement
needs `IInv` in both states: `WriteLine` is the abstract append, `WriteNewline` the
acknowledgement, and every other action leaves the parseable lines alone, the copy of a
fork excepted, which appends.

`CatchUpComplete` and `ForkComplete` speak of what had been acknowledged when the read or the copy
began, and are carried by what the reader has behind it. `ReadInv`: what is due is among the committed lines
(`DueCommitted`), and a reader that is lost in garbled bytes has everything due either behind it or returned
(`GarbledPast`), because garbled bytes are a tail and lines are committed before it. `ForkInv`: what the copy
owes is in the snapshot, beyond the position it has reached or already in the target (`Carried`).

### Lifecycle

The first four theorems follow from one invariant, `IInv`. `OneCli` is not inductive: that a spawn adds no
second CLI depends on what the lock protects. `LockHeld` says that a command of a locked kind has
the lock until it returns, so there is one at a time; `EmptyMap`, that from the moment it has emptied the
map's entry until it fills it again nobody else does. With `NoOrphanCli`, which answers for every CLI,
a CLI that still runs at the spawn is one that a `stop_run` waits for (lemma `OthersAwaited`).
`HeldShape`, `Born` and `CmdShape` give the handles their meaning, `DownMeansOver` clears the table for
a restart.

`HonestStatus` needs that the status is a claim for which somebody stands. `HInv` says who:
`DenialExplained`, that under a status that denies a session, rightly written, only actors run whose
end a command awaits; `ClaimExplained`, that under one that claims a session there is a CLI or a
command that will start one or write another status; `StartMarked`, that a command about to spawn has
claimed the session, or an excepted writer has denied it since; `AfterOver` and `StopAwaited`, that
the wait of a command is for this actor and outlasts its CLI. So the list of exceptions of
`StatusHonest` is complete, not merely long enough for the bounds.

### Session actor

First come lemmas about the methods that the handlers are built from: what `Dispatch`, the loop's step, a turn's end, a
response and a failure do to the engine (`Dispatched`, `TurnOver`, `AnswerOf`, `Failed`), and about sequences
(`Hits`: how often members of a set occur). Then `TypeInv`, and on it five invariants:

* `TurnInv`. That only one turn is in the CLI is the count `InCli`: lines with a turn in stdin, the turn the CLI is in,
  results still to be read. It is one exactly while the engine is busy, with a turn or with a quarantine, so a turn is
  written only when the count is zero. An idle engine under a live CLI has neither queue nor running loop
  (`NothingStalled`), and the state last sent says busy or not (`SpinnerHonest`);
* `VerdictInv`: `ErrorKnown` ties the three places in which an error is remembered (`gotError`, `metaError`,
  `outcome`) to each other and to the engine being idle;
* `TicketInv`: a ticket is in the mailbox and the queue together once if its caller waits, and not at all
  otherwise (`Placed`); one that was written to stdin had been answered `Ok` (`NoTicketLost`, `ErrNotRun`);
* `OrderInv`: what the CLI took, stdin, the queue and the mailbox, read one after the other, are in the order
  of the messages sent, though other lines and commands stand between them, and a failure empties the middle;
* `PromptInv`: a prompt's question in stdout, its entry in the map and its answers are one together at most, and
  none before the CLI asked (`Once`); a withdrawal is only for what was asked and is open no more.

### Event delivery

None of the three properties is inductive, since what a page shows depends on everything that is still on its way to it:
an event may be with its emitter, in the channel, lost in it, in the hands of `a_forward`, in the replay
buffer, in the part of the log a replay has not read, on the wire, or in the middleware's buffer. The
invariant has four parts:

* `Types`;
* `Shape`: what a task of the server holds at each step and what its session holds then; and that of two numbers the
  higher is broadcast first only if the lower one is excused (`Emission`), which is all that remains of the order in
  which the log's lock gave them out;
* `Protocol`: which modes of the page go together (`Modes`); that the answers to history loads that are requested,
  being read or on the wire are as many as the loads given up and the one awaited (`Answers`), so the page never
  takes an old answer for the one it waits for; and with which number a page that is otherwise loaded asks for its
  subscription (`Requested`);
* `Claims`, about a page whose history has been read (`Settled`): all that the server takes as sent is excused, shown,
  buffered or on the wire (`SentAll`); every event of the log is that, or in a place from which the server will still send
  it (`Covered`); and nothing on the wire, in the page's buffer or in its timeline is ahead of an event that is not there
  yet (`WireOrder`, `TimelineOrder`).

The claims need not hold while a `_full_reload` is on the wire, since it starts the page anew; what it has been
announced for counts as excused until then (`Out`, `Doomed`). A server that starts anew forgets such an
announcement, and then what it owed is really excused. That every claim survives `flush_replay_buffer` is the
heart of it: `Drain` sends what is above the checkpoint, and since the buffer follows what was sent and
what the replay brought (`Follows`), and everything up to the checkpoint was sent, what is left out of the
buffer is already there (`FollowsAbove`).

What `Above` keeps of a buffer and how many messages of a kind a queue holds are shown by the same detour around
induction as for the answers to prompts (below). Before it was proved TLC
checked the invariant on instances of up to four million states.

### Configuration files and history generations

`ConfigInv`: a writer with a temporary file of its own shares its inode with nobody, a writer in place has opened the
file itself, a single writer of the favourites has their temporary file to itself (`Owners`); and what a writer has
read differs from what the file ought to hold only by the keys that others have changed since, which is what its
write undoes (`Bases`). `KeysKept` follows although nobody holds a lock: the keys it excepts are these.

`GenInv`: what this process retains is complete and no clean-up touches it, and a client is only handed what is
retained (`Retention`). A request that builds holds `GLOBAL_BUILD_LOCK`, and as long as no summary was unreadable it
holds the run's lock as well (`Locks`): the pointer that its clean-up has read is still the pointer when it sweeps, and
nobody sweeps away what it is about to point to (`Pointer`). A run that had ended when the request began, and has not
changed since, is as long as the request's snapshot of it (`Snapshots`).

### Index and caches

A fingerprint is taken before the file is read, so what is kept of a file is at least as new as the fingerprint it is
kept under: on disk, in the temporary file and in every call under way (`Matches`, `Covers`). When the fingerprint is the one
the file has now, what is kept is what the file holds now. Where entries and fingerprints are in
separate files, a crash between the two leaves new entries under old fingerprints, never the reverse.

### Answers to prompts

`ResponseInv`: a prompt that waits is not being answered, and whatever is under way or has reached the CLI was begun in the
log (`ResponseShape`); a page that has read as far as the begin does not offer the request (`NotOffered`); while the CLI
waits and nobody has begun, there is nothing in the log but the prompt (`StillWaiting`).

A page is loaded from the summary of any prefix of the log, and a summary is a fold over events. The induction theorems of
the library take an operator as a parameter, which none of the provers instantiates, so the induction is made by
hand: the lengths at which a statement fails are a set of numbers, which has a smallest element (`Smallest`, from
`WFMin` and the well-foundedness of `<`), and at the smallest it does not fail. That way the recursive functions inside
`FoldLeft` exist (`FoldExists`), take values of the right kind (`FoldsAreValues`) and satisfy the equation one expects
(`FoldSteps`); `KeptOfLog` and `LastStateOf` then say what is kept of a log and in which state it leaves the request,
and `CardOfSummary` what a page shows of it.

### Usage and long lines

`UsageInv` of `RunUsage`: what the reader last saw is the amount the running process last reported, or that of a process
that is over, and its peak is not below it (`Peaks`), so a fall of more than a tenth is always a new process; with amounts of
turns there is no peak (`Sums`). Turns: the tickets in the queue are numbered from the last message on (`Turns`), so a
restart, which counts the messages, goes on where the dropped tickets began.

`LineInv` of `LongLines`: what has been read and what is unread are the log, cut at one place (`Split`), and the line moves to
its file at the chunk that makes it too long (`Placed`, `Past`). `CutOfCut`, what is cut from a cut of a sequence, carries it
over every buffer. `LineIsWhole` assumes of the lines only that they hold no newline; that is `LinesAssumption`, a part of
`ReadingAssumption`, which TLC evaluates in the run.

### Pipe mode, web server, launches

`PipeInv`: a process is in one place, its task, the map or the one who took it out (`Reach`, `Removals`, `Stops`); the
task of a message that met no other knows of its own process only (`Alone`, `Ends`); who may still write the
status is under way, and the page follows (`Shows`). `WebInv`: all but the last serve task have been given up, and the
last serves the port shown and the configuration saved, at each step of a restart as far as that step has
come (`Progress`, `PortFits`, `TasksFit`). `CredInv`: as long as no process of the ungated kind raced and none was
killed half way, one process at most refreshes, with the token the server takes (`Sole`). `ProvInv`: what the process
was given is what the settings and the run still give it, unless they were edited (`GivenNow`); the rest is a case
analysis over how a credential is found.

`StorageProofs`, `ServicesProofs` and `LogReadingProofs` carry the invariants over to the sums that the runs check: a part's
variables are replaced by slots, its invariant holds in behaviours of that part, and of the others the property
says nothing. To make that possible `LaunchTrue` joins the credentials and the environment of a process
only; forks and side questions are in `TimelineTrue`.

### Only model-checked

* **`TimelineTrue`, `CodexTrue`, `PublishedStays`, `TakenExactly`, `TypesOK`**: the parts not named above. Cards, streams,
  buffers, transcripts and costs are computed by folds or by selection from a sequence, that is by recursion over data,
  for which the provers have no induction. The detour taken for the answers to prompts needs lemmas of its own for
  every fold, and has been gone for that one only.
* **`HistoryPages`**, and of `LongLines` all but `LineWhole`: what the pages hold is a fold over the log, and what the
  scanners find is stated of texts that are built by recursion (`FlattenSeq`).
* **Liveness** (`QuarantineEnds`, `TicketAnswered`, `CaughtUp`), which needs `ENABLED`.

That `next_seq` is right is proved of its result (the greatest number in the window), not of a parse of bytes.

## 5. Not modelled, and why

* Byte offsets, UTF-8 and JSON: only what a reader can tell apart, a fragment, a whole
  line without a newline, a line.
* Pipe capacity: the actor's writes do not block in the model.
* Internal `/context` turns: their queue exists, but nothing fills it.
* Control requests other than interrupt on the Claude path; what the data requests of Codex (fork,
  rollback, goals, lists) return.
* Storage errors as seen by the actor: an event that could not be persisted is
  published all the same, which belongs to the delivery model. `InteractionResponses` has them for
  the three facts where they decide.
* Of delivery: the lossy B-channel, heartbeats and session expiry (4401), overflow of the
  middleware's history buffer at 8192 events, leaving a run while
  its full reload is under way, several connections (each has its own `WsSession`) and several
  runs on one (they share only the channel and the socket). A page of the log is complete here;
  that it may not be is `PageHasNoGap`. An event that is applied twice within a frame is shown
  by `WsDelivery` to occur; `ChatTimeline` applies every event once.
* `stop_actor`'s limit of five seconds is part of `Wait`: the command goes on when the CLI is
  reaped, whether or not the task has ended.
* Of prompts: which tool a card belongs to, allow or deny, and `cancel_control_request`, which no
  page calls.
* Of the timeline: texts, thoughts, hooks, tasks and usage, which are mapped one to one.
* Of the Claude path: the first `system/init` line, which reports `running` (`claude_protocol.rs:403`) while the engine
  may have no turn yet. Of the order of turns: a turn of a Ralph loop put before a queued message of the user, which
  `TurnsInOrder` would not notice.
* Of launches: `start_session`'s `platform_id`, which goes before the run's own (`session.rs:551`); the page passes the
  run's. An application that inherits both credential variables; the model has it inherit one at most.
* Of imports: the index lines of overlapping syncs do not interleave byte by byte; a full buffer goes out in whole lines,
  unless the sync stops there. A reconciliation that ends in a torn line puts the watermark a byte past the end of the
  file, which costs another reconciliation and nothing else.
* Of long lines: an end of file without a newline, a carriage return before it (`history.rs:796`, 842), and the limit
  on scalars (`capture_json_value`). Of usage: a log that cannot be read counts as one without cost.
* `clear_cache`, which throws the usage cache away; the write by which `load` in `settings.rs` migrates old ones.
* Of the history: the limit of 64 pending interactions, beyond which every later build fails; the summary.
  Texts, previews and blobs are their size and the events they came with.
* Of pipe mode: what the output shows, attachments, and Claude in print mode.
* Of the configuration: the validation of values.
* Login and tokens of the web server.
* Catalogues and downloads, teams, windows and the other pages: aggregation, listing and drawing,
  without an interaction that a model would show.
* A task of the actor that writes to a CLI which is itself blocked on a full stdout
  (`session_actor.rs:1425`), a Ralph loop whose pause or cancellation is pending when a
  quarantine is lifted (2451), and events applied twice within a frame (`session-store.svelte.ts:1525`)
  are hazards that no property covers.

The map covers about three tenths of the implementation's lines. The rest is what this list names, and
within the modelled files the parsing and formatting between their decisions, and the tests that the
repository keeps in the same files.

## 6. Plan

The system's parts are modelled as far as section 5 says. What is left, in order of weight:

1. Proofs about `PublishedStays`, `TimelineTrue` and `CodexTrue`: what no fold stands in the way of, then the folds, as
   for the answers to prompts.
2. Liveness of the lifecycle: a start that fails to open its Codex thread keeps the run's lock, so
   no later start of that run returns.
3. Snapshots and the overflow of the history buffer, an extension of `WsDelivery`.
