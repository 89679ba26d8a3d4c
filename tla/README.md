# Verification of LocalLLM Agent (t2k2pp/lllmAgents)

TLA+ models of the program under `src/`, the TLC runs that check them and the
TLAPS proofs about them. Paths below are relative to the repository's own
`src/` directory (`agent/agent-loop.ts` is `src/src/agent/agent-loop.ts` in
`PROJECT.json`).

The program is an interactive terminal agent. One `AgentLoop` object serves
the terminal (REPL), Discord and Slack. A run sends the conversation to a
language model, executes the tools the model asks for, appends the results and
repeats, until a reply is judged final. It is one Node process: there are no
data races, every hazard is an interleaving at an `await`, a key press or a
message between two of them, a failing call, or the end of the process.

## 1. Inventory

| Component | State it keeps | Operations | Interacts with |
|---|---|---|---|
| Run API gate (`agent/run-api-gate.ts`) | pause state, source, calls in flight, epoch, pause promise | begin, finish, abort, request pause, resume, enter and leave a call, boundary, tool checkpoint | wraps the provider by a proxy; called by the agent loop |
| Agent loop (`agent/agent-loop.ts`) | history, session, run outcome, abort flag, pending steering texts, resume baseline | `run`, `abort`, `queueSteering`, pause, resume, discard, save, restore | gate, providers, tools, judges, session file |
| Durable checkpoint (`agent/durable-run-checkpoint.ts`) | a record in the session: paused or resuming, boundary, binding | create, parse, validate | agent loop, session file |
| Session manager (`agent/session-manager.ts`) | session files, written atomically | save, load, list, latest | agent loop, rooms |
| REPL (`cli/repl.ts`) | queue of later inputs, busy flags | prompt loop, type-ahead, commands, save after a turn | agent loop, run queue |
| Rooms (`agent/room-manager.ts`, `agent/room-run-queue.ts`) | room of each surface, active session of each room, chain of jobs | enqueue, borrow-run-return, move, resume | agent loop, all surfaces |
| Prewarm and side calls (`agent/prewarm.ts`, `agent/side-call.ts`) | the running prewarm, its controller and fingerprint | start, cut, wait before a main call | provider slot |
| Context reduction (`agent/reduction-*.ts`, `agent/context-budget.ts`) | pending boundary, records of reductions | judge a boundary, forced limit, stages, summary | history, side calls |
| Sub-agents (`agent/sub-agent.ts`) | background tasks, follow-ups, status | launch, follow up, cancel, collect | ungated provider, worktrees |
| Loops (`loop/loop-manager.ts`) | timers, running flag of each loop | start, fire, stop | REPL |
| Terminal (`cli/screen-manager.ts`, `cli/prompt-gate.ts`, `cli/interactive-input.ts`, `cli/interrupt-watcher.ts`) | owners of the screen, raw mode, withheld output, the watcher of a turn | acquire, release, write, draw, keys, Esc, Ctrl+C | everything that prints or reads keys |
| Tools of a reply (`agent/agent-loop.ts`, `agent/tool-result-limit.ts`) | semaphore, stop flag, dialogue lock, budget of results | run side by side or in sequence, stop, answer every call | gate, history |
| MCP (`mcp/mcp-client.ts`, `mcp/mcp-manager.ts`) | connection, list in progress, dirty flag, registered tools | connect, list, refresh, disable, reload | tools |
| Discord (`discord/gateway-client.ts`, `discord/discord-bot.ts`) | socket, session id, sequence number, timers | connect, resume, heartbeat, reconnect | run queue |
| File checkpoints (`checkpoint/checkpoint-manager.ts`) | hidden git store, queue of jobs | commit after a write, restore, clear | tools |
| Worktrees (`git/worktree-manager.ts`) | a worktree per isolated agent, its record in memory and on disk | create, finalize, apply, discard, recover | sub-agents |
| Permissions (`security/permission-manager.ts`, `security/rule-engine.ts`) | rules, grants of the session, autonomous mode, chain of questions | check a call, ask, grant, change rules and modes | tools of every agent, settings, terminal, Discord, Slack |
| Providers, hooks, cost, config | mostly per call or read at start | | |

The complete list, with what is left out and why, is `components` in
`PROJECT.json`; the hazards, each at its line, are `hazards` there.

Hard behaviours: an abandoned stream closes only after its reader gave up, so
it can still be closing in a later run; key presses (Esc, a text, `/run pause`)
arrive at any await; saves fail; the process may end at any point and restores
from the session file; a pause must survive all of it.

What makes the components correct:

- Gate: the count equals the open calls of the current run; a paused run has
  none; no waiter is left on a forgotten promise.
- Run with pause and resume: a displayed pause is in the file with the whole
  conversation; a checkpoint is resumed at most once; a pause request is
  answered; an aborted run ends.
- Steering: a text that was accepted is in exactly one place until it is in the
  history.
- Rooms: a job runs on its own room's session, jobs never overlap, nothing of a
  room is overwritten by an older copy.
- Prewarm: one prewarm at a time on the provider's slot; a main call waits only
  for one it can use.
- Sub-agents: an accepted follow-up is read or reported, a cancelled task stays
  cancelled.
- Worktrees and checkpoints: no work is lost between two git commands, whatever
  fails or ends there.
- Permissions: no tool runs without a rule, an answer or a mode that covers it; a
  question that fails does not hold up those behind it.
- Tools of a reply: every call has one result, in the total a reply may take.
- Connections (Discord, MCP): not deaf, not stale, and over when they are ended.
- Terminal: no output is lost or drawn over a dialog, Ctrl+C is always heard, a
  text that was entered is taken once.

## 2. Plan

| Step | Modules | What | Status |
|---|---|---|---|
| 1 | `RunApiGate`, abstract `RunBarrier`, `RunApiGate_proofs` | the gate, its invariants and its refinement | done |
| 2 | `ForegroundRun` (instances `RunApiGate`) | a CLI run with session file and prompt loop | done |
| 3 | `ForegroundRun_proofs` | the run uses the gate as specified, a boundary is quiet, a pause is saved | done |
| 4 | `Rooms`, abstract `PrivateRooms` | queue, borrow-run-return, sessions, direct runs | done |
| 5 | `Prewarm` | the slot: main calls, prewarms, reductions, side calls | done |
| 6 | `SubAgents`, `Worktrees` | follow-ups, cancellation; isolated work | done |
| 7 | `Terminal`, `Loops`, `Gateway`, `McpServer` | keys and output, timers, the two connections | done |
| 8 | `ToolBatch`, `Checkpoints` | the calls of a reply, the store of file versions | done |
| 9 | `Permissions` | rules, grants and questions; what runs unasked has a word | done |
| 10 | `Rooms_proofs` | the rooms, their queue and files; the refinement to private rooms | done |
| 11 | `Prewarm_proofs`, `Terminal_proofs` with `Counting`, `Counting_proofs` | the slot; output, keys and texts; how often a value is in a sequence | done |
| 12 | `Parts_proofs`, `Tools_proofs` | sub-agents, worktrees, schedules, the two connections; batch, permissions, file versions; the parts together | done |
| 13 | `ReductionStages`, `MessageHistory` as pure operators | budget and pairing against a reference definition | open |
| 14 | `Rooms` with `ForegroundRun` | Esc and the abort flag across surfaces, `/resume` at the prompt | open |

Runs: `gate`, `foreground`, `rooms`, and `parts` for the components that share no
state with those or with each other, and one run for each disagreement between
the code and its comments. Abstract specifications: the barrier of the gate, a
private conversation per room.

## 3. RunBarrier and RunApiGate

`RunBarrier` is what the class promises (`agent/run-api-gate.ts:22-29`): a set
of open calls, a set of parked calls and the state of the run; a pause is
reached only with no open call, a paused run opens none. It has no counters,
epochs or promises.

`RunApiGate` is the class. One action per method; `enterRequest`,
`pauseAtBoundary` and `waitUntilRunning` are split at their `await` into the
entry (`EnterRequest`, `PauseAtBoundary`, `WaitUntilRunning`) and the
continuation (`WakeRequest`, `WakeCheckpoint`), since the code decides in the
continuation whether its epoch is still active. `AbortWaiting` is the abort
signal of a waiting call. `LeaveRequest` is the `finally` of the proxy
`gateLLMProvider`. `Restart` is a new process.

| Model | Code |
|---|---|
| `state`, `source`, `inFlight`, `epoch` | the private fields |
| `promise`, `made` | `pausePromise` and `releasePause`: the pending promise as a number, 0 for null; a waiter of another number awaits a resolved promise |
| `req[r]` | a call between `enterRequest` and `leaveRequest` with its `RequestToken` |
| `cp[c]` | a caller inside `pauseAtBoundary` or `waitUntilRunning` |
| `Drained` in `RequestPause` | continuations are microtasks and run before the key press that requests the next pause |

`Open` and `Parked` are the refinement mapping to the barrier.

Run `gate` (`gate.cfg`): two calls, two checkpoints (the boundary and a tool),
four epochs, so two whole runs with calls that outlive the first, and three
promises, so a pause can be requested, released and requested again. Fairness:
weak fairness of the continuations only (Node runs resolved promises); no call
has to end and nobody has to resume. Checked: `GateTypeOK`, `InFlightExact`,
`WaitersReleasable`, the refinement `ImplementsBarrier` (a paused run is quiet),
and `NobodyStranded`: someone waits for ever only if the run stays paused for ever.

## 4. ForegroundRun

One CLI run with the gate (`Gate == INSTANCE RunApiGate`), the session in memory
and in the file, and the prompt loop. `pc` names the await at which `run()` is
suspended:

| `pc` | Await | Code |
|---|---|---|
| `idle` | the REPL reads the prompt | `cli/repl.ts:385` |
| `starting` | `checkUserInput` and the setup of `run` | `agent-loop.ts:899` |
| `top` | the loop check of an iteration, then the boundary | `agent-loop.ts:1069` |
| `retry` | the boundary before a retry | `agent-loop.ts:1145` |
| `paused` | `pauseAtBoundary` | `agent-loop.ts:1067` |
| `reduce` | `judgePendingBoundary`, `enforceForcedLimit`, prewarm wait | `agent-loop.ts:1150` |
| `main` | the stream of the main call | `agent-loop.ts:1308` |
| `tools` | the tool batch | `agent-loop.ts:1803` |
| `judge`, `declared` | the gates of a text reply, of `response_complete` | `agent-loop.ts:2018`, `1928` |
| `backoff`, `ask` | wait before a retry, the question after an error | `agent-loop.ts:1536`, `4558` |
| `stop`, `finishing` | the `finally`, `finishRequest` | `agent-loop.ts:2429`, `2459` |
| `turn` | the REPL after `run()` | `cli/repl.ts:455` |

Everything between two awaits is one action; Esc, a typed text and the `/run`
commands interleave at the awaits where the code listens to keys (not during
the question after an error, which owns the keyboard). `Crash` may come at any
time, with or without the emergency save. What the model answers, the tools do
and the judges decide is a free choice.

A user message is the number of the typed text. `mem.users` is the part of the
history the properties see, `mem.open` tells whether the last assistant message
has unanswered tool calls, of the running batch (`batch`) or for good
(`orphan`), `ckpt` is `runCheckpoint`, with the number of its pause. `h` is
history for the properties: dropped texts, resumes of each checkpoint, main
calls since the pending pause request, whether `task_complete` was emitted,
whether Esc was pressed last.

An Esc during a call leaves the call open: `abortableIterator` gives up reading
and closes the generator without awaiting it, so `CloseCall` comes at any later
time. A call that failed was closed before the retry.

Run `foreground`: two texts, two runs (the second may be a resume), two pauses,
one failing save, two ids for calls. Two is where each hazard appears: a second
pause after a first, a resume after a crash after a pause, a late closing in
the next run, a text waiting behind another. All bounds are guards of user
actions or of failures; the run's own steps are unbounded, tool loops included.
Fairness: weak fairness of the run's own steps taken together (one thread of
control: it is suspended at one await, and its streams, tools and judges end by
their timeouts) and of a cancelled stream that closes. The user is never fair.

- `PausedIsSaved`, `ResumedOnce`: the two promises of the durable pause.
- `NothingTypedIsLost`: each text is in exactly one place.
- `BoundaryIsQuiet`: the condition under which `pauseAtBoundary` really waits.
- `PauseOvertakenAtMostOnce`: how late a pause may be.
- `PauseIsAnswered`, `AbortEndsRun`: liveness, also under endless tool loops. A
  question after an error needs the user and is excepted.

## 5. PrivateRooms and Rooms

`PrivateRooms` is what the room model promises (`docs/room-model-design.md`): a
conversation per room, turns that reach their own room only, a room that goes on
where it was within a process and somewhere in its own past after a restart. One
step goes beyond: `Adopt`, the start of a bot with a conversation of another room,
which is from then on its room's too.

`Rooms` is `RoomManager` on the one shared agent loop, `RoomRunQueue`, the
session files, and the callers: the prompt of the REPL, Discord and Slack. A
conversation is the set of the turns in it.

| Model | Code |
|---|---|
| `m.current`, `m.active` | `currentAgentRoom`, `activeSessionId` |
| `m.agent` | the session loaded in the agent, with its history, todos and goal |
| `m.disk`, `m.age` | the session files and their rank by `updatedAt` |
| `cfg`, `cfgFile` | `roomConfig` in memory and in `config.json` |
| `queue`, `run` | the chain of the queue, and the `await` of the job at its head: the agent's run (`run`) or the posting of the answer (`deliver`) |
| `owed` | the save of the REPL after a turn (`cli/repl.ts:458`) |
| `Activate`, `Return`, `Resolve` | `activateRoom`, the end of `runInRoom`, `resolveRoomSession` |
| `StartRun`, `EndRun`, `ServeCommand`, `ServeMove`, `ServeResume` | the jobs |
| `Restart` | the end of a process with or without the emergency save, and the next start: REPL, `--background` or `--slack`, each with or without `--resume` |
| `Boot` | the restored session (`index.ts:769-771`), then `initReplSession`, which keeps its room, or `initBackgroundSurface`, which loads the latest session of its own room or tags the restored one with it (`Tagged`, `room-manager.ts:122`) |

A save may fail wherever one is made: on the way in (`EntryFails`), at the end of
a job and on the way back to the resting room (`SavesOfReturn`), in the save of
the REPL, in the two writes of a move. `h` is history for the properties: the
rooms a turn belongs to (the one it was made in and that of a bot started with its
session, `Adopted`), the turns whose job succeeded, what a `/clear` removed, the last job started, and the excuses of two properties (`strayed`: a
failing save or `--resume` left the agent away from home; `split`: a REPL was
started in the room, or it does not resume by itself).

Run `rooms`: rooms A and B, the REPL with Discord listening or Discord alone,
three jobs, one change of autoresume, one restart, one failing save; 304,047
states. The restart has every mode, so a bot is started with finished turns of the
other room, which its room then saves as its own. Three jobs
are one of the other surface between two of one's own; a failing save strands
the agent for the job after it; a restart comes after turns of both rooms.
`CHECK_DEADLOCK FALSE`: with every bound used up the prompt just waits. Fairness:
weak fairness of `Serve`, the queue and the run in it (one thread of control,
whose runs and posts end by their timeouts); users are never fair.

- `RunKeepsItsRoom`: the invariant of `room-manager.ts:15-18`,
  under moves and clears at the prompt while a remote run is awaited.
- `DoneIsOnDisk`: what a finished job is worth after a crash: it is in a file of its
  room, or of the room of a bot the user started with it.
- `RestsAtHome`: the agent comes back, or it is known why it did not.
- `OneConversation`: restarts and jobs never split an auto-resumed room.
- `ArrivalOrder`, `JobsAreServed`: the queue's two promises.
- `ImplementsPrivateRooms`: the refinement; no turn reaches the conversation of
  another room but by `Adopt`. `Conversation` reads the loaded
  session for the current room, the file of the active session for the others.

## 6. The parts

Ten components keep a state of their own that no other model touches. Each is a
module with its own specification; `MCParts` is their sum: the variable `part`
chooses one at the start, its `Next` runs, the variables of the others rest. A
behaviour of `parts` is a behaviour of one part, so that nothing is gained or
lost against ten runs, but the check of one. Fairness (`PrewarmFairness`,
`ToolFairness`, `PermFairness`) is asked for in its own part only. `CHECK_DEADLOCK FALSE`: a part
whose bounds are used up rests.

### Prewarm

The single slot of a server of the user's own. `jobs` are the prewarms in the
order of their start, `current` is `PrewarmRunner.current`; `run`, `red` and
`side` are those who wait for it: the main call (`waitBeforeMainCall`), the
summary of a reduction and the side calls (`beforeSideCall`). A prompt is
settings, source and history, the history a list of words, replies and gists, so
that "is a prefix of" (`isPromptPrefix`) is decided and not assumed. `Quiet`: what
can go on after an await goes on before the next event.

Bounds: one request, two replies, three prewarms (one running, one that replaced
it, one that replaced that), one reduction, one change of settings, one
background caller. Fairness: continuations run, streams end or close.

- `SlotReadsWhatIsUsed`: one prewarm on the wire at a time, and a main call is
  kept waiting only by one that is the beginning of its own prompt.
- `OnlyReplacementsAreOvertaken`: a call passes a prewarm only when it waited for
  the one that prewarm replaced (`waitFor` awaits the job it captured).
- `EveryWaitEnds`: nobody waits at the slot for ever.

### SubAgents

`agent` is the loop of one background `SubAgent` (turn and limit, mailbox,
abort), `task` the record of `SubAgentManager`. What follows a reply up to the
next call is one action; the promise of the run settles in a microtask of its
own (`RunSettles`), so a follow-up or a cancel can come between. Bounds: three
turns, a mailbox of two, three follow-ups, two calls per reply; two of each is
where the order shows, three turns where the limit is raised by a follow-up.

- `FollowedUntilCancelled`: an answer knows every accepted follow-up, in order
  and once; after a cancel nothing new is begun.
- `ResultTellsStatus`: the cancel that races the end keeps status and result
  together.

### Worktrees

`tree`, the record in memory (`state`) and on disk (`file`), and the main
checkout. Operations are synchronous, so `busy` marks where the process may end
inside one (`Reboot`) or a step of it may fail. Ignored files are a kind of work
of their own: no diff shows them and the code removes them with the worktree.
Bounds: one agent (worktrees share only the main checkout, which a second agent
sees as a user's change), two commits.

- `WorkIsKept`: what the agent wrote is in its worktree, in main, or was given up
  by the user, and work in a worktree has a record that is shown.

### ToolBatch

The calls of one reply, side by side (`Limit` places) or in sequence, with the
pause gate, Esc, a tool that stops the run, the dialogue lock, and the budget of
`ToolResultBatch`. Bounds: three calls at a limit of two (one waits), sizes one
below and one above what a result may take, a total that three long notes do not
fit in, so that full, cut, long-note and short-note results all occur.

- `EveryBatchEnds`: a batch comes to its end with a result for every call and no
  note between two results.
- `StoppedBatchRests`: no tool starts after Esc or a stop.
- `TotalIsKept`: results plus the room reserved for notes stay within the total.

### Checkpoints

`work` is the folder (a version per file), `store` the hidden git, `queue` and
`job` the jobs that are executed one after the other, each git command an action
of its own between which tools, sub-agents and the user write. Versions above
`MaxWrites` are too large for a checkpoint. Any command may fail. A failing `add`,
`commit` or `checkout` ends the job (`StageFails`, `Commit`, `CheckoutFails`, the
last after some of the files were written). Others are swallowed: the list of what
is staged then counts as empty, so that a restore goes on without its snapshot
(`Commit`); the diff finds nothing added (`FindAdded`); a file stays staged that is
too large, or in the folder although it was added (`Unstage`, `RemoveAdded`); the
same happens to names git quotes, which are those outside ASCII. `job.missed` is
what a swallowed failure left out. Bounds: two files (one added, one changed since
the target), two writes of a version each, three commits, two jobs; the module
alone was also checked with three writes (3.3 million states).

- `RestoreIsExactAndUndoable`: a restore gives the commit back, and what it
  overwrites is in a commit; the exceptions are named in the property: files
  written meanwhile, files too large, and those in `missed`.

### Gateway

`GatewayClient` and the menu that starts and stops it. The server may send any
frame on any socket, closed or current; a socket that opens makes itself the
current one. Bounds: one client, two sockets (an old one may still speak), one
server timer.

- `NeverDeaf`: a client that was not stopped is connected or will connect.

### Loops

`LoopManager` with the runner of the REPL: timers of schedules that repeat or run
once, refused while the agent is busy. Two schedules; a run of a schedule may
last while its timer fires.

- `SchedulesKeepTheirWord`: no run over the last run of the same schedule, none
  after a stop, a single run runs once and is not forgotten when refused.

### McpServer

One server whose tools change while the client fetches them page by page, a
process that exits, a stream that breaks (`ServerEnds`) or ends without an error
(`StreamEnds`: the client stays up and is deaf, `mcp.hears`), a user who disables
and reloads. `server.told` counts the notifications sent and not heard. Two pages and three changes:
one change tears a list, one is told while the list is fetched again.

- `ToolsBecomeFresh`: when the client has heard of all changes and no list is under
  way, the tools of the server are those registered. Tools that a closed connection
  left behind may be there as well. A deaf client keeps those of its last list.

### Terminal

`screen` is `ScreenManager`: whether the alternate screen is used (a choice at
the start), raw mode, the stack of owners, the lines printed (`made`, their
numbers stand for the text), those withheld (`queue`) and those on the screen.
`watch` is the turn whose `InterruptWatcher` is active; there is one watcher.
`shell` is the REPL (where its loop is, `agentBusy`, `pendingInputs`), `turns`
and `line` the turns of the user, of schedules and of other surfaces and their
queue, `talk` the abort flag and the steering texts of the agent.

| Action | Code |
|---|---|
| `Write`, `Render` | `ScreenManager.write`, the timer of `scheduleRender` |
| `StartsTurn`, `TurnOver` | `processInput` with its composer and watcher, its `finally` |
| `ScheduleFires`, `RemoteArrives` | `runScheduledPrompt`, a job of Discord or Slack |
| `RunTakes` | `applyPendingSteering` at a boundary of whichever run is in progress, the terminal's or another surface's |
| `Steers` | whether `queueSteering` accepts a text |
| `Drain`, `CommandEnds` | `drainPendingInputs`, the loop after a command |
| `DialogOpens`, `Answer` | `withPrompt` around a menu or a permission |
| `ProgressBegins`, `ProgressEnds` | the progress line of a tool |
| `Type`, `Enter`, `EscKey`, `CtrlC`, `ProcessEnds` | a key, as every listener of stdin gets it |

Bounds: one text and one command, two turns, three events (turns and lines
together). Two turns are a turn with a schedule or a remote run beside it; the
text can be entered in two fields at once.

- `OutputIsKept`: every line is on the screen or will be, in order, on both kinds
  of screen, and a dialog is not written over.
- `KeysAreHeard`: stdin stays raw, and Ctrl+C reaches somebody who acts on it;
  the exceptions, which the code has, are named.
- `EnteredIsKept`: a text entered while turns start, end and are aborted is
  waiting at one place or was taken, once for each field that held it; and as
  steering it waits only while a turn of the terminal is there to collect it. Which
  run takes it is not promised (see below).

### Permissions

`rules` and `grant` are what the settings and the answers of the user left
behind, `mode` the autonomous modes, `asker` the calls at work (of the agent and
of its background agents), `chain` the questions, which are a chain of promises
(`_permissionQueue`). `Decision` is the whole of `checkToolPermission` up to its
question, in the order of its branches; what a command or path looks like is the
`class` of a call (within the folder, outside it or talking to the network,
destructive, blocked). Tools that write are told from those that read, which get a
question outside the folder where the others are refused
(`permission-manager.ts:660`). One remote surface stands for two, whose grants are kept
apart in the same way. The verdict is taken at the check, the question is put
later, so rules, modes and grants may have changed when it is answered; with a
failing save of the settings a rule stays although the call fails.

`said` is history: the words of the user, by answer or by rule. A rule that is
removed takes its word away.

Bounds: one call of the agent, one of a background agent, two grants or rules
(a grant and a rule that asks against it), calls of the shell of three kinds, a
file outside, written or read, and the desktop. Fairness: a question on the screen is answered or
times out. That is the user's part, and is all the property needs.

- `RunsByWord`: what runs unasked has a word on its own surface, or is trusted by
  a mode; the order of the branches decides which counts. Where a rule, the reach of
  a command or the sandbox wants a question (`Wanted`, on every surface), a mode or a
  word for the whole tool is none. The code has one exception, `ReachUnseen` (below).
- `QuestionsAreSettled`: each question has its turn, however those before it end.

### What reading showed besides

These have no run of their own, but a maintainer should know them. The first
five speak against a comment or a document; the properties name them as exceptions:

- a text typed while a turn of the terminal sends its report or waits in the queue
  is taken by the run of Discord or Slack that is in progress then, and reaches the
  conversation of that room: `applyPendingSteering` does not look at the source
  (`agent-loop.ts:956`, `1926`, `2404`), although `queueSteering` does so that this
  should not happen (`agent-loop.ts:836-837`);
- a restore goes on without its snapshot when the list of what is staged fails or
  overflows its buffer, and reports success with added files left when the diff
  fails or a name is not ASCII (`checkpoint-manager.ts:259-269`, `347-362`),
  contrary to `328-333` and `342`;
- who allowed bash as a whole on Discord or Slack is not asked about commands that
  reach out of the folder (`permission-manager.ts:424-428`), contrary to
  `config-reference.md:356-358` and `rule-engine.ts:16-19`;
- `--resume` with `--background` or `--slack` tags the restored session with the
  room of the bot (`room-manager.ts:122`), and the first room does not have that
  conversation any more; where the bot's room resumes a session by itself, `--resume` is ignored,
  although it was reported (`index.ts:772`);
- an SSE stream that ends without an error leaves the client connected
  (`mcp-client.ts:318`), where the comment at 329 has the end as a loss: it hears of
  no change and answers no call;

- a schedule that fires at the open prompt opens a second field; both get every
  key, a text is entered twice, and the turn that ends first stops the watcher
  of the other and clears `agentBusy` (`cli/repl.ts:3873`, `3993-3995`);
- after Esc the watcher is stopped, so that Ctrl+C in the turn that is still
  ending is ignored by the composer (`cli/interrupt-watcher.ts:71-74`); `/try`
  and `/goal-loop` have neither field nor watcher, and while the progress line of
  a tool is shown nobody hears Ctrl+C (`cli/screen-manager.ts:982`);
- two dialogs may be open, a command's menu and the permission of a run;
- a half-typed text is lost when its turn ends; texts typed during a scheduled
  run wait until the next turn of the user;
- `GatewayClient.start()` does not return when RECONNECT comes before READY;
- `/mcp off`, a reload and a broken stream leave tools registered;
- the reason that a turn's thoughts need no tool is kept for the whole manager: it
  also makes the calls of a background agent ask (`permission-manager.ts:245`);
- a plan that the user rejects answers the model that it may submit again, but
  the state is then "rejected" and the next `exit_plan_mode` fails
  (`agent/plan-mode.ts:60-125`, `tools/definitions/plan-mode.ts:87-130`);
- the question of the network proxy (`cli/repl.ts:264`) is not on the chain of the
  permission questions, so that two dialogs may be open;
- `task_cancel` does not stop the writes a reply showed as text;
- a worktree stays `active` when the start of its agent fails; ignored files go
  with a worktree; a failing commit ends a restore before its checkout.

## 7. Where the code and its comments disagree

Each has a run in which TLC finds the disagreement; the quotes are in
`PROJECT.json` under `findings`.

- `pause_overtaken`: a pause request during the reduction before a main call is
  not served before that call, contrary to `agent-loop.ts:1144`. It is served at
  the next boundary.
- `open_call`: a reply cut at the output limit leaves unanswered tool calls in
  the history; a pause then saves them, contrary to
  `docs/durable-run-resume-design.md:61`.
- `task_complete`: a failing save in the `finally` of a resumed run skips
  `task_complete`, contrary to `agent-loop.ts:2435`; `isProcessing` stays true.
- `text_waits`: at the limit of self checks the run ends as completed over a
  waiting text, contrary to `agent-loop.ts:2403`. The text is a turn of its own
  afterwards (`NothingTypedIsLost`).
- `run_alone`: `/try`, `/goal-loop` and `/goal-seek` run the agent beside the
  queue, contrary to `room-run-queue.ts:4-7`. The run `rooms` holds for the
  specification without these commands.
- `resumed_prompt`: after `--resume` of a session of another room the first
  prompt goes to a new session, contrary to `index.ts:197-198`.
- `compact_words`: `/compact` is neither queued nor refused; a run that starts
  while its summary is on the wire loses the words of the user when the messages
  are replaced, contrary to `docs/context-reduction-redesign.md:1265`.
- `quit_receiving`: a client between two sockets calls itself not running, the
  menu makes a second one, and `/quit` ends only that, contrary to
  `cli/repl.ts:474`. Two clients, two sockets.

## 8. Proofs

TLAPS proves the safety results for every value of the constants, that is for
any number of calls, rooms, texts, turns, files and steps. Each is the inductive
invariant of its module and what follows from it. The assumptions, which TLC
evaluates on every run:

| Assumption | Says |
|---|---|
| `GateConstants`, `RunConstants` | finitely many calls (a run has at least one), bounds are numbers |
| `RoomsConstants` | finitely many rooms, `NoRoom` is none of them; surfaces are bound to rooms, remote ones are Discord and Slack; bounds are numbers |
| `PrewarmConstants` | finitely many callers aside, whose names are not those of the other callers; settings are booleans, bounds are numbers |
| `SubAgentConstants`, `WorktreeConstants`, `LoopConstants`, `McpConstants`, `CheckpointConstants` | bounds are numbers, of which some are positive |
| `GatewayConstants` | finitely many sockets open at a time, a timer may run; `"none"` is no client and no socket |
| `TerminalConstants` | bounds are numbers; `"none"` is no text |
| `ToolBatchConstants` | costs are numbers, a shorter note costs no more than a longer one, and a result is cut to a body worth having (`MinBody`, 256 tokens in the code) |
| `PermissionConstants` | only the shell has destructive or blocked commands; only the shell, files and captures of the desktop reach outside the folder |

`RunApiGate_proofs`: `GateInv` is inductive (`GateInvInductive`). The properties
alone are not: that a counter is exact after a call returned late needs that no
call carries a future epoch (`EpochsPast`), that nobody waits on a forgotten
promise needs that the pending promise exists exactly in a pause
(`PromiseMatchesState`) and that a pause starts drained (`PauseIsDrained`).
From it follow `GateTyped`, `CountIsExact`, `PauseIsQuiet`,
`WaitersAreReleasable`, and the refinement `GateImplementsBarrier`.

`ForegroundRun_proofs`:

- `RunUsesGate`: every step of a run is a gate step or leaves the gate alone.
- `RunTyped`: types, part by part (control, sessions, texts, counts).
- `BoundariesAreQuiet`: from `CallsInv` and `LoopWaits`. The run has at most one
  open call and only at `main` or `stop`; `inFlight` is 0 or 1 accordingly;
  calls of earlier runs carry an older epoch; the gate is paused only in the
  await of the boundary, which is woken only after the pause was released.
- `PauseIsSaved`: inductive over `RunTypeInv` and `CallsInv`.
- `OvertakenOnce`: no overtaking has happened while the next call is prepared
  under a pending request (`OvertakenInv`); uses that the boundary is quiet.
- `ResumedAtMostOnce`: `ResumeInv`. A resumable checkpoint, loaded or saved, has
  never been resumed, a pause being taken has a new number, and the baseline of
  a roll back is never resumable.
- `TypedTextsAreKept`: `NothingTypedIsLost`, by `TextInv`. The property counts a
  text in four places and is not inductive: a roll back takes texts out of the
  history, a crash takes the history of the file. So `TextsHeld` counts every
  text, typed or not; `TextsGivenUp` says that only a run that starts holds its
  text itself; `TextsCopied` says that the baseline holds no text more often
  than the history and the file no text twice.

`Rooms_proofs`: `RoomsInv` (`InvHolds`), from which all invariants of `rooms`
follow. Its parts:

- `ManagerSound`: the session in the agent is that of the current room and
  extends its file; every room that is not current has its session in a file of
  its own. This is what "borrow, run, return" rests on, through failing saves.
- `FilesSound`: turns in a file are of the file's room (among the rooms of the turn,
  for a session a bot was started with), ranks by `updatedAt`
  differ and of any files one is the newest, so that "the latest session" is one.
- `Charged`: session ids given out are charged to rooms and restarts, so that a
  new id always exists.
- `SplitSound`: a room that was never split has one session, in files or loaded.
- `QueueSound`, `OwnersSound`: jobs are numbered in the order of arrival, and a
  turn has an owner only once its job started.
- `RunSound`, `RestSound`, `DoneSound`: the run in progress is that of the job at
  the head and brings the resting room back; what is done is in a file.

`JobsStartInOrder` follows from `QueueSound`. `RoomsImplementPrivateRooms` has one
lemma per action (`...Maps`): the conversation of a room that is not the current
one is read from a file the step does not touch (`SameConvs`), the current one
from the agent, so each step of `Rooms` is a turn, a loss or a stutter there.

`Prewarm_proofs`: `SlotInv`. `Chain` is the reason: the prewarms that are not over
are the last ones started, each queued behind the one before and all but the
last cut; so one is on the wire at a time. `RunIsServed`: a run that waits does
so for a prewarm that begins its own prompt. `OnlyReplacementsOvertake` needs
besides how a step may change the prewarms (`JobsGoOn`). `WaitsCanEnd` is the
safety half of `EveryWaitEnds`: who waits for a prewarm waits for one that is over
or behind one that can end or send now, since of the prewarms that are not over
the first can go on (`FirstCanEnd`, by the least number); and who judges a
boundary, or prepares, has a summary that waits, streams or is done
(`EventsAwaited`). What is left to fairness is that streams end and
continuations run.

`Terminal_proofs`: `TermInv`.

- `NoOutputIsLost`: by `ScreenSound`. On the plain screen what is shown and what is
  withheld are all lines in order, and withheld lines have a dialog to wait for;
  on the alternate screen a line not shown has a redraw that is due. Each
  operation of the screen keeps it and does not draw under a dialog (`Calm`,
  `Rests`).
- `SomebodyHears`: by `Present`. An open field belongs to a turn in progress, the
  prompt has its field, and turns in progress have a watcher or are among those
  which the code leaves without one.
- `EnteredTextsAreKept`: by `Counted` and `Drafted`. Moving a text is counted with
  `Times`, the number of the places of a value in a sequence, whose laws are in
  `Counting_proofs` (`TimesCat`, `TimesTail`, ...). `Drain` takes a text out of the
  waiting ones by a recursive function (`Without`); what it does for every length
  is shown by the least length at which it could fail (`Least`), since the
  induction theorems of the library take an operator the provers cannot fill in.

`Parts_proofs`:

- `SubInv`: what the agent read followed by what waits is the accepted follow-ups,
  in order; while one waits in a run a turn is left to read it; the record is
  running until it is settled or cancelled. From it `ResultIsThatOfTheStatus` and
  `FollowUpsAreRead`.
- `TreeInv`: a worktree that is there holds all its agent wrote, one that is gone
  held nothing that is neither in main nor given up; a closed record, in memory
  or on disk, is that of a worktree that is gone. `BusySound` says what a step of
  an operation finds, so that an end between two steps is covered.
  `WorkIsNeverLost`.
- `LoopInv`: a schedule that is on has its timer or runs; one of a single run has
  not run while it is on. `SchedulesAreKept`.
- `McpInv`: without a change that is not heard or not marked, pages fetched so far
  are those of the server. `ToolsStayFresh`.
- `GatewayInv`: the current socket is the client's own, a client whose start has
  not got to its socket has nothing else under way, one that is on has a socket, a
  timer or a request. `NeverDeafHolds`.
- `LoadInv`: reconnects do not pile up, though `scheduleReconnect` adds a timer
  without looking for another. `GatewayTypeOK` bounds them and is not inductive:
  each timer must be charged to what it comes of, a socket not greeted, a
  heartbeat, or a frame of the server, and the two are exchanged when a socket is
  greeted or lost. `GatewayTypesHold`.

`Tools_proofs`, about `ToolBatch` (for every number of calls, limit, size and cost):

- `ToolInvHolds`: `ToolInv` is inductive. The two properties alone are not. That
  `fit` always finds room (`FitKeepsTotal`) needs that a place is left for the
  result being added, so that the budget counts exactly the calls without a
  result (`LeftInv`); that each result takes one place needs that the results at
  hand are of unanswered calls, each once (`TodoInv`), and that needs to know
  which calls are answered at each stage of both paths (`PathInv`).
- `ResultsFitTotal`, from it: `TotalIsKept`.
- `StoppedRests`: `StoppedBatchRests`. In the pool the call itself looks for a
  stop; in sequence a tool that stops the run ends the batch before the gate is
  reached again, which is the part of `PathInv` about `stopped`.
- `BatchesEndWhole`: a batch that rests has a result for each of its calls, the
  safety half of `EveryBatchEnds`. By `LogSound`: results in the history are of
  calls of the reply, each once, and the calls without one are those of `PathInv`.
- `PlacesAreUsed`: at most `Limit` calls are active in the pool, and none waits
  while a place is free. By `PoolInv`: the count of the semaphore is that of the
  active calls, its queue names each call that waits once, and only a full pool has
  a queue (`PlacesSound`, `QueueSound`).
- `ToolTypesHold`: by `SizesInv`, since the size of a cut result is one only if
  the body it is cut to is.

about `Permissions` (for any number of calls, rules and kinds of calls):

- `PermInvHolds`: `PermInv` is inductive. Behind every allow rule and every grant
  is a word of the user (`WordsInv`), also after a rule was removed and when a
  save fails; every question belongs to a call that waits, once (`ChainInv`), so
  that an answer starts the call it was put for and no other.
- `ToolsRunByWord`: `RunsByWord`. One lemma per source of a permission
  (`RuleForCall`, `RuleForTool`, `AnswerForTool`, `AnswerForCall`,
  `AutorunIsPlain`), then the branches of the two checks.
- `QuestionsComeNearer`: a call that asks has one place in the line; a step adds a
  question behind, or settles the first and moves each other one nearer
  (`ChainMoves`), so that no caller is passed over. What is left to fairness is that
  the question on the screen is answered or times out.

and about `Checkpoints` (for any files, writes, commits and jobs):

- `RestoresAreUndoable`: `RestoreIsExactAndUndoable`, by `CheckInv`. The property
  is about a whole restore, six steps between which others write. `FileSound`
  says how far a job is with a file that nobody else wrote meanwhile: staged as
  it is in the folder, taken from the target, removed; `SnapshotSound` that the
  last commit is what was staged, and that what the restore removes is what the
  snapshot has and the target has not, files apart that a swallowed failure left
  out; `TargetsSound` that a target is a commit of the log or was cleared.

and at the end of `Parts_proofs`, about the sum of the ten parts (`MCParts`):

- `PartsStepOnePart`: a step of the sum is a step of one part, and a stutter of the
  others. So each part behaves as it does alone (`PartsBehaveAlone`); those of which
  a run asks fairness keep their invariants without it (`PartsKeepInvariants`).
- `PartsTypesHold`: `PartsTypeOK`. `PartsAreSafe`: every safety property of the run
  `parts`, eight invariants and seven action properties, for any values of the
  constants of all parts at once.

Every invariant and every action property of a passing run is thereby a theorem.
Only model-checked is liveness (`NobodyStranded`, `PauseIsAnswered`,
`AbortEndsRun`, `JobsAreServed`, `EveryWaitEnds`, `EveryBatchEnds`,
`QuestionsAreSettled`): fairness and ENABLED are out of the prover's reach. Of
four of them the safety half is proved: `WaitersAreReleasable`, `WaitsCanEnd`,
`BatchesEndWhole`, `QuestionsComeNearer`.

## 9. Not modelled

- In `ForegroundRun` every run is the terminal's; `Rooms` has the runs of all
  surfaces but not what a run does, so an Esc that reaches another surface's run
  is a hazard without a property yet.
- In `Rooms`: schedules, `/fork` and `/resume` at the prompt, sessions without a
  room from before the room model, a config file that cannot be written in
  `/room autoresume`, two processes on the same session files, equal times of two
  saves.
- In `Checkpoints`: the return to the hidden store of an earlier session while a
  restore from it waits; stores that share their folder with another process.
- The parts are checked each for itself. In `ForegroundRun` prewarms end before
  the main call is sent and a tool batch is one await; a sub-agent uses the
  provider without the gate (`AgentLoop.getProvider`), so its calls are not
  counted.
- In `Terminal`: editing, menus and history of a field, scrolling, mouse, spinner
  frames, multi-line input, lent stdin, and `/run`, `/parallel`, `/quit` typed
  into a composer.
- The limit of 20 waiting texts, most commands of the REPL, the validation of
  binding and workspace before a resume, and displays.
- The reduction of a history: when it comes and what it does to the exchange with
  the slot is in `Prewarm`; its stages, thresholds and texts are arithmetic over
  estimated tokens and wording. The same holds of the patterns of permissions over
  command texts and of the providers (translation of protocols): most of their
  lines are text processing whose cases unit tests of the repository list.
- In `Permissions`: the network proxy with its own questions, the isolation by the
  operating system, the folders added in a session, the path of a browser's
  screenshot and of a game's smoke test, and equal hashes of different parameters.
- Components with status `not_modelled` in `PROJECT.json`, each with its reason.

Most of what is left are drivers of external programs (browser, Blender, Unity,
computer use, image models), prompts, displays, parsing and start-up
configuration: code without concurrency and with little state, of which a model
would say the same as the code.

## 10. Running

    tlc -config gate.cfg MCRunApiGate.tla
    tlc -config foreground.cfg MCForegroundRun.tla
    tlc -config rooms.cfg MCRooms.tla
    tlc -config parts.cfg MCParts.tla
    tlc -config compact_words.cfg MCPrewarm.tla
    tlc -config quit_receiving.cfg MCGateway.tla
    tlapm RunApiGate_proofs.tla
    tlapm ForegroundRun_proofs.tla
    tlapm Rooms_proofs.tla
    tlapm Prewarm_proofs.tla
    tlapm Terminal_proofs.tla
    tlapm Counting_proofs.tla
    tlapm Parts_proofs.tla
    tlapm Tools_proofs.tla

The operators commented as mutants are plausible mistakes in the code; the
`mutants` of `PROJECT.json` say which property each of them breaks.
