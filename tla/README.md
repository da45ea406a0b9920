# A verification of the Pi extensions

This directory holds TLA+ specifications of the concurrent parts of the
extensions in `src/packages`, the TLC configurations that check them on small
instances, and theorems about them that TLAPS checks. `PROJECT.json` is the
index: which definition models which lines (`map`), what each run checks
(`runs`), which plausible bug each property catches (`mutants`), what is hard
in this code (`hazards`), and what is proved (`theorems`).

Paths below are relative to `src/packages` unless they begin with `src/`.

- [The system](#the-system)
- [Modules](#modules)
- [Runs](#runs)
- [Fairness](#fairness)
- [Proofs](#proofs)
- [Where the code and its documents disagree](#where-the-code-and-its-documents-disagree)
- [What is not modelled](#what-is-not-modelled)
- [Plan](#plan)

## The system

The repository is a monorepo of about thirty extensions for the coding agent
Pi. Each is loaded into Pi's one Node.js process, registers tools, commands
and event handlers, and awaits files, sockets, child processes or D-Bus. There
is no parallelism within a process, so a handler is atomic from one `await` to
the next; what is hard is what happens in between, other processes, and
crashes.

| Component | State | Operations | Talks to | What is hard | What makes it correct |
|---|---|---|---|---|---|
| Message broker (`pi-subagents/src/message-broker.ts`, the child's client in `child-communication-*.ts`) | loopback server, tokens of jobs, requests with their responses, suspended waits, open sockets | start, shutdown, issue and revoke credentials, create / roll back / deliver / answer a request, waits of both sides, frames | runtime (calls), children (one frame per connection) | frames, flush callbacks, timers, closes and calls of the main agent in any order; limits; retries | polls and waiters name each other; nobody waits for someone who waits for them; the first response wins; revoked jobs hold nothing; sockets are released |
| Job runtime (`pi-subagents/src/runtime.ts`, lifecycle queue of `tools.ts`) | jobs, their tasks, the send chain of each, main waits, session and generation | spawn, send, wait, cancel, inspect, session start and end | broker (calls), child process (`runChild`), Pi (completions) | a cancellation, the end of the child, a failing send and the end of the session race; state is read before awaits and used after | one completion per job; no job outlives its session; sends keep their order and never leave a request behind; nothing hangs |
| Child process (`pi-subagents/src/process.ts`) | process, pipes, RPC commands, three timers, the flags of its end | spawn, prompt, steer, events, abort, timeout, termination | operating system, runtime | every end may come at any time, also during another; Windows ends a tree by another process | one cause, no timer or caller left, nobody abandoned alive, always an end |
| Apply transaction (`pi-sync/src/snapshot-transaction.ts`, `snapshot-apply.ts`) | files, backups, journal | apply, restore, recover | file system | a crash or an error at any call, also during a restoration | old files, or new files, or all backups |
| Operation lock (`pi-sync/src/lock.ts`) | guard directory, lock file | withLock, unlock, unlock --stale | other Pi processes through the file system | crashes, lost guards, a check and a removal that are two steps | one operation at a time; live locks are kept, dead ones end |
| Workflow mutex (`workflow-mutex.ts` in `pi-goal` and `pi-plan-mode`) | session, held owner, generation of each participant | bind, unbind, acquire, release | each other, by synchronous events | listeners run in the middle of an acquisition and may change what it relied on | one holder per session; no stale owner holds or releases |
| Delivery of `pi-fleet` (`transport.ts`, `fleet-controller.ts`, `reload-handoff.ts`) | membership, endpoint, dedup window, kickoff flags, handoff, session entries | handle a frame, join, leave, reload, shutdown | peers over sockets, Pi | repeated frames, reloads and shutdowns between receipt and record | a kickoff starts once; an acknowledged message was handed over |
| Inhibitors of `pi-caffeinate` (`caffeinate.ts`, `dbus-inhibit.ts`, `inhibitor-process.ts`) | active process and client, pending start and cleanup, sequence, mode, session generation | run start and end, mode change, stop, session start and end | operating system, D-Bus | starts and stops overtake each other in their awaits | no inhibitor is lost or imagined; awake exactly while a run is under way |
| Accounts of `pi-accounts` (`runtime-auth.ts`, `accounts.ts`, `storage.ts`) | the selection of a session, the generations of overlay, key and refresh, the queue of key mutations, what was offered to other extensions; the credential store and its lock | session start and end, selection, login, logout, prompts, each through `syncProvider` with a dozen awaits | Pi (runtime key, provider configuration), the OAuth provider, other processes through the store, other extensions | the account, the credential and the session are read before awaits and applied after them | a turn uses the account that is selected then; an ended session leaves nothing in Pi; no refresh that has the store's lock, or knows that it has not, replaces a newer credential |
| Plan lifecycle of `pi-plan-mode` (`plan-mode.ts` and its coordinators) | mode, plan, saved plan, implementation, frozen tool policy, in memory and in the branch; contract, finalization request, retention, queued messages, the open command | commands and menus, events of the session and its tree, events of runs | workflow mutex, Pi (branch, messages, active tools), files | three copies of the mode (memory, branch, what the model has read) drift apart through navigation, reloads and crashes; commands await | who plans owns the group; the model hears the mode that is enforced; a frozen policy never grows; a command acts on its own plan |
| Goal runtime of `pi-goal` (`runtime.ts`, `lifecycle.ts`, `commands.ts`, `tools.ts`) | goal with its limits and waits, continuation (intended, delivered, cancelled), recovery, owner of the run, guard, stale-call block, noted inputs | `/goal` commands, goal tools, events of sessions, runs, messages and compactions, two timers | workflow mutex, Pi (messages, retries, compactions, abort) | which run is automatic is known only through queues, retries and compactions; sends fail; dialogs stay open | unrequested work is bounded; an active goal is never forgotten; one continuation at most, for the current goal; the group follows the goal |
| Managed browser of `pi-chrome-devtools` (`browser-manager.ts`, session events, saved settings, operations of WebMCP) | settings, port and managed browser of a session, the shared launch, the processes and their cleanups | tool calls, launches over candidates, cleanup, session start and end, saving of settings | tool calls (one shared promise), browser processes, other browsers on the host, the settings file | a launch has a dozen awaits at which the session may end, the browser exit, the settings change or the caller give up; shutdowns await launches and launches await shutdowns | no browser is left behind; an ended session has none; nobody waits for ever; WebMCP ends with its browser |

Components that are not modelled, or not yet, are listed with their reasons
[below](#what-is-not-modelled) and in `PROJECT.json`.

## Modules

| Module | Models | Composition |
|---|---|---|
| `SubagentBroker` | the message broker and its clients | |
| `SubagentRuntime` | the job runtime and the session lifecycle | `EXTENDS SubagentBroker`: its steps call the broker's operations; shown to implement `SubagentBroker!Spec` |
| `ChildContract` | what the runtime relies on in a child | abstract specification |
| `SubagentProcess` | the child process | implements `ChildContract` through a refinement mapping |
| `SyncTransaction` | the apply transaction of pi-sync | assumes one operation at a time, which is what `SyncLock` shows |
| `SyncLock` | the operation lock of pi-sync | |
| `WorkflowMutex` | the mutex of pi-goal and pi-plan-mode | |
| `FleetDelivery` | the receiving side of pi-fleet | |
| `Caffeinate` | the inhibitors of pi-caffeinate | |
| `RuntimeAuth` | the accounts of pi-accounts | the store and its lock are in it, because its sessions and other processes meet there |
| `PlanMode` | the plan lifecycle of pi-plan-mode | `holder` is what `WorkflowMutex` shows: one holder per session |
| `GoalRun` | the goal runtime of pi-goal | `owner` likewise; the other workflow may be a plan |
| `ChromeBrowser` | the managed browser of pi-chrome-devtools | |
| `*_proofs` | theorems about the module they extend; `SubagentRuntime_proofs` has those of `SubagentBroker`, too, `Agents_proofs` those of `SubagentProcess` and `FleetDelivery`, `Sync_proofs` those of `SyncTransaction` and `SyncLock`, and `Workflow_proofs` those of `WorkflowMutex` and `GoalRun` | |
| `MC*` | instances for TLC: symmetry, and constants a cfg cannot write | |

Definitions marked `Mutant:` are variations of the definition that follows
them. No specification uses them; each documents a plausible bug that the
property named in `PROJECT.json` detects.

### SubagentBroker

A `conn` record is one socket with both its ends. The server's end goes from
`open` (no frame yet) to `parked` (a wait registered as the waiter of its
request) or `answered` (`socket.end`), then `closed`; the client's end is
`waiting` or `gone`. `req` holds the request records, `live` the keys of the
Map; a deleted record remains as history. `queued`, `waiter`, `consumedAt` and
`response` are the code's fields. `clock` is `now()`, in which `consumedAt`
values may tie; the eviction then follows insertion order. `MarkConsumed` and
`Evicted` model the eviction of consumed requests beyond `MaxRetained`.

One action per handler or call: `IssueCredentials`, `RevokeJobs`,
`CreateMainRequest`, `RollbackMainRequest`, `MarkMainRequestQueued`,
`ReplyFromMain`, `BeginMainWait`, `EndMainWait` for the runtime; `Connect`,
`RejectFrame`, `ChildRequest`, `ChildReply`, `ChildWaitAnswered`,
`ChildWaitParks`, `WaitTimesOut`, `Flushed`, `FrameTimesOut`, `ClientReceives`,
`ClientGivesUp`, `SocketCloses` for a connection; `Start`, `StartSettles`,
`Shutdown`, `ShutdownFinishes`, `Fail` for the server. A reply wakes a parked
wait in the same step because the code answers it synchronously; the flush
callback that marks the request as consumed is a step of its own, and so is
the arrival of the answer at the client, which may have given up before.

`received` and the records of deleted requests are history: they restrict
nothing.

### SubagentRuntime, ChildContract, SubagentProcess

`job`, `send` and `waitFor` are the runtime's records; `send[s].pc` says which
await of `sendToJob` a call is in (behind the job's send chain, for
`controlReady`, for the delivery). `lifecycle` is the operation at the head of
the queue in `tools.ts`; the others wait for it, so a session operation
begins in `idle`. The broker's own steps go on beside (`BrokerStep`).

The child is seen as `runChild` offers it: it may become ready once, accepts
or refuses steering messages, and resolves with one outcome, which is
`cancelled` exactly if it was aborted. `ChildContract` says this by itself and
`SubagentProcess` implements it, with `control <- ready` and `steered` the
commands that were accepted. So what the runtime assumes of a child is checked
against `process.ts`, without a product of both state spaces.

In `SubagentProcess` every handler of the process, its pipes and timers is a
step, and the child is free: any order of events, any exit, or none. `windows`
is chosen at the start and never changes: there `taskkill` ends the tree and
the result waits for it (`termination`), elsewhere `SIGTERM` is followed by
`SIGKILL`.

### SyncTransaction

`disk` maps paths to absent, directory, old, new or torn file. A plan deletes
what the snapshot does not have, and what is in the way of a directory or a
file it does have, and writes the rest. `saved` is the set of the pairs of a
target and a path that its backup contains; `journal` is absent, torn or
whole. A fault happens inside a file system call: the effect may be partial
(a torn file, a subtree removed in part, parents created without the file, a
backup directory removed entry by entry), and then the call throws (`Throws`,
into the restoration of the catch block) or the process dies (`Crash`, until
`Recover`). A call of the preparation or of the restoration that throws leaves
everything as it is, like a crash. `before` is what was there when the
transaction began and doubles as the contents of the backups; `halfDropped` is
history: the final removal of the directory stopped half way.

### SyncLock

A call is at the step named by `stage`. `guard` is the directory of
proper-lockfile, which is not under `src/`: it is taken over when its holder
has not refreshed it for `LOCK_GUARD_STALE_MS`, that is, when the holder is dead or
`world.stalls` lets live processes miss a refresh; the loss is noticed later
(`NoticeLoss`) or never. The lock file is created first and filled in a second
step. `world` is chosen at the start and never changes: which calls are made,
who may die, whether refreshes are missed.

### WorkflowMutex

`attempts` is the stack of emissions that have not returned: `emit` is
synchronous, but a listener may call any method, and so begin another emission
inside it. `conduct` says what the listeners of other extensions do there; it
is chosen at the start and never changes. An answer comes from each
participant that is bound to a session; `spoiled` stands for the malformed or
throwing listener. `owners` are all symbols ever handed out: a caller may
release an old one at any time.

### FleetDelivery

`phase` follows the membership and its transport. `busy` is a join that has
connected and still takes its snapshot. `frames` are frames under way, in any
order and number up to the bound; `acks` collects the answers. A frame is
handled in one step, because `onMessage` awaits nothing. `Persist` is Pi
writing a message to the session some time after the receipt; a reload reads
`branch` and the `handoff` of its predecessor.

### Caffeinate

An inhibitor has the token `inhibitSequence` of its start. `tasks` are the
calls of `startInhibitor` that wait for D-Bus; `op` is the mode operation under
way, by the await it is in, with what it read before; `pending`, `cleanup`,
`proc` and `dbus` are the fields of `state`. `world` (command, D-Bus, failures)
never changes. Mode operations that wait in the queue are left out: before
their turn they read nothing but the generation, and end at once if it has
changed.

### RuntimeAuth

A call of `syncProvider` is a `task`; its `pc` names the await it is in: the
first read of the credential, the refresh and the request under the store's
lock, the second read, the runtime key (queued, then in Pi), the check that
the session still matches, the catalog, the verification, and what clears the
key and the overlay again. A step goes from one await to the next. `coord` are
the coordinators, one for each session, because those of earlier sessions
still run; `gen`, `cgen` and `rgen` name the task with the newest generation
of the overlay, the key and the refresh signal. A login, that is an account
and a version of its credential, stands for keys and overlays, so that a key
that belongs to an older credential can be told from the current one.

A refresh holds the lock of the store (`lock`) while it waits for the provider,
and works on the file as it has read it (`update`), which it writes back as a
whole, with the new credential in it or without (`Refreshed`, `RefreshFails`).
Losing the lock and knowing about it are two steps, as in `storage.ts`: another
process takes a lock that has become stale, and may change the store then
(`LockTaken`); `proper-lockfile` tells the refresh when its timer runs
(`LockCompromised`), if it runs before the refresh ends. Only what it was told
(`update.told`) keeps a refresh from writing. Updates of one process wait for
each other whatever becomes of the lock (`Serialized`), and those that await
nothing but the lock are one step.

Other processes also change the store when its lock is free (`OthersStore`). Pi
may refuse any call (`MaxUpsets` bounds what goes wrong). Failing closed means
that Pi gets a key that no provider accepts.

### PlanMode

`st` is the state in memory and `branch` what the branch of the session holds:
the state, the last contract, and what was said in it. `session_tree` may put
any branch there that the session could have (`Points`). `told` is the
contract in the last request of the run, which is what the model goes by.
`op` is the one menu, export, preflight or fresh session that awaits, with
what it read before it did. The policy is `resolved`, its `frozen` set is what
the first request allowed, and `allowed` is what is enforced in memory.

A message that Pi has taken may still be lost (`MessageLost`), since
`sendUserMessage` answers nothing: Pi finds no model or no credential for it, or
the user takes a follow-up back. A message whose run has begun is not lost.

`asked` and `shown` are history: how far the last request to finalize has come
(heard, answered by a normal run, or lost by Pi before any run heard it) and
what a run has seen of the implementation. They restrict nothing.

### GoalRun

The fields of `GoalRuntime`, and with them the mutex, the session entry
(`saved`) and Pi's messages, are one record `rt`; the operators from records
to records are the methods of the runtime, named after them, and the actions
are the handlers. `phase` says where Pi is: idle, preparing a prompt, asking
the model, running a tool, between two turns, at the end of a run (where it
retries, compacts, continues with late messages or settles), or compacting.
What Pi does there is external and as free as its documentation lets it be: a
failure may or may not be retried, queued messages arrive as steers or at the
end, the user may type, abort or use any command at any moment.

A message is `sent`, then `starting` a run or `queued`. An owned prompt has a
`mark`: it is known to the runtime (`pending`, `live`) or has been
`cancelled`. Usage is whether the budget is spent. A send succeeds, throws, or
finds Pi busy. `asked` and `solo` are history: whether somebody asked for what
the run does now, and how often the model has responded, since the user last
asked for something, when nobody had. `lull` is history too: it names the
steps after which the code leaves an active goal alone until something else
happens (failed commands, failed compactions, a restoration, a continuation
that was overtaken in a run); the disagreements below explain them.

An abort that is asked for while a prompt is being prepared takes effect when
its run begins.

### ChromeBrowser

`scope` is the `ManagedBrowserScope` of one owner, `launch` its launch promise
by the await it is in, `browser` the processes, `call` the tool calls (those of
WebMCP are marked), `handler` the three callers of `shutdownManagedBrowser`
that a session has: its start, its end and the saving of settings. A dynamic
port is a negative number that belongs to one process; `External` are ports on
which browsers of the user listen. The number of `Browsers` bounds the
processes whose cleanup has not ended; a launch that finds no free one fails, as
`mkdtemp` may.

The generation of a launch or a handler is only ever compared with the current
one, so the model keeps whether it is `stale`; this makes sessions unbounded.
`Gone` in place of a browser means that the holder has a reference to a record
that was cleaned up meanwhile. `Calm` orders microtasks: a handler that awaited
the launch goes on before any other event. Loops of retries (the published
port, the endpoint, the list of pages) are one step that succeeds when it can,
or fails at any time.

## Runs

Every passing run checks safety exhaustively within its bounds. Deadlock is
checked in the run of `ChromeBrowser`, where a session can always be started or
ended, and not elsewhere, because every one of the other systems may rest: no agent
has to send, no user has to call, and the counters that bound a model end. What
must not hang is said by liveness properties.

| Run | Question | Instance, and why it is enough |
|---|---|---|
| `broker` | do waits, replies, steering messages, retries and revocations keep the broker's promises in any order? | two connections (two waits for one request, or a wait and a request), two requests against a limit of two outstanding and one retained, one response and its repetitions, one main wait; two clock values, so that equal and different `consumedAt` values occur; every action of a request involves one request, one connection, and at most one other of each. The limit of outstanding requests cannot be passed with so few: that it holds (`HoldingsAreBounded`) is shown by the proof, for every number of requests and every limit |
| `runtime` | do jobs, their publication and sessions stay consistent, do sends keep their order and leave nothing behind, is every step a step of the broker, and does everything settle? | `WithinBounds` is the union of four instances: two jobs in one session; two sessions (generation 4) with a send, so that jobs, sends and requests of the first meet the second; three sends to one job, one under way, one cancelled and one that overtakes; a send with a connection of the child and a main wait. A step of one instance that leads into another goes on there. The bounds forbid only new jobs, sends, waits, connections and sessions, never a step that fairness is about |
| `process` | do abort, deadline, completion, errors and exits race safely? | one child with a timeout, two steering commands, both platforms |
| `transaction` | are files ever lost? | a directory with two files and another file, each absent, file or directory in all well-formed ways; any snapshot over them; three faults: one in the apply and two in restorations |
| `lock` | does the lock exclude, and do dead locks end? | two calls of two processes, and a third process whose user repeats `unlock --stale`; worlds with deaths or with missed refreshes |
| `mutex` | does the mutex exclude, and do old owners have no power? | two participants, two sessions, three session changes and two owners for each, emissions nested twice; listeners that only answer, that do everything but acquire, and that acquire |
| `fleet` | do kickoffs start once, and are acknowledged messages heard? | a request and two competing kickoffs, each in two frames; three starts of the endpoint |
| `caffeinate` | is every inhibitor accounted for? | seven events with up to two mode changes; with an inhibitor command and D-Bus, with or without failures, and with D-Bus alone |
| `accounts` | does Pi use the account that is selected, and only while the session lasts? | two accounts, one of them with an expired credential, and sessions that start with it or with an invalid selection; two sessions, since a coordinator meets at most its successor; two calls beside those of the session events: one to be overtaken and one that overtakes; one upset |
| `plan` | do mode, mutex, contract, policy and commands agree after any history? | two plans: the one a command was called for and another; one tool; one queued message; one of the retentions, the one with a life of its own; at `session_tree` every state, without earlier handoffs or with its own (`MCTree`) |
| `goal` | can the agent work without end, stop for no reason, or work for a goal that is gone? | a limit of two responses and one run without progress, two goal instances: the current one and the one before; one message of others at a time, in each delivery mode; six ways of answering |
| `chrome_browser` | is a browser ever left behind, does WebMCP end with it, does a shutdown end, and is every caller answered? | one tool call, which may give up while its launch goes on, so that the next call meets the launch of another; settings that pin a port, use extensions or forbid launches; two candidates; two processes, the old one and the new one (under a pinned port only one at a time, `WithinBounds`) |

`plan` was also run with the retention `keep` beside the other, with two
queued messages and one plan, and with every branch as a point of the tree;
`goal` with all answers and a limit of one response. All held.

What they show, beyond the obvious:

- A steering message is never hidden behind a wait of the child, although the
  message is accepted and marked in two steps (`NoWaitBehindSteering`), and the
  main agent never waits for a child that waits for it (`NoMutualWait`). Only a
  revocation takes a child's unanswered request away; timeouts and aborts do
  not (`OnlyRevocationCancelsChildRequests`).
- A send overtakes an earlier one only across a cancelled one
  (`OvertakingNeedsAnAbort`): the cancelled call gives up its place in the
  chain at once. The order of sends is otherwise kept.
- A child that has been reported over is closed or was killed
  (`AbandonedOnlyIfKilled`, a part of `EndsAreSound`), and on Windows the result waits for `taskkill`.
- The apply transaction loses nothing except in the window of its last call,
  described below.
- Neither crashes nor missed refreshes let two sync operations work at once,
  as long as nobody says `--stale` meanwhile.
- A turn is never on another account than the one that is selected when it
  starts (`TurnsAreAuthenticated`), although every one of a dozen awaits may see
  another selection; the generations are needed for it, as the mutant shows.
- A plan may be exported, implemented or taken to a fresh session only as the
  plan that the command was called for (`CommandsActOnTheirPlan`).
- A launch that fails, is cancelled or loses its session at any await takes its
  browser with it (`NoStrayBrowser`), and a shutdown needs no second look for
  launches that begin while it waits (`ShutdownReleasesAll`), because their
  signal is aborted until the next session has started.
- Pi's retries and compactions keep the charge of automatic work
  (`AutomaticWorkIsBounded`), also across failures, reloads and steers.

Several properties are conjunctions, so that one run of one mutant serves a
hazard: `ResponsesAreFinal`, `SendsAreOrderly`,
`EverythingSettles`, `EndsAreSound`, `NeverStuck`, `ApplyIsAtomic`,
`RecoveryRestores`, `LockProtects`, `GroupIsSound`, `InhibitorsAreKnown`,
`AwakeWithTheRun`, `ShutdownReleases`, `AccountsAgree`, `PlanningIsSound` and
`GoalIsSound`. Their parts are named and commented where they are defined.

Conditions in properties name what the code does not promise:

- `NothingLostUntilDropped` and `RecoversInterrupted` except what the
  section on disagreements describes (`halfDropped`, a torn journal,
  transactions that replace a file by a directory or the reverse).
- `LiveLockIsKept` is about processes that refresh their guards. `MutualExclusion`
  of `SyncLock` says nothing about missed refreshes, but `WorldsChecked`
  contains no world with both missed refreshes and `unlock --stale`, where it
  fails as described below. Where refreshes are missed, `LockCorrect` asks that
  no process dies and nobody says `--stale` (`Calm`).
- `MutualExclusion` of `WorkflowMutex` excepts listeners that call `acquire`
  inside an emission; `RefusedOnlyWhenBusy` those that throw, spoil or change
  state there.
- `AckedIsReceivedIfIdle` excepts sessions that end in the middle of a
  membership operation, `AwakeOnlyWhileRunning` mode changes,
  `AwakeWhileRunning` platforms without a command and failures.
- The properties of `RuntimeAuth` except that Pi refuses to remove the key of a
  session that has ended (`refused`): nothing can undo that. `VersionsNeverGoBack`
  excepts one step: the end of a refresh that has lost the lock of the store and
  has not been told (`Unaware`).
- `RetryFollowsItsRequest` excepts a request that Pi has taken and lost before a
  run heard it (`asked = "lost"`). A request that still waits for the agent, one
  that was aborted and one whose run has failed are not excepted.
- `ActiveGoalsMove` excepts what follows the steps named by `lull`, a failed
  resumption of a goal that waits among them (met when the invariant of its proof
  was checked with a third goal);
  `GroupFollowsGoal` excepts one refused replacement (`KeepsWhatItTook`).

## Fairness

- *Runtime*: microtasks run (a task begins, a send goes on after its
  predecessor or after `controlReady`), the lifecycle queue goes on, a
  steering command is answered, fails or times out (`RPC_RESPONSE_TIMEOUT_MS`
  in `process.ts`), and an aborted child ends. The last is what
  `AbortResolves` of `ChildContract` says, and run `process` shows it of the
  process. Nothing is assumed of a child that nobody stopped.
- *Process*: its timers fire, `spawn` reports success or failure, and
  `taskkill` is given up after a grace period. Nothing is assumed of the child.
- *Transaction*: a process that has begun goes on, and some later session
  starts a recovery (`WF(Step)`); faults are bounded, not fair.
- *Lock*: calls of live processes go on; the user repeats `unlock --stale`. An
  attempt that is made early finds the guard of a dead process not yet expired,
  and returns; strong fairness of `AcquireGuard(User)` says that not every
  attempt is early, which the expiry after `LOCK_GUARD_STALE_MS` makes true.
- *Caffeinate*: D-Bus calls end because `dbus-inhibit.ts` gives them
  deadlines, and writing a file ends.
- *Chrome*: every await of a launch, of a cleanup and of a handler ends: file
  calls, `spawn`, the two waits of `BROWSER_SHUTDOWN_WAIT_MS`, and requests with
  their deadlines. Nothing is assumed of the browser: it may hang, ignore
  `SIGTERM` or never publish a port.

The broker, the mutex and the fleet have no liveness properties: what they
promise is about what must not happen. A connection of the broker always has a
step of its own ahead (a timer, a flush, an answer to read, a close), a parked
poll without a timer excepted; `WaitersAreParked` and `RevokedJobsHoldNothing`
say that such a poll is ended by a response or by the end of its job, so none is
left behind. Nor do `RuntimeAuth`, `PlanMode` and `GoalRun`:
their progress is the user's, Pi's and the provider's. What the code itself
must see to is stated as a safety property of the resting states
(`RestsWithTheSelection`, `ActiveGoalsMove`): there the result must have been
reached or its cause be in place.

## Proofs

Eight modules hold theorems; TLAPS checks each of them for all values of the
constants that satisfy the assumption of their module (`BrokerAssumption`,
`RuntimeAssumption`, `ProcessAssumption`, `WorkflowMutexAssumption`,
`FleetDeliveryAssumption`, `CaffeinateAssumption`, `ChromeAssumption`,
`SyncTransactionAssumption`, `SyncLockAssumption`, `GoalRunAssumption`,
`RuntimeAuthAssumption`, `PlanModeAssumption`, `TreeAssumption`,
`CommandsAssumption`), which TLC evaluates in the runs. One theorem asks for more, `LockCorrect`.

- `SubagentRuntime_proofs`, first part (`SubagentBroker`): `IInv` is inductive
  (`InvariantCorrect`). The safety properties are not inductive alone. That a
  waiter is parked needs that deleted requests have no waiter and that
  identities are fresh (`OnlyLiveRequestsHaveWaiters`, `FreshIds`); that a child
  reads the accepted response needs the same of the response on its way
  (`SentReplyWasAccepted`); `NoMutualWait` needs `ListenersAwaitNothing`, which
  every step that suspends a main wait establishes and every new request of a
  child ends. The proof has one lemma for each group of actions that writes the
  same variables, and one step for each action.
  For `HoldingsCorrect` the steps are sorted by what they do to the outstanding
  and to the consumed requests of a job: one opens a request below the limit,
  one consumes and prunes, the others only lose some. That pruning leaves
  no more than `MaxRetained` is counted by descent: among the consumed requests
  that are kept, the oldest has all the others after it. `ResponsesCorrect` is
  an action property of the same sorting.
- `SubagentRuntime_proofs`, second part (`SubagentRuntime`):
  `RuntimeImplementsBroker` shows that each step of the composition is a step of
  `SubagentBroker!Next` or leaves `vars` alone, so that the broker's theorems
  hold of the composition (`SteeringReachesChildOfRuntime` is one).
  `RuntimeIInv` ties jobs to tokens, tasks and sessions; from it follow that
  tokens belong to active jobs, that a stop decides the outcome, that no job
  outlives its session, and that each completion is published once (an action
  property). `SendsIInv` adds what a send knows of its request and of its place
  in the chain: no request is without a send or an accepted message
  (`NoOrphanRequests`), and a send that overtakes crosses a cancelled one
  (`OvertakingNeedsAnAbort`); together they are `SendsCorrect`.
- `Agents_proofs`, first part (`SubagentProcess`): `IInv` orders the flags of an end (`EndsInOrder`),
  ties commands to the prompt, and says that an end was seen or the child
  killed; `EndsCorrect` follows from it: one cause, no timer or caller left, an
  abandoned child was killed, a completion follows its prompt.
  `ProcessMeetsContract` is the refinement: the initial states map to
  initial states and every step to a step of the contract or a stutter, for
  both platforms and any number of steering commands.
- `Sync_proofs`, first part (`SyncTransaction`): every file that is there or was
  there is a target (`FilesAreTargets`), a whole journal comes with all backups
  and without one no file has been touched (`JournalTells`), and each loop has
  done what it says of the targets it is through with (`LoopsProgress`). Nothing
  of the shape of the tree is needed. From it follow `ApplyCorrect` and
  `RestorationCorrect` (`RestoresBefore`): nothing is lost before the last call,
  what is reported as done was applied, and a restoration that ends has
  restored all files, for any paths, snapshots and number of faults.
- `Sync_proofs`, second part (`SyncLock`): without missed refreshes the guard
  excludes live processes (`GuardExcludes`), and the lock file of a live
  operation is its own from its creation to its removal (`LockIsOwned`); only
  holders of the guard write the lock file. `LiveLockCorrect` has no further
  condition. `LockCorrect`, which includes mutual exclusion, allows missed
  refreshes where no process dies and nobody says `--stale` (`Calm`), because
  then no lock ever looks stale (`NothingStale`). In other worlds it is false,
  see below.
- `Workflow_proofs`, first part (`WorkflowMutex`): an attempt on the stack whose generation is still
  current remembers who answered (`AnswersStand`), and without listeners that
  acquire there is at most one attempt (`AtMostOneAttempt`); mutual exclusion
  follows, and with it `GroupCorrect`. `OwnersAreCurrent` and `HeldUntilReleased`
  hold for any nesting. `RefusalCorrect` (no acquisition is refused without a
  reason) follows the one attempt of a quiet session from its beginning:
  until it ends nothing that it goes by has changed (`Undisturbed`).
- `Workflow_proofs`, second part (`GoalRun`): what a handler does to the runtime is an operator from
  records to records, and the lemmas follow the operators: each keeps the
  status of the goal and the owner of the group (`SameGroup`), stops the goal and
  gives the group back (`Released`), or starts a goal that holds it (`Holds`);
  these compose (`MovesCompose`). `SessionKnowsTheStatus`: the session entry
  always has the status of the goal, so that a reload or a crash restores
  what was; without it the step of a restoration could not be proved.
  `GroupCorrectOfGoal` is `GroupFollowsGoal`.
  A second pass over the same operators proves `GoalCorrect` (`GoalIsSound`). Its
  invariant was checked by TLC before it was proved and has one part for each
  thing that a runtime must have in every state (`Good`): an active goal holds
  the group (`Held`), the session's goal is the goal (`Sync`), and there is one
  request or one delivery at most, for the active goal that does not wait, and a
  live prompt only while its delivery is under way (`Owned`). `WorkInv` adds
  the phases: between two runs nothing of a run is left (`Rests`), and Pi
  prepares one prompt exactly while a run is starting. Each operator `Keeps` all of it
  or stops the goal with its prompts (`Calmed`); these compose as the moves do.
  A third pass proves `GoalsMoveCorrect` (`ActiveGoalsMove`). That an idle goal has a
  continuation is true only if nothing on the way to idleness loses it, so its invariant
  (`OnTheMove`, checked by TLC first) says for each phase of Pi what an active goal
  has to go on with: its prompt in the queue (`Pending`) or in preparation
  (`Prepared`), the run it is in (`Stays`), a request, a delivery or a wait
  (`Plans`), or a retry of Pi (`Recovers`). It needs whose prompts the queue holds
  (`Mailed`), and that a timed wait has an alarm or its deadline is being
  acted on (`Timely`, `Watched`). Each operator is shown to lose none of these
  (`Sticks`, `Carries`, `Goes`) or to leave no active goal behind (`Quieted`).
- `Agents_proofs`, second part (`FleetDelivery`): that a kickoff was received is known to the transport
  while it listens, to the membership until the session ends, and to the
  handoff until the reload (`KickoffKnown`); that is the invariant behind
  `KickoffOnce`. Behind `AckedIsReceivedIfIdle` is that every message in `dedup` or
  `branch` was received, and that no idle session is draining.
- `Caffeinate_proofs`: what is active or under way has the latest token, and the
  task of that token belongs to the live session and to the pending start
  (`TokensAreLatest`, `TasksFollowTokens`); outside a live session nothing is
  active (`QuietWhenNotLive`). `InhibitorsCorrect` (no orphans, nothing active
  that is not real) and `AwakeCorrect` (awake with the run) follow, and
  `ShutdownCorrect`: after a shutdown nothing inhibits.
- `ChromeBrowser_proofs`: a browser that was not told to go is the managed one
  (`OnlyTheManagedRuns`, `LaunchManagesItsOwn`), a stop takes over whatever there
  is (`StopTakesAll`), and a launch that begins or goes on once a session stops
  is cancelled (`NoLaunchAfterStop`). From that `ReleaseCorrect`;
  `OperationsCorrect` is the action property that a WebMCP operation ends with
  its browser. TLC checked the invariant also with attaching to foreign browsers.
- `RuntimeAuth_proofs`: the operators of a task take a world (its view of the
  coordinator, itself, the overlay, the session) to a world. A lemma for each
  says what it may change (`Effect`): only a task that is current, or whose
  session is on, writes the overlay, it leaves one that can be removed
  (`Removable`), and it puts at most one mutation into the queue. `CommitKeeps`
  shows that whatever is committed of that kind keeps the invariant: a key is
  being set only by the first of the queue of a session that lasts
  (`OneMutation`), no task of a session that has ended is current
  (`QuietCoordinators`), and what is in Pi is known to the coordinator that will
  remove it (`KeyIsRemovable`, `OverlayIsRemovable`). From that `ShutdownCorrect`,
  the part of `AccountsAgree` about sessions that end. The update of the
  store under way is that of a task that refreshes (`UpdateIsKnown`), and while
  that task still has the lock, its answer is the newest credential and the file
  that it has read is the store (`LockIsHeld`); with it `VersionsCorrect`, the
  action property `VersionsNeverGoBack`: only `Unaware` is left as an exception,
  whoever takes the lock, whenever the refresh is told and however it ends.
  The second half of the module is about a session that is on, with a second
  invariant on top of the first. `AgreeInv` says of the newest task of the
  session which generations it holds, what it works on, what it has applied and
  what its result will be (`Agreed`), and where it is in the queue (`Placed`):
  once it has had its turn there, no other task is going to write the key.
  Nobody may conclude from a task that was overtaken: an older task, or one of
  an earlier session (`Bystander`), is stale by its generation, so whatever step
  it takes leaves all that alone, except that it may clear or set the key before
  the newest has had its turn. The other parts are about the queue at a shutdown
  (`QueueInv`), the key that the coordinator believes to be applied
  (`AppliedInv`), what a failure can be blamed on (`TroubleInv`) and offers
  (`OffersInv`). `AgreementCorrect` (`AccountsAgree`) and `TurnsCorrect`
  (`TurnsAreAuthenticated`) follow. TLC checked `AgreeInv` on the runs' instance
  before it was proved.
- `PlanMode_proofs`: `IInv` ties five things together that handlers of the
  session write at different times. The branch has a contract as soon as the
  state is not off (`ContractInv`), also for the state a session that starts is
  going to install and for a handoff that is queued or about to be sent; so what
  the model is told agrees with the state at every request
  (`ModelHearsItsMode`). The policy of a workflow is resolved before a run is
  told of Plan mode, and what is allowed comes from the tools that were frozen
  then (`PolicyInv`). A retry is never behind another message, and a request that
  is not retried still waits in the queue, was heard, and was answered if a run
  has ended since, or was lost (`RequestInv`). What the coordinator
  awaits and what was given agree with what has been shown to a run
  (`RetentionInv`). A command that awaits and is still current has a plan, unless
  it is a launch, which is current only while nothing is saved; an export whose
  state is the same is for the plan of the mode (`CommandInv`). All installs, from a reload to a rollback, meet one
  description of what they leave (`Installed`, `InstallEffect`), and all starts
  of a session another (`Beginning`). The three action properties follow from
  one more look at the steps that can end what they are about.

Only model-checked:

- Liveness, which needs fairness and `ENABLED`: `EverythingSettles`,
  `NeverStuck`, `RecoversInterrupted`, `DeadLocksEnd`, `ShutdownReturns`,
  `LaunchesEnd`.
- Induction over data: the second half of `TypeOK` of `SyncTransaction`
  (`WellFormed`), since the ancestors of a path are defined by recursion; the
  types that the proof needs (`Types`) are in `TransactionInvariant`.
- Not attempted: `AutomaticWorkIsBounded` of `GoalRun`. Its invariant would have to
  count the responses that nobody asked for against the turns of the goal across
  queued prompts, messages that overtake them, recoveries and what the session
  entry restores.

## Where the code and its documents disagree

These were met while modelling. The models behave as the code does, and the
properties above except them where they would contradict one.

- *A transaction's directory that is removed in part*: `pi-sync/README.md:356`
  says that apply restores the prior state after failures and recovers
  interrupted journals. The last call removes the transaction's directory
  recursively, inside the `try` (`snapshot-transaction.ts:40`). If that stops
  half way, backups may be gone while the journal is left; the catch block, or
  the recovery at the next start, first removes all targets, which are the new
  files by then, and cannot copy back what is not there. The old and the new
  contents are both lost. (`NothingLost` of `SyncTransaction` states the
  sentence of the README; it fails.)
- *An unread response*: a response is marked as consumed when it was flushed to
  the socket, also if the client has given up meanwhile
  (`message-broker.ts:498`). Later consumed responses can then evict it, so the
  repeated wait that `child-communication-tools.ts:90` recommends finds no such
  request.
- *A torn journal*: `journal.json` is written in place
  (`snapshot-transaction.ts:140`). After a crash in the middle, it cannot be
  parsed, the recovery throws, and every later sync does, until a user removes
  the directory. Nothing is lost, since no file was touched yet.
- *A restoration below a file*: if a directory has been replaced by a file, or
  the reverse, the restoration may remove a target below what is a file now;
  `fs.rm` then fails with `ENOTDIR`, even with `force`
  (`snapshot-transaction.ts:155`), and every further recovery fails in the
  same way. The backups are kept.
- *unlock --stale with a missed refresh*: `pi-sync/README.md:373` says that live
  locks block mutation and stale recovery rechecks process and guard
  ownership. `unlock --stale` looks at an unreadable lock twice but removes it
  without asking whether it still has its guard (`lock.ts:206`). If
  its process was suspended for longer than the guard lasts, the file it
  removes may be that of an operation that has begun since.
- *A dropped message*: `pi-fleet/README.md:97` says that an accepted
  acknowledgement means that the recipient accepted the message. A session
  that ends while a membership operation is under way stops its endpoint
  later; a message that comes in between is acknowledged, but
  `fleet-controller.ts:685` drops it without an error.
- *An inhibitor without a run*: `pi-caffeinate/README.md:9` says that the
  inhibitor is released when the run ends. If the run ends while a mode change
  waits between its stop and its start, `caffeinate.ts:314` starts an inhibitor
  for no run.
- *A saved mode that is not used*: `pi-caffeinate/README.md:40` says that a run
  uses the saved mode. A mode change whose session ends while the file is
  written returns before it sets `state.mode` (`caffeinate.ts:357`), and the
  next session may have read the file already.

- *A plan that cannot be restored keeps the group*: `pi-plan-mode/README.md:292`
  says that Planning holds the group, and that saved plans and
  implementations do not. If a session plans and `session_tree` restores a
  branch that plans while the helper tools are inactive,
  `plan-mode.ts:1566` leaves the mode off and releases only an owner that was
  acquired in this very call; the earlier one stays.
- *A restoration that is refused is forgotten*: `pi-plan-mode/README.md:303`
  says that a busy restoration leaves persisted history untouched and is made
  up for by a later reload. The shutdown persists the state in memory
  (`plan-mode.ts:533`), which is Off, so the reload finds no plan.
- *A refused replacement of a goal keeps the group*: `pi-goal/README.md:152` says
  that a paused goal does not hold the group. If the goal stops while "Replace
  goal?" is open and its tools disappear, the confirmed replacement acquires
  the group and then takes the branch for an active goal
  (`commands.ts:89`), which releases nothing. `KeepsWhatItTook` names this step.

- *A request to finalize that Pi has lost*: `pi-plan-mode/README.md:181` says
  that ordinary turns never trigger automatic retries. The request counts as
  pending from the moment it is sent (`plan-mode.ts:947`), and only a call that
  throws takes it back (`plan-mode.ts:862`). If Pi gives the message up later,
  for want of a model or a credential, or the user takes the follow-up back, the
  next run that ends normally is counted as its answer, whatever it was about
  (`finalization-request.ts:29`), and is sent the retry that blames it.
- *A refresh that does not know that it has lost the lock*: the check before the
  write (`storage.ts:156`) knows of a lost lock only through `onCompromised`,
  which `proper-lockfile` calls from a timer. After the process has stood still
  (the machine slept, say) the answer of the provider may be handled before
  that timer. The refresh then writes the whole file as it has read it
  (`account-store.ts:66`): a newer credential that another process has stored is
  replaced, and an account that it has removed comes back, also of other
  providers, and also if the refresh was aborted or has failed. `Unaware` names
  this step.
- *A browser of the user under extensions*:
  `browser-manager.ts:901` of `pi-chrome-devtools` says that with unpacked
  extensions existing browsers are never reused. The exit handler of the
  managed browser gives the configured port back to the scope
  (`browser-manager.ts:490`). A call that was promised the managed browser and
  has yet to ask for its pages, or asks again, then reaches the browser of the
  user on that port.
- *Settings that do not close the browser*:
  `pi-chrome-devtools/README.md:312` says that saved settings apply before the
  next connection and close the managed browser. `shutdownManagedBrowser` takes
  the browser of the scope, awaits the launch, and keeps what it took
  (`browser-manager.ts:667`). If that candidate has failed and the next one has
  succeeded, the browser launched under the earlier settings stays, and is
  reused.

In `pi-goal`, further steps leave an active goal with nothing to do (`lull`), or
count differently from what `pi-goal/README.md` says:

- A continuation that is queued behind a run which a custom message started is
  delivered inside that run; `message_start` does not know it, so
  `continuationDelivery` is never cleared and no other continuation is
  requested. The goal rests until the user types.
- A failed or cancelled compaction (`lifecycle.ts:180`) has cancelled the
  continuation already, and nobody requests it again.
- A replacement or an edit whose prompt cannot be sent restores the goal but
  not its continuation or its recovery (`commands.ts:128`), against
  README.md:208, and the goal comes back as it was when the dialog opened, even
  if it has been paused since.
- A message of another extension between a retryable failure and Pi's retry
  clears the recovery (`lifecycle.ts:242`), so that the retried run is not
  charged, against README.md:421. `AutomaticWorkIsBounded` counts such a run as
  asked for.
- A follow-up of another extension that is queued when the hard cap is reached
  disarms the guard for Pi's own retry (`lifecycle.ts:472`), which then runs in
  place of that follow-up.
- A stop for the budget or for missing tools at the end of a failed run sets no
  guard: Pi's retry reaches the model, although its tool calls are blocked.
- A prompt of a replaced goal that was queued is delivered inside the run of
  another and not aborted (`lifecycle.ts:301`), against README.md:345.
- After `/goal edit` in an automatic run, the other responses of that run are not
  counted, since the run belongs to the instance before.
- The summary after the budget is spent can never be sent: it needs a goal that
  is active and `budget_limited` (`runtime.ts:747`), as README.md:298 says; the
  code for it remains.

In `pi-accounts` one thing looks like a disagreement and is meant: a refresh that
was aborted after the provider had rotated the token throws the new credential
away (`runtime-auth.ts:157`), so the stored one may be spent; a test asks for it
(`accounts.test.ts:3137`). In `pi-plan-mode` an equal, older handoff in the
conversation counts as the delivery of an implementation; `FirstRunRetention`
says so.

## What is not modelled

In the modelled components: the framing and parsing of JSON lines and their
size limits (a frame that is refused is `RejectFrame`), texts, menus and
notifications, command lines, symbolic links and permissions, checks that
refuse a snapshot before anything is changed, reused pids, `EPERM` on signals
and the age limit that follows, signatures of frames. Of `pi-accounts`, the
catalogs and the availability of models, foreign changes of the provider
configuration, the OAuth dialogs, the format and migration of the store, and a
session that starts over a running one. Of `pi-plan-mode`, the thinking level,
entries of older versions, the rules of single tools and shell commands, and a
session that starts while the one before it is still shutting down. Of
`pi-goal`, a continuation that Pi takes and loses afterwards, managed runs,
settings that change while a goal runs, the display of the goal, the ordered
queue that was removed, context contract messages, collisions of markers, and
steers of other extensions. Of `pi-chrome-devtools`,
the requests over the WebSocket, screenshots, the discovery and the calls of
WebMCP tools, the lazy tools and the menus.

Of the other packages:

- *Planned*: discovery, stale endpoints, dedup and rate windows of `pi-fleet`;
  managed runs of `pi-goal`; the sync operations of `pi-sync` around lock and
  transaction.
- *Presentation and formatting*: `pi-tui-kit` and its showcase, `pi-starship`,
  `pi-statusline`, `pi-stamp`, `pi-todo`, `pi-tool`, `pi-recall`, `pi-btw`,
  `pi-file-context`, the widget of `pi-subagents`.
- *One request and its answer*: `pi-firecrawl`, `pi-ticker`, `pi-usage`,
  `pi-github-pr`, `pi-codex-compact`, `pi-langfuse`, `pi-analytics`,
  `pi-herdr`, `pi-worktree`.
- *The hard part is elsewhere*: `pi-chat` (a peer-to-peer library),
  `pi-lsp` (language servers), the launchers
  of `pi-fleet` (terminal multiplexers).
- `src/deprecated`, `src/scripts`, `src/.pi`: retired extensions, tooling and
  diagnostics.

Hazards that no property covers are in `PROJECT.json`, each with its reason.

## Plan

Done, in this order: the broker, the runtime over it, the contract and the
process, the transaction, the lock, the mutex, the delivery of the fleet, the
inhibitors, the accounts, the plan lifecycle, the goal runtime and the managed
browser; proofs about each of them.

Next modules:

1. Managed runs of `pi-goal` (`run-protocol.ts`) over `GoalRun`: abstract
   specification: a run that was accepted ends with exactly one terminal event.
2. `FleetDirectory`, `FleetDedup`: manifests, probes and the removal of
   endpoints that seem dead; the windows with their clock and capacities,
   against a reference definition.
3. `SyncOperations`: push and pull around `SyncLock` and `SyncTransaction`, with
   the remote's revisions; abstract specification: a remote revision is only
   replaced by a descendant of it.

Next proofs: `AutomaticWorkIsBounded` of `GoalRun`, for which the invariant has to
tie the responses that nobody asked for to the turns of the goal through queued
prompts, recoveries and the session entry.
