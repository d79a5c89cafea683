# A verification of the Phenix conductor

Phenix is a conductor for coding agents: a long-lived process that accepts
submissions from frontends, runs them as executions of models and agents,
composes agents into orchestrations, and keeps a journal from which it can be
restarted. This directory holds TLA+ models of its core, translated from the
Rust sources under `src/rust/crates`, the TLC configurations that check them,
and proofs that TLAPS checks.

Paths below are relative to `src/rust/crates/phenix-conductor/src` unless they
name a crate; `ARCHITECTURE.md` is `src/rust/ARCHITECTURE.md`.

## Inventory

| Component | State | Operations | What is hard | What makes it correct |
|---|---|---|---|---|
| Execution tree (`lib.rs`, `failure_decisions.rs`, `callables.rs`, `journal.rs`) | executions with parent, kind, node and state; decisions on failed children; interface agents; attempt groups; causes of termination; sessions | submit, start, begin, finish, fail, cancel, decide (retry, replace, continue, fail), close | the operations call each other: a state change cancels descendants, whose state changes refresh orchestrations, which start agents or fail | a dependency completes before its dependents start; failure and cancellation leave nothing alive below; no orchestration waits for nobody; what ended stays ended; the journal's reducer accepts every event |
| Execution queue (`server.rs`, 62-192) | jobs in ingress order, jobs ever scheduled, the group whose turn each session is in, counts of jobs in hand | enqueue, next, complete, close | a condition variable shared by reader and workers; eligibility depends on other sessions' jobs | one group per session at a time, in order; a job handed out once; no lost wake-up |
| Reader and workers (`server.rs`) | where each thread is, the job in hand, the group's state as last read | requests, execution loop, enqueueing what became pending, shutdown | state read under one mutex is used under another | nothing pending is forgotten; a turn ends only when its group is at rest; shutdown ends |
| Workspace leases (`workspace_lease.rs`) | holders per workspace | acquire, release | condition variable | readers-writer exclusion; no lost wake-up |
| Persistence and restart (`persistence.rs`, `server.rs`, `main.rs`) | the journal on disk, configuration revisions and their fingerprints | save, load, replay, interrupt, bind configuration | a crash between any two steps | what was acknowledged survives; a backend never runs behind the journal's back |
| ACP backend (`phenix-backend-acp`) | backend sessions, own or shared; the armed turn; a latched cancellation; live scopes | open, arm, send, prompt, answer, cancel | cancellation races the turn at eleven places; sharing | a cancellation reaches its own turn only; turns do not overlap |
| Workspace consistency, transactions, tools (`workspace_consistency.rs`, `transaction.rs`, `workspace_tools.rs`) | versions of files read, baselines, sandboxes | checkpoint, versioned write, transactional command | files change between check and use | readers see stable files; a checkpoint is what the write phase found; a committed command has exactly its own effect; only what was compared is overwritten |
| Configuration, routing, authority (`callables.rs`, `routing.rs`, `configuration.rs`, `policy.rs`, `lib.rs` 556-1154) | revisions, each a registry of callables, profiles and skills; sessions with a revision and a target; per execution its revision, authority, model and tools | load, compile, reload; create, fork, rebase, retarget, close a session; start, resolve, call a tool | a reload or a rebase between the creation of an execution and its use of the configuration; several levels of delegation | what is registered can run; a tree keeps the configuration it was created with; authority shrinks down the tree |
| Context and skills (`context.rs`, `semantic_tools.rs`) | skills per revision, skills active per execution | discover, activate by an input, load by a model | as above | skills of the pinned revision only; manual ones only where an input named them |
| Native backend (`phenix-backend-native/src/lib.rs`) | backend sessions, own or persistent, with model, tools, conversation, active and cancel flags | open, execute (rounds of provider and tools), cancel | a flag that is shared by turns; a session that siblings open again; a conversation that is copied and stored | turns apart, each with its own tools; a conversation in order; a cancelled turn ends and does not pass for an answer |
| Local service and event stream (`local_service.rs`, `server.rs`, `lib.rs` 520-545) | the connection, the active output, three bounded channels, partial lines | accept, read, switch, relay, write, record | frontends that go at any point; a full channel under the runtime's mutex | no event is missing after Initialize; a frontend that reads catches up |
| Backend contract, wire protocol, ACP agent crates | types, encodings, stubs | | | not modelled |

How they interact: the reader thread handles one request at a time; it changes
the tree under the runtime's mutex, saves the journal, replies, and enqueues
what is pending. Workers take jobs from the queue, acquire a workspace lease,
open a backend session, register its scope so that the reader can cancel it,
run the backend (which calls back for tools, some of which change the tree),
record the result, save, and enqueue what has become pending in the group.
Whoever records an event sends it, still under the mutex, into the sink from
which the relay carries it to the frontend's connection.

## Modules

| Module | Models | Composes |
|---|---|---|
| `ReadersWriter` | abstract: a readers-writer lock per workspace | |
| `WorkspaceLease` | `WorkspaceLeaseManager`, one action per critical section | implements `ReadersWriter` |
| `SessionTurns` | abstract: turns of a session's groups, in order | |
| `ExecutionQueueState` | the queue's record and the pure effect of each method on it | |
| `ExecutionQueue` | workers and enqueuers around it, with the condition variable | `ExecutionQueueState`; implements `SessionTurns` |
| `ConductorRuntime` | the execution tree; one action per operation under the runtime's mutex; what the journal's reducer accepts | |
| `ConductorServer` | reader and workers, at the granularity of mutexes | `ConductorRuntime`, `ExecutionQueueState` |
| `ConductorRestart` | saves, crashes, restarts | `ConductorRuntime` |
| `AcpSession` | turns and cancellation on the ACP backend | |
| `Workspace` | write phases, checkpoints, tools and transactions on the files of one workspace, beside the user's editor | `ReadersWriter` for the leases |
| `CallableRegistry` | registries and compilation, pure: what is accepted, in which order nodes are kept, what is granted, which skills are found | |
| `Configuration` | revisions, sessions, and the executions pinned to them | `CallableRegistry` |
| `NativeSession` | turns, conversation and cancellation on the native backend | |
| `Frontend` | connections, channels, relay, reader and event sink | |
| `*MC` | constants of the runs | |
| `*Proofs` | theorems and proofs | the module they are named after |

**ConductorRuntime.** The operations that call each other are functions from
runtime to runtime (`SetState`, `CancelSet`, `Refresh`, `Advance`,
`FailOrchestration`), so that an action is the whole operation, nested calls
included. The recursion of the code is unfolded: agents are created at top level
or below an orchestration, orchestrations at top level or below a root, so the
tree is three deep. Maps ordered by id are visited in string order, in which
`execution-10` comes before `execution-9`; the run starts its ids at 7 so that
both sides of ten occur. `runtime.refused` becomes true when an operation
records an event that `apply_domain_event` would refuse.

**ConductorServer.** A worker's loop is cut where the code lets go of a mutex:
taking the job, looking at its state and ancestors, beginning, finishing,
listing the pending jobs of the group, enqueueing each, reading whether the
group is at rest, completing. A worker may be lost to an error (`MaxErrors`).

**ConductorRestart.** The journal is the projection that replay makes of it,
which is what the runtime was when it was saved, because `record_domain_event`
appends an event exactly when the reducer accepts it. Every operation changes
memory first; the save is a step of its own, made by the same thread, of
whatever memory holds by then. A crash takes memory, queue and workers; what a
start does with the journal and with the installed configuration follows
`load_or_new` and `main`. Turns are left to `ConductorServer`.

**AcpSession.** Executions with a routed target have a backend session of
their own, those with a fixed target share one per Phenix session; `persistent`
chooses, in the initial state, so that one run has both. The reader's cancellation is three steps under three locks: copy the
live scopes, cancel in the runtime, call each copied scope. The thread that
forwards a cancellation to the agent is spawned before the prompt is sent
(`phenix-backend-acp/src/lib.rs:660`), so `ForwardCancel` and `Prompt` race;
`early` remembers who lost.

**Workspace.** A worker takes its lease, enters its group's phase, walks the
files for a checkpoint when a write phase starts, and begins; the queue forgets
the phase with the group's last job. Tools run under the runtime's mutex, so
what interleaves with a tool is the user, who may change a file between any two
steps, and the workers' steps that do not need the mutex. Walks, the sandbox's
copy and rsync (external, as is the overlay) go file by file. A version stands
for content, kind and fingerprint. Scratch paths, `.git` and links are left out:
the code excludes the first two from every manifest. `edited`, `found`,
`foreign` and `touched` are history for the properties and guard nothing.

**Configuration.** An authority is the set of what it grants, so that the
minimum over dimensions and the intersection of sets are both intersection. A
file is offered and then compiled on top of the built-in or of the current
configuration; an offer stays a state of its own so that every file of the
instance is compared with the reference (`Sound`, `Acyclic`, `Ordered`,
`Carries`, `LastRootWins`). What returns a `Result` in `CallableRegistry` yields
the set of what it is `Ok` with, one value or none, so that `?` in a loop is a
union over the rounds. Registering a single definition (`register_agent` and so on) is
a file with one definition. The input of an execution is read once, when it is
resolved, and is chosen there: it may name a skill. How a tree fails and is
cancelled is `ConductorRuntime`'s; here executions complete, or stop with all
that is below them.

**NativeSession.** `setting` chooses at the start between sessions of their
own, successive turns on the persistent session, which the queue keeps apart,
and siblings on it; and whether rounds are limited. A turn is cut where it takes
or lets go of the session's mutex or reads the flag: activate, clear the flag,
round, stream, call, over, store. The provider (external) streams, fails, or
asks for calls for as long as it likes.

**Frontend.** The three channels have the capacities of the constants. A
message is written in two parts, because a connection may be replaced between
two writes; a frontend may go between the two parts of a line of its own. What
the socket does at a close with unread output (reset) is external. `Initialize`
may be refused, as when a backend's catalog cannot be refreshed. A frontend
matches replies by the ids of its requests, which it uses once, as the client of
`tests/stdio_roundtrip.rs:240` does; the error for an unreadable line has id 0.

## Runs

| Run | Instance | States | Shows |
|---|---|---|---|
| `lease` | three threads, readers and writers of two workspaces | 2,417 | exclusion, no lost wake-up, service under fairness, refinement of `ReadersWriter` |
| `queue` | two sessions, four jobs, three workers | 12,296 | one group per session, at most once, no lost wake-up, refinement of `SessionTurns` |
| `runtime` | two parallel nodes and one that waits for both, an interface agent, seven executions | 108,139 | nodes run once and in order, nothing lives below a failure, cancellation is complete with true causes, attempts are chains, outcomes and decisions are final, no orchestration stalls, the reducer refuses nothing |
| `server` | three workers, an orchestration of two nodes beside another submission of its session | 1.4 million | nothing forgotten, turns end at rest |
| `server_liveness` | two workers, one of which may be lost | 164,502 | service and shutdown under fairness |
| `restart` | two crashes, two configurations, four executions, a retry or a replacement among them | 765,550 | acknowledgements survive, no run is forgotten, nothing runs unattended |
| `acp` | two siblings, on sessions of their own or on a shared one | 449,289 | turns do not overlap; on own sessions cancellations and completions are about the right turn and a turn that a cancellation reaches ends |
| `workspace` | a reader and two writers of one group, two files, two tool calls, one change by the user | 1.56 million | stable reads, checkpoints, exact commits, no overwritten conflict |
| `configuration` | all 512 graphs on three nodes and ten other files to compile; a writer, a reader, an orchestration of two nodes, two skills, three revisions, three executions | 1,003,917 | exactly what can run is accepted; trees keep revision, target, models, tools and skills; authority never expands and is enough for an orchestration's nodes; closed sessions are quiet |
| `native` | three executions, two side by side, at most two rounds or any number | 403,387 | turns apart with their own tools, no cut turn passes for an answer, the conversation in order, cancelled turns end |
| `frontend` | two connections, three events, channels of one message | 1,086,321 | no gap after Initialize, a frontend that reads, and asks on a line of its own, catches up |
| `restart_refused` | one crash, one property | | a divergence, see below |

Bounds. `MaxExecutions` and `MaxTopLevel` bound creation; the runtime run has
room for three nodes, an interface agent and two recoveries under one
orchestration, or for the same below a root with one recovery. Two sessions do
not interact in the tree, so it has one; the queue, where they compete for
workers, has two. Two crashes let a second one strike during the recovery from
the first. `MaxErrors` is one lost thread. In
the workspace two writers make a phase that goes on from one to the other, the
reader ends it; two calls put a write before or after a command, and one edit
falls before, between and after any two of their steps. The two writers are
interchangeable, hence the symmetry. In the configuration run the larger graphs
are only compiled (`MaxNodes`); one tree of three executions reaches two levels
of delegation, two requests put a rebase or a new target before or after any of
its steps, and the third revision contradicts the second in every respect. In
the frontend run channels of one message are full at once, and the second
connection meets whatever the first left behind; a third would meet no more. In
the native run the third execution meets a session that two others have used. Deadlock is not checked where the
system may stop: all work done, input ended, or crashes used up.

Fairness. Threads that can take a step do (weak fairness per worker, for the
reader and for each waiting lease request), which the operating system's
scheduler gives them. Lease holders let go and backends answer in the liveness
runs, because a lease is dropped at the end of the execution that holds it and
a backend that never answers never frees its worker in the code either. In
`AcpSession` an agent answers the requests that set it up, may think about a
prompt for ever and answers it for certain only when it was sent
`session/cancel` after it. In `NativeSession` the provider's streams end and
tools return, since a blocked read holds up the thread in the code too; that the
model stops asking for tools is not assumed. In `Frontend` the service's threads
go on, and so does the frontend's reading, while it is connected: one that
neither reads nor closes is the divergence below. No strong fairness is used: a mutex is modelled by
the atomicity of the critical section.

## Divergences

Checked by a run with one property that TLC refutes:

- `restart_refused`: after a crash while an agent of an orchestration was
  running, `load_or_new` cannot interrupt it: the refresh of the orchestration
  needs its definition, and no configuration is bound until `main` goes on.
  The conductor does not start, then or later.

Met while modelling and visible in the models' behaviours, with no run of
their own. Restart and persistence:

- A first start saves the empty built-in revision (`server.rs:283`). The
  revision that `main` activates next (`main.rs:101`) is saved with the first
  request that changes state; if the process ends before, the fingerprint of
  the installed configuration never matches again and no later start succeeds.
- A Pending execution that was acknowledged before a crash is restored and
  never enqueued; only requests and workers of its own group enqueue it
  (`server.rs:794`).
- Frontend events are sent as they are recorded and saved later
  (`lib.rs:540`): after a crash in between, the frontend's cursor is ahead of
  the conductor's, which numbers new events from below it.

Execution tree and server:

- Cancelling orchestration `execution-9` visits its agent `execution-10`
  first; the refresh ends the orchestration, and its own turn, finding it
  terminal, records no cause (`lib.rs:1582`).
- The first backend that refuses to cancel ends the loop over the scopes that
  are to be told (`server.rs:652`); the running backends of agents that end with
  an ancestor are told nothing (`lib.rs:1603`); a worker that returns with an
  error does not list what became pending in its group (`server.rs:774`), and if
  the error was the save in `begin_execution` (`server.rs:1219`) its execution
  stays Running with nobody to end it.
- The objective of a child, written by a model, is its input
  (`failure_decisions.rs:604`): one that begins with `/name` activates a skill
  that `README.md:70` has manual only. `TreeIsPinned` therefore speaks of inputs,
  not of users.

ACP and native backends:

- On a shared ACP session a cancellation that comes between two turns is kept
  for the next (`phenix-backend-acp/src/lib.rs:246`), which then "completes"
  unprompted, where `spec/runtime-redesign-v1.md:352` has reuse change nothing
  visible; `CancelsOnlyItsOwn` is stated for sessions that are not shared. A
  persistent session whose worker thread died stays in the map (`:171`).
- On a shared ACP session, cancelling an execution that waits for its turn
  signals the turn of another (`phenix-backend-acp/src/lib.rs:417`), and an
  open replaces the tools of an execution that is about to send (`:178`).
- On a shared native session a flag that is set between two turns' checks cuts
  a turn that nobody cancelled, which is reported Completed, and one that is set
  before the turn clears it is lost (`phenix-backend-native/src/lib.rs:532`).
  Siblings may lose each other's turn, because the session is free before the
  conversation is stored (`:536`). A failed turn's message is forgotten.
- A native conversation lives in memory and for fixed targets; routed turns
  get the conversation composed into their prompt at submission
  (`journal.rs:271`), so one that was queued behind another misses its answer,
  where `ARCHITECTURE.md:27` keeps the conversation across such changes.
- `credentials.json` is read, changed and written without a lock and through
  one temporary file, so a login during a token refresh may be lost.
- A scope installed after the reader copied the table is not told of the
  cancellation (`server.rs:628`); if its execution began before the runtime
  cancelled it, its worker waits for the agent. `Reached` leaves this case out of
  `CancellationEndsTurn`; without it TLC finds it.
- The thread that forwards `session/cancel` does not wait for the prompt
  (`phenix-backend-acp/src/lib.rs:660`): a cancellation that came during set-up
  may reach the agent first, cancels nothing, and the prompt that follows is not
  cancelled again, where `spec/runtime-redesign-v1.md:554` has adapters receive
  explicit cancellation. `CancellationEndsTurn` excepts it (`early`); without the
  exception TLC finds it.
- Cancelling one agent makes its orchestration Cancelled, and its siblings
  stay alive below it (`failure_decisions.rs:547`), where
  `spec/runtime-redesign-v1.md:251` has a cancelled workflow cascade.

Workspace:

- A writer whose checkpoint fails, by an I/O error or because it was cancelled
  while it waited for the lease, leaves its group marked as writing; a writer
  of the group that is queued or waiting by then goes on without a checkpoint
  (`server.rs:945`), where `ARCHITECTURE.md:102` says one comes before every
  write phase. `CheckpointIsPhaseStart` excepts groups that lost a worker.
- Phases are kept per group: what a writer of another group does between two
  writers of a phase is not told apart by a checkpoint (`server.rs:948`).
- What the user writes between a tool's comparison and its write or apply is
  overwritten (`workspace_consistency.rs:213`, `transaction.rs:160`), where
  `ARCHITECTURE.md:92` promises a conflict; `OverwritesWhatItExpects` states
  exactly how far the promise holds.

Local service:

- A frontend that closes with output unread makes the service's read fail with
  a reset, and the error ends the whole service (`local_service.rs:50`), where
  `local_service.rs:12` has frontends disconnect and reconnect and
  `spec/runtime-redesign-v1.md:506` says that closing one must not destroy a
  session. In the model `serving` becomes false.
- The half line of a connection that ended is joined to the first line of the
  next, which is then invalid and answered with id 0 (`server.rs:428`). A client
  that waits for the id of its Initialize, as in `tests/stdio_roundtrip.rs:240`,
  waits for ever, where `local_service.rs:125` has reconnecting frontends recover.
  `CatchesUp` excepts it (`AsksOnItsOwn`); without the exception TLC finds it. A
  message that is being written while the output is switched reaches the new connection as a
  fragment, and replies for the old one reach the new one.
- A frontend that neither reads nor closes fills the socket and the channels;
  the next event blocks its sender, which holds the runtime's mutex
  (`lib.rs:541`).

## Proofs

Each proof module extends its component and proves, for every value of the
constants that satisfies the assumptions, an inductive invariant and what
follows from it.

- `WorkspaceLeaseProofs`. The invariant adds to the type that the table of
  holders is exactly the threads that hold (`TableIsHolders`), without which
  `LeaseExclusion` says nothing of what `permits` reads. `NoLostWakeup` is
  inductive with it: a release wakes every waiter, an acquisition permits
  less. `Refinement` maps the holders to the abstract lock's grants.
- `ExecutionQueueProofs`. `SessionExclusive` and `HandedOutOnce` are invariant
  with `CountsBusy` (the count of a session's jobs in hand is the number of
  workers busy for it) and `TurnOfBusy` (a busy worker's group is the one whose
  turn it is). Without the count, a completion could release a turn in which
  another worker is busy. `Refinement` shows that the queue implements
  `SessionTurns`: the groups that wait are found job by job in the list of
  pending jobs (`GroupsWaiting`), a group waits where its first job is, and a
  turn is given back only when nothing of its group is pending. What appending
  and removing a job does to the waiting groups is an induction over the length
  of the list.
- `AcpSessionProofs`. Turns are serial because the armed turn of a session is
  the one execution between arming and disarming. That a cancellation reaches
  its own turn and that a completed turn was prompted is proved where sessions
  are not shared (`~persistent`, which no step changes); with sharing neither
  holds.
- `NativeSessionProofs`. `FlagsAreTrue` ties the active flag of a session to the
  one turn between activation and release, hence `TurnsAreApart`.
  `ResultAtTheEnd` follows what a turn has read to its result, hence
  `CompletedWasAnswered`. `InSequence` relates the stored conversation, the copy
  that a running turn works on and the turns that are over, hence
  `ConversationInOrder` where the queue keeps turns apart.
- `WorkspaceProofs`. `LeasesHold` and `PhasesHold` tie workers to leases and to
  the phase of their group; with them `ReadersUndisturbed` is inductive. For the
  checkpoint, which is taken path by path while the user writes, `WalkIsOfStart`
  says that what a walk has passed is what the phase found, `PhaseIsRecorded`
  that nothing is written before the walk has ended. `Knows` says what a tool
  knows of each file at each point of its transaction, `NotReadYet` that the
  rest is untouched, from which `CommitIsExact` and the action property
  `OverwritesWhatItExpects` follow.
- `FrontendProofs`. `ActiveIsUp` and `CursorsAreTrue` bound where connections and
  cursors are; `RepliesAreWhole` says that the reply to Initialize, wherever it
  is on its way, carries the events up to some point and all later ones follow
  it. `NoGap` is what is left of it when the reply has arrived.
- `ConductorProofs`, the tree. An operation is a composition of functions from
  runtime to runtime, so the lemmas relate an earlier and a later runtime, and
  the relations compose: `Later` (nothing is lost or revised), `Grows` (what is
  new and what may have changed state). `TreeInOrder` is the inductive
  invariant: types, parents before children and at most three deep, true causes,
  decisions with fresh recoveries, an orchestration that runs has something left
  to do or a live child, attempts are chains. It does not hold between the
  nested operations, so the lemmas carry a weaker `Sound` and say of each
  operation which executions it leaves unsettled and that the refresh at the end
  settles them. Effective states follow recoveries, which are later executions:
  an induction from the latest execution down. `NoStalledOrchestration` then
  needs that dependencies are acyclic.
- `ConductorProofs`, restart. `Recoverable` says that the journal is an earlier
  state of the runtime (`JournalIsBehind`), that it holds what was acknowledged
  (`JournalAnswers`), and what each thread between a change and its save may
  count on (`ReaderKnows`, `WorkersKnow`, `RunningIsAtWork`). It holds through
  crashes because loading yields an earlier state in which the running are
  interrupted.
- `ConductorProofs`, the server. `ServerInOrder` is inductive together with
  `TreeInOrder`. Jobs on the queue, on lists and in hand are those of known
  executions (`QueueTypes`, `ThreadTypes`), and the count of a group's jobs in
  hand is the number of workers that have one (`HandsAreCounted`), without which
  a group could be released under a worker. Unless a thread was lost to an error:
  what was scheduled and may still run is queued or in the hand of a worker that
  has yet to begin it (`ScheduledIsOnItsWay`), which is why `enqueue` may skip it;
  what may run is queued, listed or of a group that a thread will list
  (`NothingLost`); what runs has a worker (`RunningIsManned`); and a group that
  was found at rest under the runtime's mutex is so when the queue acts on it
  (`RestIsLasting`). The lemmas on the tree say what each operation makes
  runnable, and that it is of the group of the job that the thread has in hand.
  Errors are an exception in the code too: a worker whose job ends in an error
  lists nothing and releases its group whatever its state, a reader that cannot
  save leaves its request unlisted. Hence `Errors = 0` in `NothingIsForgotten`
  and `MaxErrors = 0` in `TurnsEndAtRest`; the run that checks them has it too.
- `ConductorProofs`, the server and the tree. `ServerImplementsTree` says that the
  server takes steps of the tree only. Its actions conjoin the tree's, guards
  included, so the step is short: what is left to show is that a worker which acts
  on an id that it took from the queue some steps ago acts on a known execution
  (`ServerInOrder`). Hence `TreeHoldsInServer`, which carries the tree's theorems
  over to threads, queue and errors. `SessionsTakeTurns` is about both
  mutexes: the queue keeps turns of jobs, the tree has running executions, and
  `RunningIsManned` connects them. `TurnOfHand` is the invariant it adds: a worker
  with a job in hand works for the group whose turn it is, because a turn is
  given back only by the worker that `HandsAreCounted` shows to be the group's
  last. With errors it is false: a lost worker leaves its execution running while
  its group is released, hence `Errors = 0`.
- `ConfigurationProofs`, compilation. `SoundFilesAreAccepted` is about what loops
  compute, for graphs and files of any size; each has an invariant by rounds.
  `Sorting` is the one of the topological order: what was taken follows all that
  it depends on and is taken once, the in-degree of a node is the number of its
  dependencies that were not taken, and what is ready are the nodes with none. If
  the loop ends early, the nodes that are left wait for each other, and no node of
  them is first, which `Acyclic` excludes; if it does not, the order itself shows
  that there is no cycle. `Welcome` and `Extended` say when the first n definitions
  are accepted and what the registry then is: registering orchestrations adds no
  agents, so all of them may be judged by the agents that were there before.
  `Found` says which root a skill comes from. `CompilesTheSound` puts the loops
  together.
- `ConfigurationProofs`, executions. `Pinned` compares each execution with its
  session, its revision and its parent only, which is what a step can establish;
  that the whole chain of ancestors bounds an execution is an induction over
  execution numbers. It includes that the orchestrations of every revision are in
  order and have a cast of agents (`Runs`), from which `CastIsDelegated` follows
  and what `ConductorRuntime` assumes of a definition
  (`RegistrationSeesToOrder`).

Assumptions, all evaluated in every run: finite sets of threads, jobs and
executions, model values that differ, ids below 100
(`DefinitionAssumption`), and of an orchestration's definition what
`register_orchestration` sees to (`RegistrationAssumption`; `callables.rs:307`):
no node twice, dependencies acyclic. That it does is `RegistrationSeesToOrder`.
Of files only what their Rust types let through is assumed (`FileAssumption`):
lists where the code has a `Vec`, the fields of an orchestration, node names that
are ordered, and a built-in configuration that has tools only. Loops of the code are recursive functions
of the round; inductions go by the least counterexample (`WFMin` over the
naturals), which the provers can instantiate.

`TypeCorrect` of a proof module states the module's types, which the other
proofs use.

Only model-checked: liveness, which is out of the prover's reach, as is ENABLED
(`EveryRequestServed`, `EveryExecutionServed`, `ShutdownCompletes`,
`CancellationEndsTurn`, `CancelledTurnEnds`, `CatchesUp`). Every invariant, every action
property and both refinements that the passing runs check are theorems.

## Not modelled

Provider protocols, OAuth, credential files, the reading of instruction
documents and skill resources, the MCP bridge's framing and the wire protocol
are I/O or encoding. The contents of prompts, events and objectives are
abstracted, but for the skill that an input names. Names of sessions,
execution providers other than models, the parsing of configuration files and
of front matter are left out. Failing saves and the death of an agent process
are not modelled yet.

## Plan

1. Failing saves in `ConductorRestart`; the death of an agent process in
   `AcpSession`; a `Workspace` run with two groups (a phase that another group's
   writer interrupts) and scratch paths.
