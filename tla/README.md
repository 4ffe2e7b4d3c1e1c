# clawdence: a verification development

clawdence takes a request from a queue, routes it to a repository and a
workflow, runs the workflow's stages (the middle one is usually a coding agent in
a sandbox), pushes the commits and opens a pull request.  Everything that must
survive a crash is in one SQLite database; processes are started by an operator
or a timer (`clawdence work`, `run`, `runs recover`, `reap`), die without warning
and may overlap.  This directory models that core in TLA+, checks it with TLC on
small instances and proves part of it with TLAPS.  Paths below are relative to
`src/src/clawdence/`.

## 1. Inventory

| component | state it keeps | operations | what makes it correct | module |
|---|---|---|---|---|
| workflow executor (`engine/executor.py`) | locals of `execute` and `_run_stage` | skip, guard, begin, retry, time out, fail, close | each stage accounted for, one in flight, finished work never repeated | `RunLifecycle` |
| durable ledger (`store/ledger.py`) | what a process remembers of each stage | open, resume, begin, record, close | state and log agree, a resume settles what a dead process left | `RunLifecycle` |
| state store (`store/state.py`, `codec.py`) | tables `runs`, `steps` | create, update with a version, touch, start and finish a step | attempts numbered 1..n, no lost verdict | `RunRecord` |
| watchdog (`store/watchdog.py`) | none (three reads, then writes) | detect, recover | a dead run is noticed, a live one left alone | `RunLifecycle` |
| steering and cancel (`store/control.py`, `ports/control.py`) | tables `inbox`, `cancellations` | send, claim, abandon, close, request, acknowledge, clear | handed on at most once, in a dense order, nothing open after the end | `ControlStore` |
| audit log and replay (`store/audit.py`, `devloop/replay.py`) | table `audit`, dead letters | append, fold, compare, submit, replay a letter | the fold of the log is the tables, no record is lost | `RunRecord`, `Upgrade` |
| request intake (`store/intake.py`, `ingest/`) | table `intake`, turns | submit, amend, withdraw, reply, collect, acknowledge, unacknowledge | no version leaves the queue unworked, a withdrawal stands, a request stays itself | `Intake`, `Inbox` |
| external effects (`store/effects.py`) | table `external_effects` | enqueue, due, claim, delivered, failed, park, retry | delivered means delivered, every row settles, attempts are bounded | `ExternalEffects` |
| work pipeline (`cli.py` `work`, `triage/pipeline.py`, `triage/effects.py`) | locals | drain, start, publish, acknowledge | a crash resumes the delivery and does not repeat the work | `WorkLoop` |
| forge adapter (`vcs/gh.py`) | none; the forge | branch, push, pull request, merge, policy | every call idempotent, remote answer checked | `Forge`, `WorkLoop` |
| worktrees and mirrors (`vcs/worktrees.py`, `vcs/store.py`) | mirrors, checkouts, locks | ensure, acquire, release, prune, push | one checkout per branch, no lost commit | `Checkouts` |
| reaper (`runners/reaper.py`) | work root | sweep | removes what no live run owns, nothing else | `Checkouts` |
| scheduler (`runners/scheduler.py`) | admissions, slots | dispatch, cancel, evict | a slot is given back, a queued run can be cancelled, no attempt is admitted twice | `Semaphore`, `Scheduler` |
| agent runner (`runners/agent.py`, `container.py`, `engine.py`, `process.py`) | keys in flight, settled answers, keys being stopped; containers | dispatch, cancel, prepare, setup, agent, attend, halt, collect, tear down | one execution of an attempt, every container given back, a stop ends the run and is reported as what it was | `AgentRunner` |
| verdict and collected work (`runners/installed.py`, `worktree.py`, `verdict.py`) | the worktree's tree, index, exclusions; the verdict file | install, revert, commit, collect, tidy away | the branch has the agent's work and nothing else, a success is of this attempt | `Collection` |
| docker tier (`runners/dockerd.py`) | snapshots, disowned sessions, the socket's group | snapshot, sweep, disown | no container in use is removed | `Siblings` |
| event stream and limits (`runners/stream.py`, `turns.py`, `agent.py`) | buffers, tally, deadline | read, cut, count, watch, expire | no line lost, an overspent agent stopped, one clock for both phases | `Stream` |
| outcome of an attempt (`runners/outcome.py`) | none | classify | the most specific signal is the one reported | `Outcome` |
| conditions and references (`engine/conditions.py`, `refs.py`, `interpolation.py`) | none | parse, evaluate, expand | the value of a guard, errors instead of guesses | `Guards` |
| workflow loader (`engine/loader.py`) | none | validate | no reference to a later stage | `Loader` |
| routing (`triage/routing.py`, `config.py`) | none | load, route | the text selects, the envelope decides, no guess | `Routing` |
| model agent (`agent/`) | one conversation | fit, ask, fall back, correct, repair, charge | bounded cost, an answer fits its schema and says what was done to it | `ModelStep`, `RepairText` |
| legacy publications (`store/publication.py`) | table of migration 4 | drain | at most one pull request each, without a claim | `Upgrade` |
| schema (`store/schema.py`) | `user_version` | connect, migrate | everyone opens a whole schema | `Upgrade` |
| reset (`devloop/reset.py`) | tables | plan, check, delete, re-queue | leaves nothing pointing at something gone | `Inbox` |
| probe (`probe/`) | none | detect, scan, infer, assemble | nothing is guessed, a daemon is asked for | `Probe` |
| outbox (`ports/outbox.py`) | held, parked, delivered keys | send, flush, park, drain | a failure is kept and settled, a message goes out once | `Outbox` |
| plan and steering files, host tier, caches, hygiene and policy, ports, reports, domain types | none | write, list, validate, print | - | section 6 |

How they interact: `work` drains the effects queue, acknowledges what it resumed,
collects requests, and for each one routes it, acquires a worktree, calls the
executor, enqueues and delivers the publication, releases the worktree and
acknowledges.  The executor writes every transition through the ledger, which
commits rows and log entries in one transaction; the watchdog and the operator read
and write the same rows from other processes.  Its agent stages go through the
scheduler to a runner, which installs its files in the worktree, reads the agent's
output, collects the tree and answers; its model stages ask a provider.  What is
hard: two processes doing the same thing at once (nothing prevents it), a crash
between any two transactions, a clock that decides what is due or stale, tasks
cancelled at any await, answers from the forge, the daemon or the provider that get
lost.  The full list of hazards, each at its line and with the properties that would
catch it, is in `PROJECT.json`.

## 2. The modules

Core, a run of a workflow:

- `RunRecord` - rows of `steps` and the folded audit log: pure operators.
- `ControlStore` - inbox and cancel latch, one operator per transaction.
- `RunLifecycle` - EXTENDS both: executors, resumes, the watchdog, the operator.
- `MCRunLifecycle` - small workflows for TLC.
- `RunLifecycle_proofs` - theorems about any number of overlapping processes;
  `OneExecutor_proofs` - about one executor at a time.

The work loop, from a request to a pull request:

- `WorkItem` - the constants the queues share.
- `Intake` - table `intake`; `ExternalEffects` - table `external_effects`;
  `Forge` - branches and pull requests (the forge is external).  One operator per
  transaction or call.
- `WorkLoop` - composes the three: processes that run `clawdence work`, crash,
  overlap, lose their leases; people who submit, amend, withdraw, retry, merge.
- `EffectPromise` - the abstract specification of a publication, which `WorkLoop`
  implements; `RequestPromise` - of a request, which `WorkLoop` and `Inbox` implement.
- `MCWorkLoop`, `WorkLoop_proofs`.

The agent runner:

- `Outcome` - the signals of an attempt and their ranking, pure.
- `AgentRunner` - EXTENDS it: callers of `dispatch`, the executions they start, the
  tasks beside an execution, the container engine.
- `MCAgentRunner`, `AgentRunner_proofs`.

What surrounds an attempt, each its own machine:

- `Checkouts` - two runs and the reaper on one disk: mirror, lock, git's records.
- `Collection` - what an attempt installs, finds and reports of the tree; EXTENDS
  `Outcome`.
- `Siblings` - containers that tests start on the host's daemon, and who may remove
  them.
- `Stream` - the agent's output, its tokens and its clock.
- `Attempt` - composes the four; `MCAttempts` gives it values for TLC.
- `Stream_proofs` - theorems about `Stream`; `Attempt_proofs` - about the other three.

What the control plane does around its runs:

- `Semaphore` - `asyncio.Semaphore`, external; `Scheduler` - admissions over two kinds
  of them.
- `Inbox` - a request's way in and `reset`; `Upgrade` - opening an older database,
  its publications and dead letters; `ModelStep` - a stage that asks a model;
  `Outbox` - messages a port refused.
- `Loader`, `Guards` (which EXTENDS it), `Routing`, `Probe`, `RepairText` - pure functions
  with the statement of what they promise for one argument.  `Guards` and `RepairText`
  have RECURSIVE operators, so nothing is proved about them.
- `Services` - composes the five machines with the decisions of `Routing` and `Probe`, one
  decision a behaviour; `MCServices` gives it values for TLC and adds the cases of `Guards`
  and `RepairText`.
- `Services_proofs` - theorems about `Inbox`, `Upgrade`, `ModelStep`, `Routing`, `Probe` and
  `Loader`; `Queue_proofs` - about `Scheduler` and `Outbox`.

`Attempt` and `Services` hold several machines that share no variable.  `machine`
says which one a behaviour is about; the others stay at their initial state, and a
decision is one step from `NoCase` to a case.  So the states of the run are the sum
and not the product of the machines', and a property of the run is the conjunction
of what its machines promise.  Whatever composes in the code through the database is
composed in `RunLifecycle` and `WorkLoop`; these machines meet there only as one
step each (a checkout, a run of a workflow, an answer of a runner).

### How RunLifecycle corresponds to the code

A process is a `pc` with the locals of `execute`/`_run_stage` (`loop`) and of its
`SqliteLedger` (`memo`).  An action is one transaction: `begin` is the ledger's
begin (a row of `steps`, an audit entry and the heartbeat together), `create_run`
and `announce_run` are two because `open_run` commits twice.  `resume_run` is the
transaction of a resume, with `_reconcile`, and `load_run` the reads of `_load` after
it, between which a process may die or another one write.  Handlers may succeed, fail, time out
or be abandoned by a crash; what they return is left out.  The watchdog's
`detect` is split at its reads, and `recover` takes the stalls in any order, one
transaction each.  `attach_read` and `attach_write` are `_attach_repo`, which
reads outside a transaction and retries on a version conflict.

- Runs do not share rows, so one run is modelled.
- The audit log is kept folded: `fold` is a left fold, so each append folds one
  event.  `log.born` records how the fold learnt of the run.
- Time is kept as ages: `Tick` makes every age one older and saturates at
  `AgeCap`.  An instant read from the clock earlier is a lag.  `AgeCap` is larger
  than `HeartbeatLimit + SweepSpan`, so a saturated age is past every limit.
- `HALTED_FOR_HUMAN` is an event the fold does not know (`fold_unmodelled`).
- A step's outputs, durations, costs and messages are left out.

### How WorkLoop corresponds to the code

A process is a `pc` in `_work_command` and `deliver` with the locals the code has
at that point: the snapshot of due rows, the outcomes of the drain, the requests
it collected, the one in hand, the row it claimed.  Each call to the forge is an
action (`create_branch` is ls-remote, `create_branch_push` the push after it, and
so on), and each may fail (`call_fails`) or do its work and lose the answer
(`answer_lost`).

- A commit on an item's branch is its position: branches only grow, and what a
  diff contains is left out (`publish_nothing` covers every refusal).
- `ripe` stands for `next_attempt_at` or `claim_expires_at` being past.  With
  `Slow` FALSE a lease does not run out while its owner is delivering.
- A run of the workflow is one step that commits or does not; `RunLifecycle` has it
  in full.
- `enqueue` always inserts: the idempotency key holds the run id.
- The owner token of a process is the process: a token that is drawn again after a
  crash owns nothing the new process would settle, since a process settles only
  the row it claimed last.
- `park` of a row whose command is invalid, of another kind or for a repository that
  is gone is `failed` with a permanent error before the first call (`call_fails`).
- Left out: `--ref`, `keep_on_failure`, a main branch that moves.  Limits, replies,
  turns and `unacknowledge` are `Inbox`'s, legacy publications `Upgrade`'s.

### How AgentRunner corresponds to the code

`calls` are the tasks inside `dispatch`, `exec` the tasks of `_execute`, by the call
that created them; `inflight`, `settled` and `stopping` are the runner's three
tables.  A step is what a task does between two awaits.  `task.cancel()` sets `hit`,
and the action of the await the task is in decides what the `CancelledError` does
there: it ends the task in the checks and the preparation (which are outside the
`try`), is collected as a stop or unwinds from the phases (`Raised`), is swallowed
by `kill_and_reap` and by the joins in the `finally` of `_run_phase`, cuts a removal
short in the teardown.  `at` names the await.

- `_attend` and the task that halts an overspent run are actions of their own
  (`Hears`, `AttendantHalts`, `Overspends`, `BudgetHalts`), enabled for as long as the
  phase keeps them.
- The tier is the container tier: a container has the name of its key and phase, and
  `boxes` says which execution made it.  A removal is done, or the engine never
  answers (`_call` returns None after its timeout) and `missed` remembers it.
- The client of a container is `proc`.  It exits when its agent does, when it is
  killed, or is refused by the engine.
- An exception of a phase that is no cancellation is a path of its own.  `Spawning` may be
  refused before there is a client (`_launch` raises `PermanentError`: `Failing`), and a
  sink may raise on a line (`DriveFails`), which leaves the client running: the joins of
  the `finally` still happen (`Erring`), the teardown removes the containers, and the
  exception is what the owner and everybody who joined get.  Nothing is settled then, so
  a redelivery runs again.
- A key that is settled and a request that `_preflight` refuses change nothing and
  have no action.  A poll that fails is a poll that has not come yet.
- What git finds is left open: `_collect` ends with the signals it had, or with
  `startup_error`.  Of the fifteen signals those are produced that the model can see;
  the ranking is complete.
- Left out: steering messages and heartbeats (`RunLifecycle`), an attendant whose own
  delivery of a message raises, the text of plans, verdicts and results, the dependency
  cache, the host tier.

### How the machines around an attempt correspond to the code

- `Checkouts`: an action is one git command or one look at the disk.  `lock` is
  the lock of a mirror (`vcs/store.py:265-299`); `Ensure`, `Create`, `AddRemote`,
  `Fetch` and `Resolve` are `RepoStore`'s, `Prune` to `Open` are `acquire`, `Look`, `Remove`, `PruneAfter` and `Delete` are
  `release` call by call.  `StartSweep` takes the set of live runs, `SweepBox` and
  `SweepDir` remove one thing each, later.  `record` is git's list of worktrees, which
  outlives a directory.  `Sparse` is the sparse checkout after the worktree is there.  If
  git refuses it, `acquire` raises git's own `GitError`, which is no `PortError`, so it
  leaves the pipeline too: the directory and its record stay, and the branch is refused
  to every other run until the sweep has taken them (`DebrisIsRemoved` is about refused
  runs as well as dead ones).  A run acquires once, so the answer to a second `acquire`
  of the same checkout (`worktrees.py:139-141`) is left out.  `age`, `Age` and `Halt` stand for the heartbeat and the
  watchdog.  A branch is the set of runs whose commits it has.
- `Collection`: four paths stand for the guide, the plan, the configured source of
  the guide and code.  `Prepare` is `_prepare` with `_install_conventions` and the
  exclusions, `AgentEdits`, `AgentRemoves`, `AgentCommits` and `AgentReports` are the
  agent (external), `Collect` is `_collect` with `_reclaim` and `commit_all`, `Tidy` is
  `_tidy`.  Attempts follow each other in one tree as `runners/handler.py` retries.
- `Siblings`: `Lists` and `Snapshot` are the two halves of `_prepare` around its await,
  `Pops`, `Asks`, `Claims` and `Removes` are `_sweep`.  A daemon that does not answer is
  an empty list (`SaysNo`).
- `Stream`: bytes are cells, `MaxLine` of them are the cap; a chunk is any number of
  what is unread.  `Watched` is `_Watcher.line`, `Signalled` what `_run_phase` concludes,
  `Limit` what `_Deadline` gives a phase.  `Limits` and `Watching` are what an attempt is given
  and what may stop it.  One line of each kind of event is enough for the fold in
  `turns.py`.  A count is one cell, so no number is cut in two by the cap, and the floor of
  a phase's limit (`_MINIMUM_LIMIT_SECONDS`, a millisecond) is below the unit of the
  model's clock.  A sink that raises is `AgentRunner`'s.  What an output reads as is
  written twice: `Split` goes through it cell by cell, `PiecesOf` line by line, and
  `MCAttempts` assumes (so TLC evaluates) that the two agree on every output of the run
  (`ReadingsAgree`).

### How the machines around a run correspond to the code

- `Scheduler`: as in `AgentRunner`, `calls` are tasks in `dispatch`, `adm` the tasks of
  `_admit`, `admitted` the table of runs in its order.  A semaphore hands its slot to
  a waiter, who has it before it runs: `Granted`.  A caller that gave up waits for its
  task before it forgets it (`Unwound`); a second cancellation of that caller is passed to
  the task, which is hit already, or, after the task has ended, takes the place of what
  the task raised, and then the admission is forgotten even if it failed.
- `Inbox`: `Submit` is `Intake.submit` after `normalise` and the screen, `Reply`
  the look for the request with the insert after it (a request that arrives in between
  leaves the turn with the one before it, whose row stays).  `Collect` to `Acknowledge`
  are a `clawdence work --limit`, `Plan`, `Check`, `Delete` and `Unacknowledge` the
  transactions of `reset`.  `Fairness` there is a `work` that is run again and again;
  `QueueSpec` is the same without a reset, for `RoutableIsReached`.
- `Upgrade`: `Connect` reads the version, `Migrate` takes the lock and applies what it
  read was missing; `Attempt`, `Audit`, `Send`, `Published` are the drain of old rows;
  `Replay`, `Retry`, `ReplayStores`, `Discard` the dead letters, which are a set of
  records (`parked`): the store takes a record once, so two letters of one record come to
  the same.  `Die` is at any step.
- `ModelStep`: `Fit` cuts the prompt, `Refused` is a provider's refusal (with its
  translation), `Replied` charges and judges a reply: used, corrected or given up.
  `Overspent` has the three caps of `_charge` (tokens, money, wall clock).
  `Running` has the sums of the messages' sizes; `Truncate` finds in them what
  `fit_to_budget` finds as it goes.
  A reply is what is wrong with it; `RepairText` has the repairs on characters.
- `Outbox`: `Send` and `Flush` end at their await, `SendSucceeds`, `SendFails`,
  `FlushDelivers` and `FlushFails` continue.  `overlapped` remembers the keys two tasks
  gave to the port at once, and those a flush gave it that were no longer held.
- `Guards`: tokens to a tree (`Parse`), a tree to a value (`Eval`), references, templates
  and the loader's check.  `Printed` writes a tree with as few brackets as it needs,
  the reference definition `Parse` is compared with.  The check itself is `Loader`:
  `Validated` walks the stages as `validate_references` does.
- `Routing`: a text is the kinds of its lines and the terms it mentions.  `Probe`: a
  repository is its files and what the legible ones claim.  Scores, precedence,
  budgets and every refusal are kept; regular expressions and formats are not.  A file
  that is too long or malformed is reported; one that the system refuses to open is
  treated as absent without a word, as `Tree.text` does, so `NothingIsGuessed` excuses
  it.  Its clauses on lockfiles are about Node.

## 3. What is checked

| run | module | question | bounds |
|---|---|---|---|
| `execution` | MCRunLifecycle | is the record of a run numbered, settled, complete and equal to its log, over crashes and one resume? | 3 stages (retry with on_error: continue, steered, guarded), 2 executions |
| `supervised` | MCRunLifecycle | what can still move a run that finished, beside who writes late, and is a dead run noticed? | 2 stages, 1 executor, 1 sweeper that may crash, ages to 3 |
| `on_time` | MCRunLifecycle | is a punctual run left alone? | as above, no step may run longer than the heartbeat |
| `shared` | MCRunLifecycle | what holds of messages when two processes execute one run? | 1 stage, 2 executors, 2 messages of 2 priorities |
| `drainers` | MCWorkLoop | does the delivery queue keep its promise under races, expired leases, crashes, closed pull requests? | 2 processes, 1 request, 1 publication, 1 crash, 1 retry, 1 close |
| `requests` | MCWorkLoop | are only worked versions acknowledged, is a request queued, amended, taken back and handed over as it is promised, and does every publication settle? | 1 process, 2 versions, 2 publications, 1 crash |
| `agents` | MCAgentRunner | does an attempt run once at a time, in containers of its own that it gives back, end for a reason, and end when it is told to? | 1 key with a setup, 2 callers, each of which may join as often as it likes, 1 crash or removal not done |
| `attempts` | MCAttempts | is a checkout its run's, the branch the agent's work, a success this attempt's, a container in use spared, an output read as written, a limit kept? | 2 runs of 1 item and 1 crash; 4 paths, 2 attempts; 2 attempts, 2 sessions; 2 writes of 5 kinds of line, cap 4 |
| `services` | MCServices | are slots, requests, upgrades, model steps, messages and decisions what they promise? | 2 repositories, fleet of 1, 3 deliveries; 2 arrivals; 2 processes, 2 publications, 1 death; 3 turns, 2 models, 2 tries; 2 keys, 3 sends; cases below |
| `halted_alive` | MCRunLifecycle | (expected violation) the watchdog's doc on healthy runs | 1 stage, 1 executor, 1 sweeper, steps as long as they like |
| `amendment_lost` | MCWorkLoop | (expected violation) an acknowledged version was worked | as `requests`, texts arriving at any time |
| `guide_removed` | MCAttempts | (expected violation) only what the run wrote is tidied away | as `attempts`, the guide tracked under its installed name |

The cases of `services` are all trees of two operators over two references and a
constant under values of every type; all pairs of values, lists and objects up to two
levels deep among them; all workflows of two stages at most and templates of two pieces
at most; deployments of two repositories at most with every
combination of aliases, keywords and three terms; JavaScript repositories with every
combination of lockfiles and claims; all documents `RepairText!Documents` writes, cut
anywhere.

What the violations show, and what else the code does not keep though a doc, a
docstring or a comment says it.  The three runs' findings are in `PROJECT.json`.  Each
other statement is a definition of its module, and TLC finds it violated with the
constants of the run named (or as said), when the run's module names it, as
`Attempt` does `RecoveredRunIsNoFailure`, and the cfg checks that name:

| statement | module (run) | what happens |
|---|---|---|
| `LiveRunIsNotHalted` | `RunLifecycle` (`halted_alive`) | `detect` halts a healthy run whose step ended between its two reads |
| `FinishedRunIsNotHalted` | `RunLifecycle` (`supervised`) | `recover` halts what `detect` found a moment before, though the run was closed as done in between |
| `AckedRevisionWasWorked` | `WorkLoop` (`amendment_lost`) | an amendment that arrives while the agent works is acknowledged with the run that never saw it |
| `OnlyTheAgentsWorkIsOnTheBranch` | `Collection` (`guide_removed`) | a retried attempt's branch deletes the repository's own guide |
| `EveryRunIsOnTheLog` | `RunLifecycle` (`execution`) | a new run's first row and first log entry are two transactions |
| `CompletedRunReplays` | `RunLifecycle` (`execution` with `Faulty = {1}` or `OperatorStops = TRUE`) | a run with a guard that erred, or that an operator stops after it is done, does not replay to what it is |
| `RecordedWorkIsNotRedone` | `WorkLoop` (`drainers`, `requests`) | who dies with a publication claimed has its agent dispatched again while the lease runs |
| `RecoveredRunIsNoFailure` | `Stream` (`attempts`) | the turn after an error is longer than the cap, is cut, and is no event any more |
| `TimeIsNamedForItsLimit` | `Stream` (`attempts`) | a setup that runs out of its own timeout is named for the budget of the attempt |
| `EarlierEditsStay`, `DroppedWorkIsNoSuccess` | `Collection` (`attempts`) | an edit of the guide by an earlier attempt is reverted; the runner's own commit counts as the agent's |
| `AmbiguousIsLeft`, `WhatWasThereIsLeft` | `Siblings` (`attempts`) | a container two attempts could have started is claimed by the second; an unanswered first question makes everything new |
| `CommitsAreKept`, `MirrorsAreWhole` | `Checkouts` (`attempts`) | `release` deletes a branch that moved since it looked; a mirror without a remote is never repaired |
| `EveryStopIsAnswered`, and `AdmittedOnce` without `disowned` | `Scheduler` (`services`) | a run stopped before its first step raises; a waiter of a failed admission forgets the next one |
| `ResetLeavesNothingDangling`, `WhatGoesWasShown`, `RoutableIsReached` | `Inbox` (`services`; the last for `QueueSpec` with a `Limit` of 1) | a death between delete and re-queue forgets a request; what arrives between plan and delete goes unseen; an unroutable request at the head starves the rest of `--limit` |
| `CutIsOnRecord` | `ModelStep` (`services` with 4 turns, a budget of 7 and windows of 9) | a cut is not on the record of a step whose last turn did not have to cut again |
| `AbsentIsUnequal` | `MCServices` of `Guards` (`services`) | two references that are both absent compare equal, against "MISSING, which compares unequal to everything" (`engine/conditions.py:23-24`) |
| `BooleansAreHeldApart` | `MCServices` of `Guards` (`services`) | Booleans and numbers are held apart at the top only: `[true] == [1]` |
| `RepairNeverChangesContent` | `RepairText` (`services`) | a number cut in the middle is another number |
| `EveryEmptyFieldIsExplained` | `Probe` (`services`) | a build command is left empty without a word |
| `SameKeyIsDeliveredOnce` | `Outbox` (`services`) | two sends of a key, or a send and a flush, each give it to the port; so do two flushes, one after the other, from a snapshot the first has delivered from |

The properties of the passing runs state what does hold next to these: their excuses
(`disowned`, `unclean`, `early`, `overlapped`, `saw`, `commits.runner`) are history
variables or conditions that name exactly the case above.  So some of them are weaker than
one would like, because the code is:

- `WhatMovesAFinishedRun` lets a sweep halt a run that is done, if it had found it stalled
  before; it says that no sweep turns against a run after it is done, and that nobody
  else but a resume takes it from done.
- `SeenCommitsAreKept` speaks of the commits `release` could see.  One that another run
  puts on the branch after the look is deleted with it, which is `CommitsAreKept`.
- `RequestsAreKept` speaks of resets that ended.  One that dies between its transactions, or
  deletes a run whose worker is alive, sets `unclean`, and nothing is said after it.
- `WorkflowMeansWhatItSays` speaks of the equality of values that are there and have no
  Boolean inside a list or an object; the two rows of `Guards` above are the rest.

Why the bounds are enough.  Three stages hold each kind of stage once, and a stage
before and after a fault; two executions are a crash and a resume; two attempts
are the first and the last of a retry.  One row and one request suffice for races
between two drainers, since rows and requests interact only through the item's
branch, which `requests` exercises with two rows of one item.  The same
specification with two workers, two commits and two rows was explored to 11
million states without a violation; it is not a run because it does not finish in
minutes.  Keys share nothing in the runner but its tables, which are keyed, and no
container name, so one key is enough; two callers are an owner and a redelivery, or
two attempts one after the other, and one that only joined may call again.  One
fault is enough for a container that outlives its owner, by a crash or by a removal
that was not done.  Two runs of one item are the least that contend for a branch, and
a mirror, and a sweep between them; runs of different items share the mirror and its
lock only.  Three deliveries over two keys are an attempt that runs, one that waits,
and one that is delivered again.  Two attempts and two sessions are an owner and a
stranger.  A line of four cells is one at, below and above the cap, in any chunks.
`Considerate` (a new text waits until nothing holds the request) is TRUE
in the passing runs, because `amendment_lost` shows what happens otherwise;
`Overlap` FALSE is the assumption `store/ledger.py:266-269` states, that one
executor works on a run at a time, and `Prompt` says a live executor keeps the
watchdog's limits.  Deadlock is not checked in `agents`, `attempts` and `services`:
with nobody calling, printing or asking nothing happens.

Fairness.  `RunLifecycle`: time passes, and somebody runs `clawdence runs recover`
again and again; a sweep may die, but not for ever at the same step (strong
fairness of its steps).  Nothing is assumed of executors or operators.
`WorkLoop`: `clawdence work` is run again and again and its steps are taken (weak
fairness per process, crashes are bounded), and a backoff or a lease of a dead
owner runs out.  Nothing is assumed of people, of the forge's answers, or of the
reaper.  `AgentRunner`: the event loop runs every task that can run, and the control plane is
polled for as long as a phase lasts (`_attend` has no exit but a stop).  An agent
need not exit, an engine need not answer, nobody need cancel.  `StopIsHonoured` needs
no clock; `GivingUpEnds` has the wall clock as its hypothesis, because a `cancel`
that is swallowed in a join leaves the run to its clock.
`Scheduler`: each admission's task is run when it can run, and the inner port answers,
which `GivingUpEnds` shows of the runner under its clock.  `Checkouts`: `reap` and
`runs recover` are run again and again, and time passes.  `Upgrade`: processes that
open a database and drain go on to, with strong fairness of the drain since another
process may take its row away and give it back; deaths are bounded.  `ModelStep`: the
provider answers or the call times out.  `Outbox`: its owner flushes again, and the
port answers or raises (`ports/outbox.py` leaves the schedule to its caller, and no
caller in this commit has one).
Liveness is not claimed with `Slow`: two drainers whose leases run out
under them may take a row from each other until it has been settled once, and the
code has no bound on that other than time.

## 4. What is proved

All theorems hold for every value of the constants that satisfies the named
assumptions (`LifecycleAssumption`, `ControlAssumption`, `WorkItemAssumption`,
`IntakeAssumption`, `EffectsAssumption`, `WorkAssumption`, `RunnerAssumption`;
`AttemptAssumption` and `ServicesAssumption`, which are those of their machines;
`CasesAssumption`, that what is decided on is a request, a deployment, a document or a
repository as its parser leaves it) and of the hypotheses a theorem states.

- `RunLifecycle_proofs`: `TypesHold`, and `AttemptsStayContiguous`.  The invariant is
  `IInv`: types, contiguous attempts, what a ledger remembers is never ahead of
  the table (`MemoIsBehind`), and a process that is inside a step has a row for it
  (`LoopIsOnARow`); without the last two a process could finish a row that is not
  there.  It holds with overlapping executors too, because a colliding `begin`
  is refused by the primary key.
  `MessagesAreHandedAtMostOnce` and `OrdinalsStayDense` follow from `InboxInv` (unread
  messages were never handed over; the ordinals given are 1..n, one per message handed
  over).  The step of `claim` rests on a lemma that the ranks of the claimed messages are
  dense and distinct.
- `OneExecutor_proofs`, the safety properties of `execution`, `supervised` and `on_time`:
  - `LateWriteKeepsTheVerdict` holds with overlapping executors: `VerdictInv` adds that a
    copy of the row is the row as long as the version is the same, and no write of a
    verdict leaves the version alone.
  - `OneStepAtATime`, `DoneIsAccountedFor`, `NothingIsOpenWhenDone`, `FinishedWorkStays`
    and, with the first, `WhatMovesAFinishedRunIsKnown`, under `~Overlap` (the assumption
    `store/ledger.py:266-269` states; crashes, resumes and any number of watchdogs are
    still there).  The last does not say that a done run stays done: a sweep that found it
    stalled before may halt it (`FinishedRunIsNotHalted`), and the close of a live executor
    replaces a halt.  The invariant `SoleInv` says of the tables that only the last row of
    a stage may be open and a stage that succeeded has no row after it (`Tables`), and
    of the one process that what is open is its own (`OpenIsOwn`), that it remembers the
    tables exactly once it has resumed (`MemoIsExact`), and that every stage before its
    own has a result that counts (`EarlierAreAccounted`).
  - `TheLogAgrees` needs `LoggedInFull` as well: no watchdog and no operator stops the
    run, no guard errs, and a stage that may be skipped declares no timeout.  Each of the
    four is a case where the code's event carries less than its row: the last, because
    the event that records a skipped step (`store/ledger.py`) has no `timeout_seconds`, which
    the row has (`engine/executor.py:338`) and `devloop/replay.py:341` compares.  `LogInv`
    says stage by stage what the fold has of a row (`View`).
  - `PunctualRunIsLeftAlone`: `Prompt`, no step may take longer than the heartbeat
    (`StepsAreShort`), and one execution.  The defaults of the code are outside of
    `StepsAreShort` (a step 3600 s, a heartbeat 900 s: `store/watchdog.py:77-94`), which
    is what `halted_alive` shows; and a second execution is, because a sweep that began
    on the dead process halts the run of the live one.  `TimeInv` relates the process's
    clock, the rows' ages and what each sweep has read (`KeepsTheLimits`, `Harmless`).
- `WorkLoop_proofs`: `WorkTypesHold`; `TheQueueGivesUp` (a waiting row has an attempt
  left); `DeliveredPublicationsWereShown`; and `DeliveryImplementsItsPromise`,
  `Spec => Promised!PromiseSpec`.  The invariant is `Review`: types with the facts that
  a process in a delivery has a row and one with work has an item; an open pull
  request shows its branch (`PullShowsBranch`); at each `pc` of a delivery the
  commit has got as far as the calls already made say (`OnItsWay`); delivered rows
  were shown (`DeliveredWasShown`).  Every step is split into what it does to the
  queue (`QueueMove`), to the forge (`ForgeMove`), and to the place of one process.
  `AcknowledgedIsWorked`, under `Considerate` (`amendment_lost` shows why), adds that
  whatever a process or a row owes an acknowledgement for was worked (`Worked`);
  `TheQueueKeepsItsPromise`, `Spec => RequestsKeepTheirPromise`, and its consequence
  `TakenBackStaysBack` need the types only, and no assumption of when people write: a
  row of `intake` is one request of `RequestPromise`, an arrival is its first, an amended
  or a reopened version, or a step that says nothing new, and an acknowledgement hands
  over the version that waits, or nothing.
- `AgentRunner_proofs`: all six safety properties of `agents`: `RunnerTypes`,
  `OneExecution`, `OwnContainers`, `NothingLeft`, `OnlyTheOwner`, `CancelledWasStopped`.
  Each action of an execution is first shown to be an `OwnStep`, which says what
  the others can see of it: whose record changes, that it ends cancelled only if
  it was hit, that it says cancelled only for a stop, that it creates its own
  container under a free name, and that it starts and answers with its containers
  removed.  `IInv` then needs: a live execution has a waiting owner (`Owned`), who is
  the one its key is in flight as (`Held`), so two live executions of a key are one;
  a container has its maker's name (`Named`); from its first phase on an execution
  meets only its own (`Cleared`); whatever reached it came from its owner or from
  `cancel` (`HitByOwner`); a key in `stopping` is in flight as an execution that was
  promised its end (`StoppedInFlight`); what was heard was said (`ToldByOperator`); and
  the conclusions.  That `classify` names the signal that ranks highest rests on the
  well-ordering of the naturals (`Highest`).
- `Attempt_proofs`, for any number of runs, attempts, sessions and crashes:
  - `CheckoutIsKept` and `SeenCommitsStay`.  `DiskInv`: a run's directory and container
    are new until its lease, so no sweep that has listed them can list them in time
    (`Spared`); a directory has a record with git and a branch one record (`Recorded`,
    `OnePerBranch`); what `release` is about to delete it has seen empty (`Looked`); a
    torn mirror has its maker (`Made`).
  - `SuccessIsEarned` (`WorkInv`: a verdict that can be read is this attempt's or none).
  - `BranchIsTheirs` under `GuideIsSafe`: where the repository tracks the guide, it is
    installed from another path and agents remove neither.  `guide_removed` shows a
    guide that is its own source; the proof found two more that lose it.  An attempt that
    unwinds unlinks the guide, an agent has removed the source, and the next attempt,
    which has nothing to install, commits the deletion.  And an agent that commits the
    removal and writes the guide again leaves it untracked and excluded, so that it is
    never committed.  `BranchInv` follows the text of the guide through the phases.
  - `SiblingsAreSpared`.  `SocketInv`: what a sweep finds was there before its attempt or
    appeared while it watched, unless a first question went unanswered (`FoundIsNew`),
    and what it has claimed belongs to attempts that have ended (`ClaimedIsUnused`).
- `Stream_proofs`, for any lines, chunks, interleavings of the two streams, caps, clocks
  and timings: `OutputIsRead` and `LimitsAreKept`, the two properties of `Stream`.
  `StreamAssumption` says that counts are naturals and limits are absent or positive, as
  `domain/budget.py` validates them.  `OutputInv` has four parts.
  - `Read`: what was delivered and what the buffer holds is the reading, cell by cell, of
    as much as was taken from the stream.  So the chunks do not matter (`Takes`, from
    `OneRound`, which says what one look at the buffer does), what was delivered is a
    prefix of the reading of everything (`ReadIsPrefix`), and at the end it is all of it.
    `Split` goes one cell at a time here, since that is what an invariant can follow.
  - `Watched`: what the watcher knows is a function of the lines it was given (`Heard`):
    the sums or the highest of what they reported, whatever the order of the streams
    (`TotalIs`, `ReportedAfter`), whether an error stands, and that it overspends exactly
    when the total is above the cap, which no later line takes back (`BudgetStaysOver`).
  - `Clocked`: no phase goes on when the wall clock is over.  `Answered`: the answer is what
    the lines, the exit code and the clock make of it, once.
- `Services_proofs`, for any number of processes, requests, replies and records:
  - `NothingIsLostInAnUpgrade` (`UpgradeInv`: who has read a version reads one that is
    there; who has sent was reviewed; a letter is discarded when its record is logged).
  - `RequestsStayThemselves` (`InboxInv`: what was handed over is at most what there is,
    every turn and every run in hand has its request and its row, and nobody is
    forgotten but between a delete and a re-queue).  Its part that `Inbox` implements
    `RequestPromise` needs that no two rows are of one request or have one id, and that
    every id was minted (`RowsAreTheirOwn`): only then does an acknowledgement by id hand
    over one request, and an arrival by reference change one.  A reset without the inbox
    is `Forget`, a re-queue `TakeUp`, and a death between its transactions is no step.
  - `RepliesAreAccountedFor` (`ModelInv`: the cap holds before every call, a shorter
    conversation has its mark, and what one model was asked for costs what it charges).
    That a cut prompt fits its budget is about the sum of any number of messages, and is
    proved by the least counterexample: of all prefixes for which it is wrong, take the
    shortest (`Least`, `RunningSums`, `TruncateFits`).
  - `TextOnlySelects`.  The invariant is only that a decision is one of the cases
    (`DecisionInv`), since what is to be shown is about a function of one case.
    `ChosenIs` says who is chosen: whoever scores above everybody else, if there is such a
    repository.  Then: another order of the same profiles has the same winner
    (`OrderDoesNotMatter`, by the map between the two orders); a text that also names
    the winner gives it three more and anybody else three more at most
    (`OneMention`, `SayingItAgain`); and one profile per path is left of a document that
    loads (`LoadedIsClosed`).
  - `NothingIsMadeUp`.  `Vouched` says what a proposal needs in the tree, and every reader of
    `stacks.py` keeps it, also after another has added its findings (`NodeIsVouched`,
    `OthersAreVouched`, `MoreFindings`).  That a daemon is found or asked for
    (`DaemonIsFoundOrAsked`) is about the directories that fit the two budgets: what was
    not opened is reported.
  - `LoadedIsEarlier`: a workflow of any length loads exactly if the names differ and all
    references go to earlier stages or to the request
    (`Loader!LoadedReferencesAreEarlier`, which `services` checks for two stages as a part
    of `WorkflowMeansWhatItSays`).  `LookedAt` is the induction over the stages.
- `Queue_proofs`: `QueueStaysKept`, for any number of repositories, attempts, callers,
  messages, senders and flushes.
  - `SchedulerInv`.  Of each semaphore (`SemInv`): its queue is exactly the admissions
    that wait there, one entry each; who waits has not been hit, who was cancelled has;
    what is free, handed over and held is the limit; and nobody waits past a slot that
    is free (`NobodyIsPassed`).  Then: an admission has its creator (`Created`), every
    live one that no caller disowned is the one that is remembered (`Remembered`), and
    what is stopped while it lives is hit (`StopsAreHits`).  A lemma for each operation
    of `asyncio.Semaphore` says what it does to the three sets of tasks; each action of
    an admission is an `OwnStep`, and each of a caller moves nobody or hits one.
  - `OutboxInv`.  The queue holds a key once (`HeldOnce`), and of a key that was never
    given twice at a time (`Single`): it was taken at most once, and whoever is at the
    port with it is alone there.  For a single flusher that is all.  With more of them it
    is not, which the run's bound of one hides: a flush may give the port what another
    has delivered since the snapshot was made, after it and not beside it.  The proof
    failed there, and `overlapped` counts that case now.

Model-checked only:

- Liveness (`DeadRunIsNoticed`, `EffectSettles`, `StopIsHonoured`, `GivingUpEnds`,
  `EveryoneIsServed`, and `DebrisIsRemoved` in `NothingIsLostOrLeft`): TLAPS does not
  reach fairness.
- `WorkflowMeansWhatItSays`, but for the loader's part of it, and `RepairsKeepTheContent`:
  functions of one case.  What the recursive parser and the repairs compute is out of the
  prover's reach: the inductions above go over recursive functions on the naturals; a
  RECURSIVE operator has no such definition to reason with.
- That `Split` and `PiecesOf` read an output the same way (`ReadingsAgree`, evaluated by the
  run `attempts` over the outputs it writes).

## 5. Plan

Done: the run, the work loop and the runner; every machine of `Attempt` and `Services`;
the pure modules; and proofs of the safety of all of them, as far as no RECURSIVE operator
is in the way.  What could follow:

1. A refinement: the runner's answer as `Scheduler`'s inner port.
2. `Guards` with its parser as recursive functions over the length of what is left of the
   tokens, which would put `Parse` against `Printed` within reach.
3. The three parts of section 6 that are text today and would need a property first: the
   host tier, the caches, the policy on paths.

## 6. Not modelled, and why

- The plan, the prompts and the steering files (`runners/plan.py`, `agent/prompts.py`,
  `runners/steering.py`): text and files for the agent, no decision but wording.
- The host tier (`runners/host.py`): `AgentRunner` without containers; its hooks are
  construction.  The caches (`runners/cache.py`) are directories made before a mount,
  which nothing in the code locks or versions.
- Hygiene and policy (`vcs/hygiene.py`, `policy.py`): lists of paths and sizes.  The
  models leave the decision open, so both answers are explored.
- Ports, reports, domain types: interfaces, printing, validated values.  The statuses
  and the budgets enter with the components that use them.
- Parsing of arguments, YAML, TOML and JSON, the lexer of conditions, subprocess
  arguments, the wire formats of GitHub and of the model provider.
- Known to be there and in no property: tokens without a breakdown are priced as
  output until one arrives (`agent.py:1281-1289`); a permanent error from
  `_resolve_group` in `_prepare` leaves installed files; a cancelled teardown leaves a
  snapshot; the cost of a step is computed with the price of the last model that
  answered; compaction of two messages cuts nothing; a quoted prompt that mentions
  money reads as a quota error.
