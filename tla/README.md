# ClarkCant in TLA+

A verification development of the ClarkCant node (`digitopvn/clarkcant`): TLA+
modules of its core, model-checked with TLC on small instances, and theorems
about them proved with TLAPS for every value of the constants. Paths below are
relative to the repository's root (`src/` in this checkout).

## 1. The system

A *node* is one Node.js process with one SQLite database. A person talks to it;
the conductor answers with a model or makes a *task* of what was asked. A task is
run by a *worker*, a child process without access to the database, that asks its
host to run commands. What reaches outside the node is written into an *effect
ledger* before it is handed off. A policy may ask the person for an *approval*
first. A *lease* per capability is to keep runs of one capability apart. Nodes can be
paired and hand tasks to one another.

### Inventory

| component | state it keeps | operations | what makes it correct |
|---|---|---|---|
| Task and effect state machines (`packages/contracts/src/tasks.ts`, `effects.ts`) | none, pure | `reduceTask`, `canTransitionEffect` | every stored state was reached by legal events |
| Task service and conductor (`packages/core/src/task-service.ts`, `conductor.ts`) | task rows, events, evidence | `applyTaskEvent`, `cancelTask`, `recordEvidence`, `markEffectUnknown`, `settleDispatchedTask` | success only on verified evidence and no unsettled effect; a stop is confirmed exactly when nothing runs |
| Task dispatcher (`apps/runtime/src/task-dispatch.ts`) | queue, active runs, stopping and reported sets | `dispatch`, `stop`, `stopAll`, `close`, `decideTaskApprovalForNode` | pool bounds, every job is settled, no worker without lease and policy, nothing of an ended task runs |
| Worker command broker (`worker-command-broker.ts`) | effects, commands under way | one request: policy, guardrail, ledger, run, settle | no command under way or unknown twice, handed-off effects never forgotten |
| Leases (`coordination.ts`, `lease-sweeper.ts`) | lease rows, epochs | acquire, release, sweep, fencing check | one holder per capability while its time runs, and no run frees another's lease |
| Approvals (`coordination.ts`, `expiry-notices.ts`) | approval rows | request, decide, expire, retire | one decision per request, a parked task can be answered |
| Effect reconciliation (`effect-reconciliation.ts`, core and runtime) | effects, `effect.reconciled` events | `reconcileEffect`, `settleReconciledTask` | an answered task does not stay uncertain |
| Work recovery (`work-recovery.ts`) | the work journal | boot recovery | after a crash nothing reads as under way |
| Work supervisor (`work-supervisor.ts`, `work-journal.ts`) | background lane, queue and their journal | submit, retry, cancel, deadline, drain, re-run | bounds and order, bounded re-runs, no request lost or told twice |
| Automation (`core/automation.ts`, `automation-service.ts`, `storage/repositories/signals.ts`) | standing requests, signals, runs, parked tasks | set up, pause, remove, tick, match, start, remind | one start per occurrence, nothing for a paused request, every signal settled |
| Delegation and node link (`delegation*.ts`, `peer-*.ts`, `peers.ts`, `packages/node-link`) | outbox, inbox, cursor, letters given up on | delegate, result, cancel, skip, status | at-most-once execution under loss and repetition, and what is said of it is true |
| Install and package life cycles (`core/install-lifecycle.ts`, `package-lifecycle.ts`) | plans, installed packages | propose, consent, apply, roll back | nothing runs without consent to what runs |
| Service host (`service-host.ts`) | package services | start, stop, restart | bounded restarts, no orphan |
| Model turn, routes, voice, widgets, web, desktop, CLI, adapters, packs | conversation, views | presentation and I/O | left out, see section 8 |

The dispatcher is the hub: messages, tools, automations and peers hand it tasks;
it calls the task service to settle them, the lease and approval services before
it starts a worker, the broker while one runs; a stop, an emergency stop, a
decision, an answer and the timers reach into the same rows between any two of
its awaits; a crash can cut any of them short between two transactions. Around
it, automations make tasks out of timers and signals, a peer's hand-over makes a
task of another node's, and the supervisor runs conversation turns beside the
tasks; all of them have rows that outlive the process and a part in its boot.

### What is hard here

* **Interleaving at awaits.** The process has one thread, so a stretch of code
  between two awaits is not interleaved, but a run has about eight of them
  (model launch, worktrees, worker, each command's guardrail, the broker's idle,
  the browser's close, the worktrees' removal), and a stop, a decision or an
  answer may come at each.
* **Several transactions in one stretch.** A decision and its effect on the task,
  parking and the request for approval, a stop and its confirmation are separate
  writes: a crash may come between.
* **Two registers of one fact.** The task row, the approval row, the ledger, the
  lease row and the dispatcher's memory each say a part of "is it running".
* **Late facts.** Reports after a stop, answers before a report, decisions after
  a deadline, leases that outlive their run or are outlived by it.
* **Messages.** Between nodes an envelope is sent until it is answered or given up
  on; its request or its answer can be lost, and a request given up on can still
  arrive. What is given up on leaves a gap in the sequence, which a *skip* closes.
* **Restarts that go on.** A background request is run again, a half-prepared
  automation run is taken on, an outbox is delivered from where it was: each must
  neither lose what was promised nor do it twice.

`PROJECT.json` lists every hazard at its line and the properties aimed at it.

## 2. Modules

| module | what it is |
|---|---|
| `TaskMachine` | the two transition tables as operators: `Legal`, `Target`, `CanTransitionEffect`; extended by `TaskDispatch` and `Automation` |
| `TaskDispatch` | a node's dispatched tasks: database rows, dispatcher, broker, person, timers, crash and boot |
| `TaskPromise` | the abstract specification of `TaskDispatch`: what is said of a task, what became of its work, and the consent to it |
| `WorkSupervisor` | the background lane of a node, its journal, Try again, shutdown, crash and the recovery at boot |
| `PeerDelegation` | two nodes: hand-over, answer and stop of a task, carried by outboxes, inboxes, cursors and skips over a lossy network, with crashes |
| `HandOverPromise` | the abstract specification of `PeerDelegation`: what an owner may rely on |
| `Automation` | standing requests: timers, signals, runs, reminders, tasks that wait for a capability, crash and boot |
| `MCTaskDispatch`, `MCWorkSupervisor`, `MCPeerDelegation`, `MCAutomation` | values of the constants for TLC; one `.cfg` per run |
| `TaskDispatchProofs`, `WorkSupervisorProofs`, `AutomationProofs`, `PeerDelegationProofs` | TLAPS proofs about the module each is named after |
| `TaskOwnerProofs` | TLAPS proofs of the other safety properties of `TaskDispatch`, from who owns a task; extends `TaskDispatchProofs` |
| `TaskPromiseProofs` | TLAPS proof that `TaskDispatch` implements `TaskPromise`; extends `TaskOwnerProofs` |
| `QueueLemmas` | facts about sequences used as queues: first out, one more, one removed |
| `HandOverProofs` | TLAPS proof that `PeerDelegation` implements `HandOverPromise`; extends `PeerDelegationProofs` |

All four models describe synchronous code the same way: one action is one
transaction (or changes memory only), and a handler of several transactions is a
chain whose next link is in `thread`. Nothing else of that node is enabled until the
chain ends, as on the event loop, and a crash may come at every link.

### How `TaskDispatch` corresponds to the code

*State.* `task`, `doubt` (which event made the task uncertain, read by
`settlementPlan` from the event log), `evidence` (the newest `evidence.recorded`),
`effect`/`operation`/`answered` (the ledger and its `effect.reconciled` events),
`approval`/`age`, `lease`/`lapsed` and `placed` (the tasks whose
`execution_node_id` is this node) are rows and survive a crash. `queue`,
`phase` (which await of `runAdmitted` a run is at), `stopping`, `asked`
(requests inside `answerRequest` that wait for the guardrail), `live` (commands
that run) and `closing` are memory. `thread` is the stretch of synchronous code
under way.

*Phases of a run.* `launching` is everything from the lease to the start of the
worker, `dropping` is a launch whose worktree could not be made and that takes the
others away, its lease freed already, `working` is the worker's life, `ending` from its exit to the report
(`broker.idle()`), `settled` from the report to the release of the lease
(`browser.close()`), `leaving` while worktrees are removed. `Holds` is
`dispatcher.holds` (any phase or queued), `ReportPending` is
`dispatcher.reportPending` (until the report): the difference between the two is
what the run `late_stop` is about.

*Atomicity.* One action is one transaction, or one that changes memory only. A
handler of several transactions is a chain: its first action sets `thread` to the
next step, and no other handler is enabled until `thread` is idle, as on the event
loop. `Crash` is enabled at every link of the chain. Three places are one action
although the code writes twice: evidence together with `run.verifying`, evidence
together with the settlement of a reconciled task, and the two events
`reconcile.start` and its outcome, which the code writes in one transaction. `refuse` is
`async`, but awaits nothing that is not already resolved: it runs on through
microtasks, which no timer or socket can interleave, and is part of its caller's
stretch.

*Ways a launch ends.* `LaunchRefused` frees lease and place before it refuses,
`LaunchDrops` frees the lease, takes worktrees away and then refuses, and
`LaunchFails` (a goal its model may not be sent, a worker that could not be started)
refuses first and tidies up like a run that had a worker. `LaunchAsks` parks.

*Choices.* What the code computes from data the properties do not look at is a
choice: whether roots, sites, model or policy refuse a launch; whether the policy
asks about a capability of `AskedAbout` (a read is never asked about); when a lease
lapses; what a worker reports; how a command exits; whether the guardrail allows
a command.

*Refinement.* `Promise` maps a task to three facts. `Said` is what its row tells
a person: nothing yet, open, stopping, uncertain, or how it ended. `Work` is "doing"
while a worker or a command of it is there, "none" while it may still get
its worker (not dispatched yet, queued, launching, or about to be handed to the
dispatcher), and otherwise "proved" or "over", by the evidence. `Consent` is
the approval. `TaskPromiseKept` says that every step of the node, a crash
included, is a step of the promise: work is begun once at most and never while
the consent to it is asked for or was refused, a person is asked once and the decision
stands, an end is final, and success is said of proved work nobody is stopping.

*Not in the model.* `pause.*`, `resolve.need_input`, `resolve.need_approval` and
`approval.granted` exist in the machine and have no caller on the dispatch path
of a running node; `TaskMachine` has them, `TaskDispatch` never fires them. Tasks
executed by a peer (`notifyExecutingPeer`) are in `PeerDelegation`.

### How `WorkSupervisor` corresponds to the code

`row`, `earlier`, `attempt` and `retriedAs` are columns of `work_runs`; `earlier`
stands for a boot id that is not this process's. `limit` is the preference, `told`
the lines of the conversation. `queue`, `running` and `aborted` are the memory of
the supervisor. `Submit`, `Retry` and the recovery all go through `EnterLane`
(`submit`), whose refusal (`Refused`) gives back a claim. `SayDequeued` may fail to
write its line, as in the code, where `ReportFailures` allows it. `RunEnds` is `runOne`'s
`finally` with the line its runner wrote; `Settle` writes the row and `PumpStarts`
takes the next. A shutdown is two actions (`ShutdownBegins`, `Drain`) because the
process awaits other stops between them and still admits requests. `RecoverOne`
is the boot for one row: closed first, then run again or told (`Say`), in this
order, which is what the run `unreported` is about.

### How `PeerDelegation` corresponds to the code

*State.* `task` is the row at home, `work` the row of the same task at the peer.
`out[n]` is the outbox: a row never leaves it, `state` says whether it is owed,
acknowledged or dead, `seq` its sequence. `seen` and `cursor` are inbox and
`lastInboundSequence`. `wire[n]` holds requests of `n` that may still arrive,
those of attempts given up included; `reply[n]` is what came back for the attempt
`sending[n]`. `letters` is what a pass gave up on and has not settled yet.

*Steps.* `Attempt` sends the lowest row owed. `Lose` is a failed connection or a
passed deadline: the request is gone, or arrives later, or was already handled.
`Turned` is `authenticatePeer` and `receiveEnvelope` up to the handler: the end of
a pairing, the inbox, a stale sequence, a gap. `ReceiveDelegate`, `ReceiveCancel`,
`ReceiveResult` and `ReceiveSkip` are the handlers, and `Record` is `recordInbox`
after them, in a write of its own. `DeliveryFailed` and `HoldBack` count failures,
for the rows behind the lowest one too, and give up at `MaxTries`; `QueueSkip`
closes the lowest `MaxLost` gaps, and the next one the rest. `EndPairing` and
`GiveUpRevoked` are the end of a pairing.

*Atomicity.* A stretch of one node touches nothing the other reads before its
end, so it is not interleaved with the other node's: a stretch is over, or cut by a crash,
before either node does anything else.

*Refinement.* `Promise` maps home's row to `known` (running and
cancel_requested are "waiting") and the peer's row to `deed`; a task that never got
to the peer and was settled at home as failed or cancelled is "never".
`PromiseKept` says that every step of the two nodes is a step of the promise: work
is begun at most once, and what home says of a task is true, or that it does not
know.

### How `Automation` corresponds to the code

A run is unique per request and signal, as the table's key says, and a timer's
signal is unique per request and slot; both are the index sets `Runs` and
`Signals`. A tick is one stretch: `FireTimer` for each due request, `MatchSignal`
or `MatchFails` for each pending signal, then the runs: a reminder is said, left as
a notice and marked (`Remind`, `Reminded`), and a line or notice that cannot be
written is passed over (`missed`), as the code swallows that failure; a task is created, parked, resolved,
acknowledged and handed over (`CreateTask` to `Hand`), each in the write the code
makes. `PrepareFails` is a write of the preparation that throws. `Pass` moves the
clock by `Lapse`, so a node may sleep through slots. What the dispatcher does
with a task is only `WorkEnds` and `StopTask`. `starts`, `fired`,
`cut` and `missed` are history variables.

## 3. Properties

`TaskDispatch`

| property | the question |
|---|---|
| `TypeOK` | every variable has its type |
| `SuccessIsEarned` | no `succeeded` without verified evidence and with an effect of unknown outcome |
| `EventsAreLegal` | no handler that read a task and goes on to apply an event to it finds the event refused; the code ignores most refusals, so such an event would be lost. The expiry sweep reads nothing, applies its event on every tick and ignores the refusal on purpose (`apps/runtime/src/expiry-notices.ts:62`): it is not among these handlers |
| `OneOpenAttempt` | no command of a task is under way, or of unknown outcome, twice |
| `EveryOpenTaskHasAnOwner` | what reads as under way has something that will report on it, a stop that a crash cut before any node was chosen for its task excepted (`StopForgotten`) |
| `EndedTaskIsQuiet` | nothing of an ended task runs or waits |
| `ParkedIsAnswerable` | parked tasks and pending approvals belong together |
| `RefusedApprovalRunsNothing` | denied or expired means not run |
| `LeaseIsKept` | a run starts with the lease of its capability, taken from nobody or from a holder whose time was up, and keeps it until its own time is up: an overtaken run, a refused job, a sweep or a boot frees nothing of it |
| `ExclusiveCapability` | two runs of one capability do not collide (violated: finding 4) |
| `PoolIsSound` | bounds of pool and queue; no idle place while a job waits |
| `AnsweredMeansSettled` | a task is not left uncertain about effects that were answered, while nothing crashed |
| `TaskPromiseKept` | the node implements `TaskPromise`: work begins once at most and never without the consent asked for, a decision is asked for once and stands, an end is final, success is of proved work |
| `RunsEnd`, `StopLands`, `AskedTaskMovesOn` | liveness: a run ends, a stop lands, a parked task moves on |
| `StopIsConfirmed` | a pending stop has a run that is still to settle it (violated: finding 1) |

`WorkSupervisor`

| property | the question |
|---|---|
| `TypeOK` | every variable has its type |
| `LaneIsSound` | one place per request, the queue within its limit, nothing waits beside a free place, through ends, stops and changes of the limit |
| `StartsAreOrderly` | a run starts within the limit of the moment and from the front of the queue |
| `ToldOnce` | the conversation is told one end of a request, whichever of run, stop, deadline, shutdown and boot race |
| `NothingIsLost` | what was accepted is in the lane, was told, or is a row the next boot finds |
| `StopStands` | what a person stopped does not run again by itself |
| `RetryIsBacked` | a claim by Try again belongs to an accepted new run |
| `RerunIsBounded` | a restart never runs a request more often than `MAX_RERUNS` |
| `EveryRequestIsAnswered` | liveness: every accepted request is answered |
| `UnreportedStaysOpen` | a row whose recovery failed is left open (violated: finding 2) |

`PeerDelegation`

| property | the question |
|---|---|
| `TypeOK` | types; every row named is a row; tries within the outbox's limit, crashes apart |
| `RunsOnce` | however often a hand-over arrives, around whatever crash, its work is begun once |
| `OwedIsDeliverable` | what is owed is past the other's cursor or in its inbox: no skip jumps over it |
| `RefusedWasNotActedOn` | a hand-over taken for turned down was not acted on (violated when a pairing ends: finding 3) |
| `PromiseKept` | the two nodes implement `HandOverPromise` |
| `HandOverIsSettled`, `StopIsSettled`, `DeadLetterSettles` | liveness: while the pairing lasts a hand-over and a stop are settled or parked; what was given up on settles its task |

`Automation`

| property | the question |
|---|---|
| `TypeOK` | types; a signal is not tried more often than it may be |
| `StartsOnce` | one occurrence starts its work once at most, a failed or pending one not at all |
| `StartedIsHandedOver` | a run that reads as started was handed over, a stop and a crash at the last step apart |
| `ReminderIsMade` | of a reminder marked as made, line and notice were each written, or tried and not writable: no crash leaves one out |
| `NoBurst` | slots slept through fire once |
| `OnlyActiveActs` | nothing starts and nothing is said for a request that is paused or removed |
| `RunIsDecided`, `SignalIsSettled` | liveness: a run does not stay pending while what it needs is usable; a signal is matched or set aside |

Every property of a passing run has a mutant: one definition replaced by the form
a plausible bug would give it (in the module, next to the definition), under which
TLC finds the property violated in the same configuration.

## 4. Runs

| run | instance | shows |
|---|---|---|
| `pool` | 4 tasks of 1 capability that the policy lets run, 2 places, 1 in the queue, leases that lapse at any time, 1 crash (3.2 million states) | pool and queue at and beyond their limits, jobs spliced, refused and lost in a crash; every open task has an owner; who holds a lease keeps it |
| `ledger` | 1 task, approvals and their sweep, 2 commands, 2 ledger entries, 2 requests per command at once, failed writes, a lease that lapses, 1 crash anywhere (450 000) | six invariants, the type and the promise over all interleavings of one task's approvals, commands, stops, answers, shutdown and sweeps, a crash between any two transactions and the boot after it |
| `liveness` | 2 tasks, approvals, 1 place, 1 in the queue, no crash (35 000) | parked tasks can be answered; runs end, stops land and parked tasks move on while a job waits for the place |
| `lane` | 4 requests, a limit that moves between 1 and 2, 2 in the queue, 1 retry, 1 crash or shutdown (5.9 million) | the lane, its journal and the conversation agree through stops, deadlines, retries, shutdown and boot |
| `reruns` | 2 requests, limit 1, 1 retry, 2 crashes or shutdowns, failing lines (200 000) | re-runs are bounded and every request is answered |
| `exchange` | 1 task, 2 tries, 2 losses, 1 crash of either node, 1 stop, a skip closes one gap, the peer's owner may stop it (1.1 million) | the work begins once, what is owed stays deliverable, and the promise is kept |
| `settles` | the same with a pairing that may end, without crash and owner's stop (400 000) | the hand-over, the stop and the dead letter settle |
| `occurrences` | a task that answers one signal and a reminder that repeats, 2 attempts, a clock that jumps over a slot, failing writes, 1 crash (280 000) | the eight properties of automation |
| `late_stop`, `unreported`, `refused`, `collide` | small | the four disagreements of section 6 |

*Deadlock* is not checked: a node whose tasks and requests have all ended does
stop, and so does a pair of nodes with nothing owed.

*Bounds, `TaskDispatch`.* Tasks share places, queue and leases and nothing else:
approvals, ledger and evidence of different tasks never meet. So `ledger` gives one
task all the data it can have, and `pool` gives many tasks what they share and none
of the rest. Four tasks fill two places and the queue and have one more; two runs of
one capability happen together there when the lease of the first has lapsed.
`liveness` has two tasks with approvals and a queued job that waits behind a parked,
stopped or running one. Two entries, two commands and two simultaneous requests are
enough for an answer to one effect while another is open and for a repeated command.
One crash covers every cut and the boot after it; a second finds the same rows,
except in the middle of a boot, which is idempotent by its guards. A task is
submitted once: ended tasks are never run again. What holds for both kinds of
instance at once is what section 7 proves.

*`WorkSupervisor`.* Four requests are one running, two waiting and one refused at
limit 1, or one running and two waiting in their order while an earlier one comes
back as a retry, and two running with two waiting at limit 2; the change of the
limit crosses both ways. Two waiting are the least at which an order can be wrong.
Two exits are needed for the bound on re-runs (`MaxReruns` = 1) to be reached and
tried to be passed. Lines that fail are in `reruns`.

*`PeerDelegation`.* One task: tasks meet only in the order of the outbox, and one
task already queues a hand-over, a stop, a result of a refused, finished or
interrupted run and skips. Two tries are the least at which a row is retried, and
two losses the least at which it is given up on; a row behind it is held back
with it. `MaxLost` = 1 is the least a skip can cover (the code's cap is 50), so that
two gaps need two skips, one after the other. One crash may cut any chain, the
boot's included.

*`Automation`.* A signal-driven task and a repeating reminder take both kinds of
schedule, both kinds of action and every continuation of a tick. `Lapse` = 2 with
`Step` = 1 sleeps through a slot; two attempts have a failed first and a last. The
key of a signal makes occurrences independent, so one outside key is enough. A
`once` schedule is in the module and in the theorems, but in no run.

`MaxEffects`, `MaxAsked`, `MaxCrashes`, `MaxExits`, `MaxRetries`, `MaxFailures`, `MaxStops`
and `MaxTime` bound the instance only; `MaxConcurrent`, `MaxQueued`, `Limits`,
`QueueLimit`, `MaxReruns`, `MaxTries`, `MaxLost` and `MaxAttempts` are settings of the code.
Tasks of one capability, commands and requests are interchangeable, so safety runs
of one kind of actor use symmetry; runs with liveness do not.

## 5. Fairness

`TaskDispatch`: `ThreadStep` and `Boot` are weakly fair: code under way goes on, and a node is
started again. Launches, workers, brokers, commands and the tidying up of a run
are strongly fair, because other handlers disable them for the length of one
stretch only: a worker and a command have deadlines (`timeoutMs`, the command
runner's time limit) after which they are killed, the guardrail's model call has one
too, and the event loop is first in, first out. The expiry sweep runs on a timer.
Nothing is assumed of persons, of a worker's wish for a further command, of a lease's
expiry, or of crashes, which the bound ends.

`WorkSupervisor`: the same for code under way and the boot; a run's deadline and
its end, and the two steps of a shutdown that began, are strongly fair, since
other stretches come between: the run has a `deadlineMs`, and a drain a
time limit.

`PeerDelegation`: one weakly fair disjunction, `Progress`: as long as the nodes can do
something by themselves (a stretch goes on, a pass is due, an attempt is answered
or failed, a worker ends) one of these things happens. It holds nobody to a
hand-over, a stop, the end of a pairing, a loss, a crash, or a capability that becomes
usable, and fixes no order. The number of these is bounded, so `Progress` goes on
until nothing is left to do.

`Automation`: a tick's code goes on, ticks come (the service's interval), a node
is started again, and matching is strongly fair: a signal that waits for its
backoff is not due on every tick (`NotDue`), but every backoff ends.

## 6. Findings

1. **A late stop is never confirmed** (`late_stop`, `StopIsConfirmed`). Between a
   run's report and the end of its tidying up the dispatcher still holds the task, so
   the stop of an uncertain task is left to a run that will not settle again
   (`apps/runtime/src/task-dispatch.ts:492` against the comment at `:488`).
2. **A background request closed and never reported** (`unreported`,
   `UnreportedStaysOpen`). The recovery closes the row before it tells the
   conversation; a failure after that, or a crash, is not found by the next boot
   (`apps/runtime/src/work-recovery.ts:101` against `:114`, "Left open; the next
   boot tries again").
3. **Taken for refused, and running** (`refused`, `RefusedWasNotActedOn`). When a
   pairing ends, what is owed is given up on as refused, a hand-over included that was
   sent and only not answered (`apps/runtime/src/peer-transport.ts:764` against
   `:136` and `delegation.ts:381`).
4. **Two runs of one capability collide** (`collide`, `ExclusiveCapability`). A run
   takes the lease of its capability for fifteen minutes
   (`apps/runtime/src/task-dispatch.ts:393`); nothing renews it, no code bounds the
   run by it, and the fencing check (`mayActUnderLease`) has no caller. Once it has
   lapsed the next run reclaims it and both run, against `README.md:74`, "a lease
   per capability with fencing so two runs of the same capability cannot collide".
   `LeaseIsKept` says what does hold.

Observed while modelling, without a run of their own:

* An answer given while the run is still to report leaves the settlement to the
  report; if the process dies first the boot does not look at uncertain tasks
  (`packages/core/src/effect-reconciliation.ts:103`).
* A stop does not reach a command that waits for the guardrail: it goes on after its
  wait and starts (`apps/runtime/src/task-dispatch.ts:1356`). `EndedTaskIsQuiet`
  still holds: the run ends only after it.
* The owner of the executing node may stop a task that was handed over
  (`apps/runtime/src/routes/control.ts:176`); when nothing holds it, no result
  goes back, and home waits (`docs/system-architecture.md:293` has every outcome
  return). `settles` leaves this out (`OwnerMayStop`).
* A crash between the dispatch of an automation's task and its hand-over makes the
  task uncertain at boot and the run read as started: the work is not done, although
  the service is said to do the rest on its first tick
  (`docs/system-architecture.md:285`). `StartedIsHandedOver` leaves these runs out
  (`cut`).
* Pausing a request while its task is parked leaves the task in
  `waiting_capability`: only the service would move it, and its run has failed.
* A crash between `cancel.requested` and `cancel.confirmed` of a task that no node was
  chosen for yet leaves it `cancel_requested`: the recovery looks at the tasks of its
  own node only (`apps/runtime/src/work-recovery.ts:180`).
  `EveryOpenTaskHasAnOwner` excepts these tasks, and only these.
* The sweep applies `run.approval_expired` to a task whose approval lapsed on every
  tick for a day, since the approval's row stays pending; on all but the first it is
  refused and ignored (`apps/runtime/src/expiry-notices.ts:109`).
* A reminder whose line or notice cannot be written is marked as made all the same
  (`apps/runtime/src/automation-service.ts:161`, `:269`): it is not tried again.

## 7. Proofs

Tasks, capabilities, commands, requests and keys may be any sets, finite or not,
and every bound any natural number: the proofs need the named assumptions of
the modules only.

### `TaskDispatchProofs`

* `TypeCorrect == Spec => []TypeOK`. `TypeOK` is inductive. The part that takes
  work is the type of `thread`: which continuation may follow which step
  (`ThreadFields`, `StepType`), since a step read from `thread.then` becomes the
  event that is applied next. `SettleType` gives the type of what a settlement
  writes, and each action has one step.
* `OneOpenAttemptHolds == Spec => []OneOpenAttempt`. The property is not inductive:
  a lost command sets its entry to `unknown`, and if the entry could already say
  `confirmed` a later attempt might be open beside it; likewise a boot calls handed-off
  entries unknown, which is harmless only when none of their commands runs.
  `LedgerInv` adds `LiveIsHandedOff` (a running command's entry says `submitted`)
  and `BootIsQuiet` (no command runs while a node is down or recovering).
  `ClosingKeepsLedgerInv` covers every step that only closes entries or turns
  `submitted` into `unknown`; `CommandOpens` is the one step that opens an entry,
  and there `LedgerAllows` gives the conclusion. `BootStaysQuiet` needs that only
  a boot hands the thread a boot's work (`ThreadStepIsNoBoot`).

### `TaskOwnerProofs`

The other invariants of `TaskDispatch` speak of moments between two handlers, of
tasks that ended, or of runs that did not crash, and none is inductive: in the middle
of a handler the row, the run and the approval disagree, and what will bring them
together is the continuation in `thread`. `OwnerInv` says so for every moment. It
is `TypeOK`, `ThreadShape` (which step of the thread follows which, and that a
node that is down has none), `PoolInv` (distinct jobs, each without a run, and
the one job too many that a `pump` is about to take), and for each task
`TaskSound`, in seven parts:

* `Continues`: what each continuation of the thread may rely on, for
  instance that an event about to be applied finds the task in a state that takes it.
* `Owned`: what has a run or a job is a task that was started and has not ended,
  commands belong to a worker, and a boot finds neither run nor job.
* `Accounted`: what the ledger says of the task's state.
* `UnderWay`: what reads as under way has a job, a run, a step of the thread or,
  where a node was chosen for it, the next boot that will settle it (a stop cut
  before that is `StopForgotten`), and a run that is to stop was told.
* `Parked`: a question has a parked task and a parked task its question.
* `Unapproved`: what is a question, or was refused, neither waits nor runs.
* `Settled`: while nothing crashed, a task with an answer is no longer uncertain, or
  its run has still to report, or an effect is still open.

`SoundKept` and `PoolKept` have one lemma per action. `OwnerSound == Spec => []OwnerInv`
gives `EventsLegal`, `OpenTasksOwned`, `EndsQuietly`, `ParkedAnswerable`,
`RefusedRunsNothing`, `AnswersSettle`, `SuccessEarned` and `PoolSound`, one for each
invariant of the runs `pool`, `ledger` and `liveness` that `TaskDispatchProofs` leaves. The
assumptions are those on the constants; `MaxCrashes` may be any number.

`LeaseKeptHolds == Spec => LeaseIsKept` is the action property of leases. It needs
of `OwnerInv` that a run under way is no longer in the queue, so that no job of its own
task can take or free its lease, and the types; each action then either leaves
the lease rows alone, frees a row its own task holds, or takes one that is free or
whose time is up. It says nothing of a run whose time is up: that it goes on beside
the next one is finding 4.

### `TaskPromiseProofs`

`TaskPromiseHolds == Spec => TaskPromiseKept`, from the same assumptions, without a
hypothesis. `Turn` states the steps of the promise about one task as a relation
between its three facts before and after. `WorkShown` gives the mapping in the
terms of `OwnerInv` at both ends of a step. Each action has a lemma that says
that one task takes a `Turn` and the others stay as they are (`Same`), or, for a
crash, that each is cut or stays (`IsCut`); `StepPromised` combines them, and
`TurnPromised` and `CutPromised` turn them into the promise's own actions. One more
invariant is needed: `EvidenceInv`, work that is not over has no evidence.
Otherwise a crash could leave a cut run beside verified evidence, and the task would
read as proved.

### `WorkSupervisorProofs`

From `WorksAssumption` and `BoundsAssumption`. `WorkInv` is `TypeOK` and

* `StretchInv`: the type of `thread` and what is known of its caller at each step;
  a node that is down has an empty lane.
* `LaneInv`: what the rows say of the lane, what a recovery has still to look
  at, what a drain leaves, and what a submission, a settlement and a
  recovery know of their request.
* `TellInv`: a request whose end was told has ended, or is being settled, and
  is in none of the steps that could tell another end; this is what makes
  `ToldOnce` inductive.
* `KeptInv`: a request that was accepted and not told is in the lane, in the
  thread, or an open row that a drain, a boot or the next boot will find.
* `ClaimInv`: a claim by Try again is of a request that is over, and its new run was
  accepted or is being submitted.
* `RerunInv`: a request starts once for its submission and once per re-run.

`WorkSound == Spec => []WorkInv` has one lemma per part and one step per action.
From it follow `WorkTypes`, `LaneSound`, `ToldOnceHolds`, `NothingLost`,
`StopsStand`, `RetriesBacked`, `RerunsBounded` and the action property
`StartsOrderly`. `ToldOnce`, `NothingIsLost`, `StopStands` and `RetryIsBacked` leave
out the requests of `cut`, which a crash or a failed line hit between two writes
(the second finding is one such gap); `RerunIsBounded` does not. `StopsStand` is
about requests that were told as stopped or as taken off the queue: one told as
interrupted is meant to run again.

`OwnerInv`, `EvidenceInv` and the parts of `WorkInv` were
checked by TLC on the instances of the runs before they were proved.

### `QueueLemmas`

`EmptyQueue`, `QueueFront`, `QueueJoins`, `QueueLoses` and `QueueMoves`: what a queue
contains, and that it stays without repetition, when it loses its head, gets one
more, or loses one in the middle. Both the dispatcher's and the supervisor's proofs
rest on them.

### `AutomationProofs`

From `BoundsAssumption`.

* `TypeCorrect == Spec => []TypeOK`, from `TypeInv`: `TypeOK`, and what
  `thread.todo` and `thread.run` may be at each step of a tick. A signal that
  fails its last attempt is dead, which keeps `tries` below `MaxAttempts`.
* `StartsOnceHolds` and `ReminderIsMadeHolds`, from `RunInv`: what the run and
  the task of a row are at each step of the preparation, that a run
  which is pending or failed was never started, and which of line and notice a
  reminder under way has already. The property alone says nothing of a task
  between `dispatched` and the hand-over, which is where a second start would
  come from.
* `OnlyActiveActsHolds`: an action property, from the part of `RunInv` that says
  that the stretch which says or starts something looked at the request in this
  same stretch, so that no pause can have come between.
* `StartedIsHandedOverHolds`, from `HandInv`: a started run was handed over, is
  about to be in this stretch, was stopped, or was cut there.
* `NoBurstHolds`, from `FiredInv`: a request that fired since the clock last moved
  has its next slot ahead of the clock. `FirstFireAhead` is the lemma about
  `FirstFire`.

### `PeerDelegationProofs`

From `BoundsAssumption`.

* `TypeCorrect == Spec => []TypeOK`, from `LinkType` and `TriesFit`. `LinkType` says
  that the outboxes are sequences of rows whose sequences are bounded
  (`RowsType`), that every number that names a row names one (`References`), and
  what a stretch of code that is to send something knows (`Intends`). An outbox
  changes in three ways only (`OutStep`): rows are marked, a message is appended
  beyond all sequences, or a skip in the slot of the last row it covers.
  `TriesFit` is the reason for the bound on tries: a row still owed can be tried
  once more unless it is being tried, and a crash cuts one attempt short.
* `RunsOnceHolds`, from `StartInv`: a task that is none, queued, resolving or
  parked was never started and is not about to be, one in `starting` was not
  started either, and a stretch finds its task as it left it.
* `OwedIsDeliverableHolds`, from `OwedInv`: in an outbox no two messages share a
  sequence, and every row that was sent, and every skip, is before each message
  still owed (`Ordered`); what is on the wire or handled was sent (`SentInv`). So
  the row a cursor moves to is before everything owed, or is the owed row
  itself, which then is in the inbox.

### `HandOverProofs`

From the same assumption and `~ PairingMayEnd`: once a pairing may end the
code gives up on everything as refused, and the run `refused` shows that neither
property holds then. What peer and home say of one task agrees only through
what is under way between them, so the refinement needs five invariants more:

* `HeldInv`: what the dispatcher holds runs or is being stopped, and a boot finds
  it empty. With it, `WorkCases` says what a step may do to the work of a task:
  begin it, go on, end it, or stop what is uncertain, and home's row stays.
* `HandedInv`: there is one hand-over of a task at most, home has a row for
  every hand-over and for all work, and a task the peer refuses has no work.
* `AnswerInv`: an answer, queued or about to be, is the truth (`Truth`), and stays
  so, since work that is over does not change (`WorkStays`).
* `ActedInv`: work the peer has belongs to a hand-over that was sent and that
  its cursor has reached, or is next. So a hand-over found beyond a gap
  (`TurnedForGap`), or never sent, has no work.
* `DroppedInv`: what home takes for turned down or never sent, and a task it
  settled without work, is over for good: no longer owed, no longer on the wire
  (`OverStays`), so no late copy can begin it (`UnsentStaysUndone`).

`RefusedWasNotActedOnHolds` is a part of `DroppedInv`. For `PromiseKeptHolds`,
`Mapped` gives the mapping before and after a step, `WorkPromised`,
`ResultPromised`, `LetterPromised` and `SkipPromised` map each kind of step to
`Begin`, `End`, `Learn`, `CallOff`, `Doubt` or a stutter, and `StepPromised`
combines them.

### What is only model-checked

Every invariant and every action property of a passing run, and both
refinements, are theorems. Liveness is not: `RunsEnd`, `StopLands`,
`AskedTaskMovesOn`, `EveryRequestIsAnswered`, `HandOverIsSettled`, `StopIsSettled`,
`DeadLetterSettles`, `RunIsDecided` and `SignalIsSettled` rest on fairness, and so on
ENABLED, which is outside this prover; TLC checks them. `StopIsConfirmed`,
`UnreportedStaysOpen` and `ExclusiveCapability` are false of the code (section 6).
Two theorems have a hypothesis: `RefusedWasNotActedOnHolds` and `PromiseKeptHolds`
(`~ PairingMayEnd`).

## 8. What is not modelled

* *Of the modelled parts.* Automation: an executor on a peer (`PeerDelegation` is
  that part), conditions of a match, self-generated signals, edits of a schedule,
  the notices about failures, the limits of 100 requests and 50 signals per pass,
  the pollers, and an error in `fireDueTimers` that ends the whole tick.
  Delegation: status and artifact messages, approvals and consent at the peer,
  capability summaries, grants and their budgets, the pairing itself, the
  cryptography of an envelope; peers of an older build, which take no skips
  (`apps/runtime/src/peer-transport.ts:784`) or hear nothing of a task that waits for a
  capability (`delegation.ts:804`): both nodes run this version. A status of 408 or
  429 is no answer of a node's own handlers; a request that a server in between turned
  away with one is taken as lost, where the code tries it again in the same way but,
  if it was the last try, calls it refused (`:666`). A pass reads whether the pairing
  ended once per peer (`:756`), the model before each attempt: the attempts that a
  pass under way still makes after the end are left out. Dispatcher: worktrees, roots
  and the browser are choices. Recovery: leftover processes and conversation commands.
* *Parts on the plan.* Install and package life cycles, package services, the
  product feedback tool.
* *The rest.* Most of the repository's lines are user interfaces, widgets, model
  turns, voice, adapters, packs and tools: they keep no state whose interleaving
  matters to the properties here, or are I/O. The execution policy is a pure
  decision taken as a choice. SQLite is taken as it is used: a transaction is
  atomic and durable.

## 9. Plan

1. *(done)* `TaskMachine`, `TaskDispatch`; `WorkSupervisor`; `PeerDelegation` with
   `HandOverPromise`; `Automation`.
2. *(done)* `TaskPromise`, the abstract task as its owner sees it, implemented by
   `TaskDispatch`; theorems for every safety property of the passing runs.
3. `ResourceLease`: several leases per resource over time with an explicit clock,
   epochs and the fencing check, for the day a run is bound by them (finding 4).
4. A promise for `WorkSupervisor` as the conversation sees it, and one for
   `Automation`: an occurrence that is due is started once or said to have failed.
5. `FeedbackEffects` (`product-feedback.ts` applies `reconcile.*` to uncertain
   tasks), install and package life cycles, service restarts.
