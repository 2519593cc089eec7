---------------------------- MODULE TaskDispatch ----------------------------
(***************************************************************************)
(* One node's dispatched tasks: the rows of its database (tasks, approvals,*)
(* effects, capability leases), the dispatcher that runs them in a bounded *)
(* pool of worker processes (apps/runtime/src/task-dispatch.ts), the broker*)
(* that writes a worker's outside commands into the effect ledger          *)
(* (worker-command-broker.ts), the person's stop, approval and answer, the *)
(* expiry and lease sweeps, and a crash followed by boot recovery          *)
(* (work-recovery.ts).                                                     *)
(*                                                                         *)
(* The runtime is one JavaScript thread.  Code between two awaits cannot be*)
(* interleaved, but it writes in several transactions and the process can  *)
(* die between them.  The variable thread holds what such a stretch of code*)
(* still has to do: while it is not Idle no other handler runs, and the    *)
(* only other step is Crash.                                               *)
(***************************************************************************)
EXTENDS TaskMachine, Naturals, Sequences, FiniteSets

CONSTANTS
  Tasks,            \* tasks the node may be asked for
  NoTask,           \* no task at all
  Capability,       \* capabilities a worker can run under
  CapabilityOf,     \* the capability chosen for each task
  AskedAbout,       \* capabilities the policy may ask a person about
  Operations,       \* digests of commands that reach outside the node
  NoOperation,      \* the digest of a ledger slot not yet used
  MaxEffects,       \* bound: ledger entries per task
  MaxAsked,         \* bound: requests for one command being decided at once
  MaxConcurrent,    \* maxConcurrent of the dispatcher
  MaxQueued,        \* maxQueued of the dispatcher
  MaxCrashes,       \* bound: crashes of the process
  WriteFailures     \* the write that settles an effect may fail

ASSUME TasksAssumption == NoTask \notin Tasks
ASSUME CapabilityAssumption ==
  CapabilityOf \in [Tasks -> Capability] /\ AskedAbout \subseteq Capability
ASSUME OperationsAssumption == NoOperation \notin Operations
ASSUME BoundsAssumption ==
  /\ MaxEffects \in Nat
  /\ MaxAsked \in Nat
  /\ MaxConcurrent \in Nat \ {0}
  /\ MaxQueued \in Nat
  /\ MaxCrashes \in Nat
ASSUME FlagsAssumption == WriteFailures \in BOOLEAN

VARIABLES
  \* rows of the database: they survive a crash
  task,        \* state of each task, "absent" before it is created
  placed,      \* tasks a node was chosen for: execution_node_id is this node
  doubt,       \* how a task last became uncertain
  evidence,    \* verdict of the newest evidence.recorded of each task
  effect,      \* ledger: state of each entry, "none" while unused
  operation,   \* ledger: digest of each entry
  answered,    \* ledger entries a person answered for (effect.reconciled)
  approval,    \* decision of the newest approval row of each task
  age,         \* where the approval's deadline lies
  lease,       \* per capability, the task holding the unreleased lease row
  lapsed,      \* that row is past its expires_at
  \* memory of the process: lost in a crash
  queue,       \* jobs waiting for a place in the pool
  phase,       \* where each run of the pool is
  stopping,    \* tasks whose run was asked to stop
  asked,       \* per command, the worker's requests still being decided
  live,        \* ledger entries whose command is still running
  closing,     \* the node is shutting down
  thread,      \* what the current stretch of code still has to do
  up,          \* the process runs
  crashes      \* number of crashes so far

taskRows  == <<task, placed, doubt, evidence>>
ledger    == <<effect, operation, answered>>
approvals == <<approval, age>>
leases    == <<lease, lapsed>>
process   == <<up, closing, crashes>>
commands  == <<asked, live>>
pool      == <<queue, phase, stopping, commands>>
vars == <<taskRows, ledger, approvals, leases, pool, process, thread>>

Slots == 1..MaxEffects
\* A run that has not reported yet, and all the phases of one.
Unreported == {"launching", "dropping", "working", "ending"}
Phase == Unreported \cup {"idle", "settled", "leaving"}
Verdict == {"verified", "not_verified"}

\* Steps of the thread about no task in particular, about a task, and about a
\* task with another step about it to follow.
AfterStep == {"return", "pump", "splice"}
NodeStep == AfterStep \cup {"interrupt_tasks"}
FirstStep == {"resolve.start", "retire_approvals"}
LastStep == (TaskEvent \cup {"dispatch", "request_approval", "stop_run"})
              \ FirstStep
-----------------------------------------------------------------------------
Idle == [at |-> "return", task |-> NoTask, then |-> "return"]

\* The thread goes on with a step about t, and afterwards with another.
Do(step, t, then) == [at |-> step, task |-> t, then |-> then]

\* The thread goes on with a step that is about no task in particular.
Resume(step) == [at |-> step, task |-> NoTask, then |-> "return"]

\* A handler may start: the process runs and is between two handlers.
Ready == up /\ thread = Idle

Running == {t \in Tasks : phase[t] # "idle"}
InQueue(t) == \E i \in 1..Len(queue) : queue[i] = t

\* Mutant of Holds: only the queue is looked at.
HoldsQueuedOnly(t) == InQueue(t)

\* The dispatcher has a run or a job of the task.
Holds(t) == phase[t] # "idle" \/ InQueue(t)

\* Mutant of ReportPending: a run still counts while it tidies up.
ReportPendingUntilGone(t) == phase[t] # "idle" \/ InQueue(t)

\* A run or a job of the task is still to settle it.
ReportPending(t) == phase[t] \in Unreported \/ InQueue(t)

\* Mutant of UnsettledSlots: an effect still handed off blocks nothing.
UnknownSlots(t) == {k \in Slots : effect[t][k] = "unknown"}

UnsettledSlots(t) == {k \in Slots : effect[t][k] \in Unsettled}

\* settlementPlan: where a task goes when effects eff, of which the entries
\* ans were answered for, are all it has, and ev is its newest evidence.
SettledState(t, eff, ans, ev) ==
  IF \/ task[t] # "uncertain"
     \/ \E k \in Slots : eff[k] \in Unsettled
     \/ doubt[t] \notin {"effect", "stopping"}
     \/ ans = {}
  THEN task[t]
  ELSE IF doubt[t] = "stopping" THEN "cancelled"
  ELSE IF \E k \in ans : eff[k] = "failed" THEN "failed"
  ELSE IF ev = "verified" THEN "succeeded" ELSE "failed"

\* The doubt effect.unknown leaves when it is applied in the task's state.
DoubtOfUnknown(t) ==
  IF task[t] = "cancel_requested" THEN "stopping" ELSE "effect"

\* settleDispatchedTask, up to the verdict: report is what the run (or the
\* refusal of a run) hands in, and next what the thread does afterwards.
Settle(t, report, next) ==
  LET recorded == IF report = "none" \/ task[t] \in TerminalTaskState
                  THEN evidence[t] ELSE report
      blocked  == report # "none" /\ UnsettledSlots(t) # {}
      verdict  == IF report = "verified" THEN "verify.passed"
                                         ELSE "verify.failed"
      undone   == task[t] = "cancel_requested" /\ (report = "verified" \/ blocked)
  IN /\ evidence' = [evidence EXCEPT ![t] = recorded]
     /\ doubt' = [doubt EXCEPT ![t] = IF undone THEN "stopping" ELSE @]
     /\ task' = [task EXCEPT ![t] =
                   CASE @ = "cancel_requested" ->
                          IF undone THEN "uncertain" ELSE "cancelled"
                     [] @ = "uncertain" /\ ~blocked ->
                          SettledState(t, effect[t], answered[t], recorded)
                     [] @ = "running"           -> "verifying"
                     [] OTHER                   -> @]
     /\ UNCHANGED placed
     /\ thread' = IF ~blocked /\ (\/ task[t] = "running"
                                  \/ task[t] = "verifying" /\ report # "none")
                  THEN Do(verdict, t, next) ELSE Resume(next)

\* refuse: the job ends without a worker's evidence.
Refuse(t, next) == Settle(t, "not_verified", next)

\* Mutant of FreeLease: the row is released whoever holds it.
FreeLeaseOfAnyone(t) ==
  /\ lease' = [lease EXCEPT ![CapabilityOf[t]] = NoTask]
  /\ lapsed' = [lapsed EXCEPT ![CapabilityOf[t]] = FALSE]

\* releaseLease: only the unreleased row of this holder is released.
FreeLease(t) ==
  LET c == CapabilityOf[t]
  IN IF lease[c] = t
     THEN /\ lease' = [lease EXCEPT ![c] = NoTask]
          /\ lapsed' = [lapsed EXCEPT ![c] = FALSE]
     ELSE UNCHANGED leases
-----------------------------------------------------------------------------
Init ==
  /\ task = [t \in Tasks |-> "absent"]
  /\ placed = {}
  /\ doubt = [t \in Tasks |-> "none"]
  /\ evidence = [t \in Tasks |-> "none"]
  /\ effect = [t \in Tasks |-> [k \in Slots |-> "none"]]
  /\ operation = [t \in Tasks |-> [k \in Slots |-> NoOperation]]
  /\ answered = [t \in Tasks |-> {}]
  /\ approval = [t \in Tasks |-> "none"]
  /\ age = [t \in Tasks |-> "fresh"]
  /\ lease = [c \in Capability |-> NoTask]
  /\ lapsed = [c \in Capability |-> FALSE]
  /\ queue = << >>
  /\ phase = [t \in Tasks |-> "idle"]
  /\ stopping = {}
  /\ asked = [t \in Tasks |-> [o \in Operations |-> 0]]
  /\ live = [t \in Tasks |-> {}]
  /\ closing = FALSE
  /\ thread = Idle
  /\ up = TRUE
  /\ crashes = 0
-----------------------------------------------------------------------------
(* Taking a task on.                                                       *)

\* A message, a tool call or an automation creates a task; whether a
\* capability of this node can run it was found out before.
Submit(t) ==
  /\ Ready
  /\ task[t] = "absent"
  /\ task' = [task EXCEPT ![t] = "queued"]
  /\ \E next \in {"resolve.ready", "resolve.need_capability",
                  "resolve.failed"} :
       thread' = Do("resolve.start", t, next)
  /\ UNCHANGED <<placed, doubt, evidence, ledger, approvals, leases, pool, process>>

\* resumeCapabilityWaiters: a capability the task waits for can be used.
CapabilityBecomesReady(t) ==
  /\ Ready
  /\ Legal(task[t], "capability.ready")
  /\ task' = [task EXCEPT ![t] = Target("capability.ready")]
  /\ thread' = Do("resolve.start", t, "resolve.ready")
  /\ UNCHANGED <<placed, doubt, evidence, ledger, approvals, leases, pool, process>>

\* What the thread does after it applied an event.
AfterEvent ==
  CASE thread.at = "resolve.start"
         -> Do(thread.then, thread.task, "return")
    [] thread.at \in {"resolve.ready", "run.approval_granted"}
         -> Do("dispatch.acknowledged", thread.task, "return")
    [] thread.at = "dispatch.acknowledged"
         -> Do("dispatch", thread.task, "return")
    [] OTHER -> Resume(thread.then)

\* applyTaskEvent, in the middle of a handler.  resolve.ready also writes the
\* node that is to execute the task.
ApplyTaskEvent ==
  /\ up
  /\ thread.at \in TaskEvent
  /\ Legal(task[thread.task], thread.at)
  /\ task' = [task EXCEPT ![thread.task] = Target(thread.at)]
  /\ placed' = IF thread.at = "resolve.ready" THEN placed \cup {thread.task}
                                              ELSE placed
  /\ thread' = AfterEvent
  /\ UNCHANGED <<doubt, evidence, ledger, approvals, leases, pool, process>>

\* Mutant of PoolIsFull: one job too many is queued.
PoolIsOverfull ==
  Cardinality(Running) >= MaxConcurrent /\ Len(queue) > MaxQueued

\* Every place of the pool and of the queue is taken.
PoolIsFull ==
  Cardinality(Running) >= MaxConcurrent /\ Len(queue) >= MaxQueued

\* dispatcher.dispatch: refused when closing or when pool and queue are full.
Dispatch ==
  /\ up
  /\ thread.at = "dispatch"
  /\ IF closing \/ PoolIsFull
     THEN /\ Refuse(thread.task, "return")
          /\ UNCHANGED queue
     ELSE /\ queue' = Append(queue, thread.task)
          /\ thread' = Resume("pump")
          /\ UNCHANGED taskRows
  /\ UNCHANGED <<phase, stopping, commands, ledger, approvals, leases, process>>

\* pump with nothing to start.
PumpRests ==
  /\ up
  /\ thread.at = "pump"
  /\ queue = << >> \/ Cardinality(Running) >= MaxConcurrent
  /\ thread' = Idle
  /\ UNCHANGED <<taskRows, ledger, approvals, leases, pool, process>>

\* A job may become a run: its task has not ended or been stopped while it
\* waited, and acquireLease gives it the capability.
Admissible(t) ==
  /\ task[t] \notin TerminalTaskState
  /\ task[t] # "cancel_requested"
  /\ lease[CapabilityOf[t]] = NoTask \/ lapsed[CapabilityOf[t]]

\* pump and runOne up to the first await.  A job whose task was stopped in
\* the meantime, whose capability is leased, or whose folders or sites are not
\* allowed (found out once the lease is held), is refused; any other becomes a
\* run that holds the lease.
PumpStarts ==
  /\ up
  /\ thread.at = "pump"
  /\ queue # << >>
  /\ Cardinality(Running) < MaxConcurrent
  /\ queue' = Tail(queue)
  /\ LET t == Head(queue)
         c == CapabilityOf[t]
     IN /\ \/ /\ Admissible(t)
              /\ lease' = [lease EXCEPT ![c] = t]
              /\ phase' = [phase EXCEPT ![t] = "launching"]
              /\ UNCHANGED <<taskRows, thread>>
           \/ /\ lease' = [lease EXCEPT ![c] = IF Admissible(t) THEN NoTask ELSE @]
              /\ Refuse(t, "pump")
              /\ UNCHANGED phase
        /\ lapsed' = [lapsed EXCEPT ![c] = @ /\ ~Admissible(t)]
  /\ UNCHANGED <<stopping, commands, ledger, approvals, process>>
-----------------------------------------------------------------------------
(* A run of the pool, from one await to the next.                          *)

\* A run that ends before its worker was started: the lease is freed, the
\* job leaves the pool and the pool is pumped.
EndsUnstarted(t) ==
  /\ phase' = [phase EXCEPT ![t] = "idle"]
  /\ stopping' = stopping \ {t}
  /\ FreeLease(t)

\* No model, a plan that is not allowed, a policy that denies, no browser:
\* refused.
LaunchRefused(t) ==
  /\ Ready
  /\ phase[t] = "launching"
  /\ EndsUnstarted(t)
  /\ Refuse(t, "pump")
  /\ UNCHANGED <<queue, commands, ledger, approvals, process>>

\* A worktree could not be made: the lease is freed first, and the worktrees
\* made before it are taken away.
LaunchDrops(t) ==
  /\ Ready
  /\ phase[t] = "launching"
  /\ phase' = [phase EXCEPT ![t] = "dropping"]
  /\ FreeLease(t)
  /\ UNCHANGED <<queue, stopping, commands, taskRows, ledger, approvals, process,
                 thread>>

\* They are gone: refused.
DroppedRunRefused(t) ==
  /\ Ready
  /\ phase[t] = "dropping"
  /\ phase' = [phase EXCEPT ![t] = "idle"]
  /\ stopping' = stopping \ {t}
  /\ Refuse(t, "pump")
  /\ UNCHANGED <<queue, commands, ledger, approvals, leases, process>>

\* A goal its model may not be sent, or a worker that could not be started:
\* refused with the lease held; the run tidies up like one that had a worker.
LaunchFails(t) ==
  /\ Ready
  /\ phase[t] = "launching"
  /\ phase' = [phase EXCEPT ![t] = "settled"]
  /\ Refuse(t, "return")
  /\ UNCHANGED <<queue, stopping, commands, ledger, approvals, leases, process>>

\* Mutant of Authorized: the grant a job carries is not looked at.
AuthorizedByNobody(t) == FALSE

\* authorizingGrant: the person already approved this operation.
Authorized(t) == approval[t] = "granted"

\* The policy asks, and no grant authorizes this operation: the task is
\* parked and its approval requested, in that order.  A task stopped in the
\* meantime cannot be parked: its stop is confirmed by a refusal instead.
LaunchAsks(t) ==
  /\ Ready
  /\ phase[t] = "launching"
  /\ CapabilityOf[t] \in AskedAbout
  /\ ~Authorized(t)
  /\ EndsUnstarted(t)
  /\ IF Legal(task[t], "run.needs_approval")
     THEN /\ task' = [task EXCEPT ![t] = Target("run.needs_approval")]
          /\ thread' = Do("request_approval", t, "pump")
          /\ UNCHANGED <<placed, doubt, evidence>>
     ELSE IF task[t] = "cancel_requested"
          THEN Refuse(t, "pump")
          ELSE thread' = Resume("pump") /\ UNCHANGED taskRows
  /\ UNCHANGED <<queue, commands, ledger, approvals, process>>

RequestApproval ==
  /\ up
  /\ thread.at = "request_approval"
  /\ approval' = [approval EXCEPT ![thread.task] = "pending"]
  /\ age' = [age EXCEPT ![thread.task] = "fresh"]
  /\ thread' = Resume(thread.then)
  /\ UNCHANGED <<taskRows, ledger, leases, pool, process>>

\* The policy lets the run on: worktrees, brokers, and the worker process.
LaunchStartsWorker(t) ==
  /\ Ready
  /\ phase[t] = "launching"
  /\ phase' = [phase EXCEPT ![t] = "working"]
  /\ UNCHANGED <<queue, stopping, commands, taskRows, ledger, approvals, leases,
                 process, thread>>

\* The worker asks for a command that reaches outside; one that was told to
\* stop may still ask until it is gone.
CommandAsked(t, o) ==
  /\ Ready
  /\ phase[t] = "working"
  /\ asked[t][o] < MaxAsked
  /\ asked' = [asked EXCEPT ![t][o] = @ + 1]
  /\ UNCHANGED <<live, queue, phase, stopping, taskRows, ledger, approvals,
                 leases, process, thread>>

\* The broker's decision, which waited for the guardrail, has come: the request
\* leaves the ones being decided.
Decided(t, o) ==
  /\ Ready
  /\ asked[t][o] > 0
  /\ asked' = [asked EXCEPT ![t][o] = @ - 1]

\* The policy, the guardrail or the ledger says no; the worker is told.
CommandRefused(t, o) ==
  /\ Decided(t, o)
  /\ UNCHANGED <<live, queue, phase, stopping, taskRows, ledger, approvals,
                 leases, process, thread>>

\* Mutant of LedgerAllows: a command still under way may be started again.
LedgerAllowsRepeat(t, o) == \A k \in Slots : effect[t][k] # "unknown"

\* ledgerRefusal has nothing against the command.
LedgerAllows(t, o) ==
  \A k \in Slots :
    /\ effect[t][k] # "unknown"
    /\ effect[t][k] = "submitted" => operation[t][k] # o

\* The command is allowed: openCommandEffect writes it as handed off, in the
\* next entry of the ledger, and it starts.
CommandOpens(t, o) ==
  /\ Decided(t, o)
  /\ ~closing
  /\ LedgerAllows(t, o)
  /\ \E k \in Slots :
       /\ effect[t][k] = "none"
       /\ \A j \in Slots : effect[t][j] = "none" => k <= j
       /\ effect' = [effect EXCEPT ![t][k] = "submitted"]
       /\ operation' = [operation EXCEPT ![t][k] = o]
       /\ live' = [live EXCEPT ![t] = @ \cup {k}]
  /\ UNCHANGED <<answered, queue, phase, stopping, taskRows, approvals, leases,
                 process, thread>>

\* The command exits: settleCommandEffect records that it took effect or not.
CommandExits(t, k, outcome) ==
  /\ Ready
  /\ k \in live[t]
  /\ CanTransitionEffect(effect[t][k], outcome)
  /\ outcome \in {"confirmed", "failed"}
  /\ effect' = [effect EXCEPT ![t][k] = outcome]
  /\ live' = [live EXCEPT ![t] = @ \ {k}]
  /\ UNCHANGED <<taskRows, operation, answered, queue, phase, stopping, asked,
                 approvals, leases, process, thread>>

\* The command was stopped, ran out of time or has no status: its effect is
\* unknown, in one transaction with effect.unknown on the task when that is
\* legal (markEffectUnknown), and by itself when it is not.
CommandLost(t, k) ==
  /\ Ready
  /\ k \in live[t]
  /\ effect' = [effect EXCEPT ![t][k] = "unknown"]
  /\ live' = [live EXCEPT ![t] = @ \ {k}]
  /\ IF Legal(task[t], "effect.unknown")
     THEN /\ task' = [task EXCEPT ![t] = Target("effect.unknown")]
          /\ doubt' = [doubt EXCEPT ![t] = DoubtOfUnknown(t)]
     ELSE UNCHANGED <<task, doubt>>
  /\ UNCHANGED <<placed, evidence, operation, answered, queue, phase, stopping, asked,
                 approvals, leases, process, thread>>

\* settleCommandEffect could not write: the entry stays handed off.
SettlementNotWritten(t, k) ==
  /\ Ready
  /\ WriteFailures
  /\ k \in live[t]
  /\ live' = [live EXCEPT ![t] = @ \ {k}]
  /\ UNCHANGED <<queue, phase, stopping, asked, taskRows, ledger, approvals, leases,
                 process, thread>>

\* The worker has exited: it is done, was stopped, or ran out of time.
WorkerEnds(t) ==
  /\ Ready
  /\ phase[t] = "working"
  /\ phase' = [phase EXCEPT ![t] = "ending"]
  /\ UNCHANGED <<queue, stopping, commands, taskRows, ledger, approvals, leases,
                 process, thread>>

\* Mutant of RunReports: a run that was stopped ends without settling its task.
RunReportsUnlessStopped(t, report) ==
  /\ Ready
  /\ phase[t] = "ending"
  /\ live[t] = {}
  /\ \A o \in Operations : asked[t][o] = 0
  /\ phase' = [phase EXCEPT ![t] = "settled"]
  /\ IF t \in stopping THEN UNCHANGED <<taskRows, thread>>
                       ELSE Settle(t, report, "return")
  /\ UNCHANGED <<queue, stopping, commands, ledger, approvals, leases, process>>

\* The worker is gone and its broker idle: the run reports.  A run that was
\* stopped is refused whatever it found; so is one out of time or of tokens.
RunReports(t, report) ==
  /\ Ready
  /\ phase[t] = "ending"
  /\ live[t] = {}
  /\ \A o \in Operations : asked[t][o] = 0
  /\ t \in stopping => report = "not_verified"
  /\ phase' = [phase EXCEPT ![t] = "settled"]
  /\ Settle(t, report, "return")
  /\ UNCHANGED <<queue, stopping, commands, ledger, approvals, leases, process>>

\* The run's browser is closed; then its lease is freed.
RunFreesLease(t) ==
  /\ Ready
  /\ phase[t] = "settled"
  /\ phase' = [phase EXCEPT ![t] = "leaving"]
  /\ FreeLease(t)
  /\ UNCHANGED <<queue, stopping, commands, taskRows, ledger, approvals, process,
                 thread>>

\* Mutant of RunLeaves: the pool is not pumped.
RunLeavesQuietly(t) ==
  /\ Ready
  /\ phase[t] = "leaving"
  /\ phase' = [phase EXCEPT ![t] = "idle"]
  /\ stopping' = stopping \ {t}
  /\ UNCHANGED <<queue, commands, taskRows, ledger, approvals, leases, process,
                 thread>>

\* Its worktrees are taken away; it leaves the pool, which is pumped.
RunLeaves(t) ==
  /\ Ready
  /\ phase[t] = "leaving"
  /\ phase' = [phase EXCEPT ![t] = "idle"]
  /\ stopping' = stopping \ {t}
  /\ thread' = Resume("pump")
  /\ UNCHANGED <<queue, commands, taskRows, ledger, approvals, leases, process>>
-----------------------------------------------------------------------------
(* What a person does.                                                     *)

\* stopTask: cancel.requested, then the approvals a parked task leaves behind
\* are retired, then the stop is confirmed when nothing runs for the task and
\* handed to the dispatcher when something does.
StopTask(t) ==
  /\ Ready
  /\ Legal(task[t], "cancel.requested")
  /\ task' = [task EXCEPT ![t] = Target("cancel.requested")]
  /\ LET finish == IF Holds(t) THEN "stop_run" ELSE "cancel.confirmed"
     IN thread' = IF task[t] = "waiting_approval"
                  THEN Do("retire_approvals", t, finish)
                  ELSE Do(finish, t, "return")
  /\ UNCHANGED <<placed, doubt, evidence, ledger, approvals, leases, pool, process>>

\* Mutant of RetireApprovals: the approvals are left as they are.
RetireNothing ==
  /\ up
  /\ thread.at = "retire_approvals"
  /\ thread' = Do(thread.then, thread.task, "return")
  /\ UNCHANGED <<approvals, taskRows, ledger, leases, pool, process>>

\* retirePendingTaskApprovals: nobody can decide them any more.
RetireApprovals ==
  /\ up
  /\ thread.at = "retire_approvals"
  /\ approval' = [approval EXCEPT ![thread.task] =
                    IF @ = "pending" THEN "denied" ELSE @]
  /\ thread' = Do(thread.then, thread.task, "return")
  /\ UNCHANGED <<age, taskRows, ledger, leases, pool, process>>

\* The queue without its i-th job: queue.splice(i, 1).
Without(i) == SubSeq(queue, 1, i - 1) \o SubSeq(queue, i + 1, Len(queue))

\* dispatcher.stop: a queued job is refused, a run is told to stop.
StopRun ==
  /\ up
  /\ thread.at = "stop_run"
  /\ LET t == thread.task
     IN IF InQueue(t)
        THEN /\ \E i \in 1..Len(queue) :
                  /\ queue[i] = t /\ \A j \in 1..(i - 1) : queue[j] # t
                  /\ queue' = Without(i)
             /\ Refuse(t, "return")
             /\ UNCHANGED stopping
        ELSE /\ stopping' = IF phase[t] = "idle" THEN stopping
                                                 ELSE stopping \cup {t}
             /\ thread' = Idle
             /\ UNCHANGED <<queue, taskRows>>
  /\ UNCHANGED <<phase, commands, ledger, approvals, leases, process>>

\* stopAll, of an emergency stop or a shutdown: every run is told to stop
\* and every queued job refused, without cancel.requested on any task.
EmergencyStop ==
  /\ Ready
  /\ Running # {} \/ queue # << >>
  /\ stopping' = stopping \cup Running
  /\ thread' = Resume("splice")
  /\ UNCHANGED <<queue, phase, commands, taskRows, ledger, approvals, leases,
                 process>>

\* One queued job after the other is refused.
SpliceQueue ==
  /\ up
  /\ thread.at = "splice"
  /\ IF queue = << >>
     THEN thread' = Idle /\ UNCHANGED <<queue, taskRows>>
     ELSE queue' = Tail(queue) /\ Refuse(Head(queue), "splice")
  /\ UNCHANGED <<phase, stopping, commands, ledger, approvals, leases, process>>

\* Shutdown: no dispatch and no outside command is accepted any more.
NodeCloses ==
  /\ Ready
  /\ ~closing
  /\ closing' = TRUE
  /\ UNCHANGED <<taskRows, ledger, approvals, leases, pool, thread, up, crashes>>

\* Mutant of Decidable: the task is not looked at.
DecidableAtAnyTime(t) == approval[t] = "pending"

\* The approval is still a question, and the task still waits for its answer.
Decidable(t) == task[t] = "waiting_approval" /\ approval[t] = "pending"

\* Mutant of DecisionEvent: an approval past its deadline still counts.
DecisionEventIfLate(decision) ==
  IF decision = "denied" THEN "run.approval_denied" ELSE "run.approval_granted"

\* Mutant of DecisionEvent: the decision is passed on in place of the event.
DecisionItself(decision) == decision

\* What a recorded decision does to the task.
DecisionEvent(decision) ==
  CASE decision = "granted" -> "run.approval_granted"
    [] decision = "denied"  -> "run.approval_denied"
    [] OTHER                -> "run.approval_expired"

\* decideTaskApprovalForNode: the decision and what it does to the task are
\* written one after the other.  A decision past the deadline expires both.
DecideApproval(t, decision) ==
  /\ Ready
  /\ Decidable(t)
  /\ LET recorded == IF age[t] = "fresh" THEN decision ELSE "expired"
     IN /\ approval' = [approval EXCEPT ![t] = recorded]
        /\ thread' = Do(DecisionEvent(recorded), t, "return")
  /\ UNCHANGED <<age, taskRows, ledger, leases, pool, process>>

\* The deadline of a pending approval passes; the sweep looks back a bounded
\* window, and a node that is off for longer leaves it beyond that window.
ApprovalLapses(t) ==
  /\ approval[t] = "pending"
  /\ \/ age[t] = "fresh" /\ age' = [age EXCEPT ![t] = "lapsed"]
     \/ age[t] = "lapsed" /\ ~up /\ age' = [age EXCEPT ![t] = "beyond"]
  /\ thread = Idle
  /\ UNCHANGED <<approval, taskRows, ledger, leases, pool, process, thread>>

\* Mutant of SweepExpiredApproval: the row is settled and the task forgotten.
SweepExpiredApprovalRow(t) ==
  /\ Ready
  /\ ~closing
  /\ approval[t] = "pending"
  /\ age[t] = "lapsed"
  /\ approval' = [approval EXCEPT ![t] = "expired"]
  /\ UNCHANGED <<age, taskRows, ledger, leases, pool, process, thread>>

\* sweepExpiredApprovals applies run.approval_expired whatever the task is, and
\* ignores a refusal; the approval row stays pending, so every later tick
\* applies it again.
SweepExpiredApproval(t) ==
  /\ Ready
  /\ ~closing
  /\ approval[t] = "pending"
  /\ age[t] = "lapsed"
  /\ task' = [task EXCEPT ![t] = IF Legal(@, "run.approval_expired")
                                 THEN Target("run.approval_expired") ELSE @]
  /\ UNCHANGED <<placed, doubt, evidence, ledger, approvals, leases, pool, process,
                 thread>>

\* reconcileEffect: the person says what an unknown effect did.  Unless the
\* run is still to report, the same transaction settles the task when this
\* was the last thing it was uncertain about (settleInTransaction).
ReconcileEffect(t, k, outcome) ==
  /\ Ready
  /\ effect[t][k] = "unknown"
  /\ CanTransitionEffect(effect[t][k], outcome)
  /\ effect' = [effect EXCEPT ![t][k] = outcome]
  /\ answered' = [answered EXCEPT ![t] = @ \cup {k}]
  /\ task' = IF ReportPending(t) THEN task
             ELSE [task EXCEPT ![t] =
                     SettledState(t, effect'[t], answered'[t], evidence[t])]
  /\ UNCHANGED <<placed, doubt, evidence, operation, approvals, leases, pool, process,
                 thread>>
-----------------------------------------------------------------------------
(* Leases, crashes and recovery.                                           *)

\* A lease passes its time-to-live, which is counted from the start of the
\* run: nothing renews it, and nothing ends the run by then.
LeaseLapses(c) ==
  /\ lease[c] # NoTask
  /\ ~lapsed[c]
  /\ thread = Idle
  /\ lapsed' = [lapsed EXCEPT ![c] = TRUE]
  /\ UNCHANGED <<lease, taskRows, ledger, approvals, pool, process, thread>>

\* sweepExpiredLeases
SweepExpiredLease(c) ==
  /\ Ready
  /\ ~closing
  /\ lapsed[c]
  /\ lease' = [lease EXCEPT ![c] = NoTask]
  /\ lapsed' = [lapsed EXCEPT ![c] = FALSE]
  /\ UNCHANGED <<taskRows, ledger, approvals, pool, process, thread>>

\* The process dies, possibly between two transactions of one handler.
Crash ==
  /\ up
  /\ crashes < MaxCrashes
  /\ crashes' = crashes + 1
  /\ up' = FALSE
  /\ closing' = FALSE
  /\ queue' = << >>
  /\ phase' = [t \in Tasks |-> "idle"]
  /\ stopping' = {}
  /\ asked' = [t \in Tasks |-> [o \in Operations |-> 0]]
  /\ live' = [t \in Tasks |-> {}]
  /\ thread' = Idle
  /\ UNCHANGED <<taskRows, ledger, approvals, leases>>

\* The next boot starts recoverUnfinishedWork before anything else.
Boot ==
  /\ ~up
  /\ up' = TRUE
  /\ thread' = Resume("interrupt_tasks")
  /\ UNCHANGED <<closing, crashes, taskRows, ledger, approvals, leases, pool>>

\* Mutant of InterruptedTaskStates: stops are forgotten.
InterruptedButStops == {"dispatched", "running", "pause_requested", "verifying"}

\* What a task that was being executed when the process died can read as.
InterruptedTaskStates ==
  {"dispatched", "running", "pause_requested", "cancel_requested", "verifying"}

\* The tasks of interruptTasks: those of this execution node that read so.
Interrupted(t) == t \in placed /\ task[t] \in InterruptedTaskStates

\* interruptTasks, one task and one transaction at a time.
InterruptTask(t) ==
  /\ up
  /\ thread.at = "interrupt_tasks"
  /\ Interrupted(t)
  /\ LET event == IF task[t] = "dispatched" THEN "dispatch.timed_out"
                                            ELSE "effect.unknown"
     IN /\ task' = [task EXCEPT ![t] = Target(event)]
        /\ doubt' = [doubt EXCEPT ![t] =
                       IF event = "dispatch.timed_out" THEN "timed_out"
                                                       ELSE DoubtOfUnknown(t)]
  /\ UNCHANGED <<placed, evidence, ledger, approvals, leases, pool, process, thread>>

\* markInterruptedEffectsUnknown: what was handed off is not known to have
\* happened.
MarkInterruptedEffectsUnknown ==
  /\ up
  /\ thread.at = "interrupt_tasks"
  /\ \A t \in Tasks : ~Interrupted(t)
  /\ effect' = [t \in Tasks |-> [k \in Slots |->
                  IF effect[t][k] = "submitted" THEN "unknown"
                                                ELSE effect[t][k]]]
  /\ thread' = Idle
  /\ UNCHANGED <<operation, answered, taskRows, approvals, leases, pool,
                 process>>
-----------------------------------------------------------------------------
\* What the current stretch of code does next.
ThreadStep ==
  \/ ApplyTaskEvent
  \/ Dispatch
  \/ PumpRests
  \/ PumpStarts
  \/ RequestApproval
  \/ RetireApprovals
  \/ StopRun
  \/ SpliceQueue
  \/ \E t \in Tasks : InterruptTask(t)
  \/ MarkInterruptedEffectsUnknown

\* What ends by itself: launches, workers, commands and tidying up.
RunStep(t) ==
  \/ LaunchRefused(t)
  \/ LaunchDrops(t)
  \/ DroppedRunRefused(t)
  \/ LaunchFails(t)
  \/ LaunchAsks(t)
  \/ LaunchStartsWorker(t)
  \/ WorkerEnds(t)
  \/ \E report \in Verdict \cup {"none"} : RunReports(t, report)
  \/ RunFreesLease(t)
  \/ RunLeaves(t)

\* What the broker makes of a request.
BrokerStep(t, o) ==
  \/ CommandRefused(t, o)
  \/ CommandOpens(t, o)

\* How a command ends.
CommandStep(t, k) ==
  \/ \E outcome \in {"confirmed", "failed"} : CommandExits(t, k, outcome)
  \/ CommandLost(t, k)
  \/ SettlementNotWritten(t, k)

PersonStep(t) ==
  \/ Submit(t)
  \/ CapabilityBecomesReady(t)
  \/ StopTask(t)
  \/ \E decision \in {"granted", "denied"} : DecideApproval(t, decision)
  \/ \E k \in Slots, outcome \in {"confirmed", "failed"} :
       ReconcileEffect(t, k, outcome)

Next ==
  \/ ThreadStep
  \/ \E t \in Tasks :
       \/ RunStep(t)
       \/ PersonStep(t)
       \/ \E o \in Operations : CommandAsked(t, o) \/ BrokerStep(t, o)
       \/ \E k \in Slots : CommandStep(t, k)
       \/ ApprovalLapses(t)
       \/ SweepExpiredApproval(t)
  \/ \E c \in Capability : LeaseLapses(c) \/ SweepExpiredLease(c)
  \/ EmergencyStop
  \/ NodeCloses
  \/ Crash
  \/ Boot

Spec == Init /\ [][Next]_vars

\* A stretch of code goes on until it is done and a node that died is started
\* again.  A launch, a worker and its tidying up end by themselves: the worker
\* has a deadline (task-dispatch.ts timeoutMs), and so has every command.  A
\* deadline passes, and the sweep that looks for it runs on a timer.  Nothing
\* obliges a person, a worker that could run one more command, or a lease.
Fairness ==
  /\ WF_vars(ThreadStep)
  /\ WF_vars(Boot)
  /\ \A t \in Tasks :
       /\ SF_vars(RunStep(t))
       /\ \A o \in Operations : SF_vars(BrokerStep(t, o))
       /\ \A k \in Slots : SF_vars(CommandStep(t, k))
       /\ SF_vars(ApprovalLapses(t))
       /\ SF_vars(SweepExpiredApproval(t))

FairSpec == Spec /\ Fairness
-----------------------------------------------------------------------------
(* Safety.                                                                 *)

EffectSlot == EffectState \cup {"none"}
Thread == [at : NodeStep, task : {NoTask}, then : {"return"}]
            \cup [at : LastStep, task : Tasks, then : AfterStep]
            \cup [at : FirstStep, task : Tasks, then : LastStep]

\* Every row and every piece of memory has its type.
TypeOK ==
  /\ task \in [Tasks -> TaskState \cup {"absent"}]
  /\ placed \in SUBSET Tasks
  /\ doubt \in [Tasks -> {"none", "effect", "stopping", "timed_out"}]
  /\ evidence \in [Tasks -> Verdict \cup {"none"}]
  /\ effect \in [Tasks -> [Slots -> EffectSlot]]
  /\ operation \in [Tasks -> [Slots -> Operations \cup {NoOperation}]]
  /\ answered \in [Tasks -> SUBSET Slots]
  /\ approval \in [Tasks -> {"none", "pending", "granted", "denied", "expired"}]
  /\ age \in [Tasks -> {"fresh", "lapsed", "beyond"}]
  /\ lease \in [Capability -> Tasks \cup {NoTask}]
  /\ lapsed \in [Capability -> BOOLEAN]
  /\ queue \in Seq(Tasks)
  /\ phase \in [Tasks -> Phase]
  /\ stopping \in SUBSET Tasks
  /\ asked \in [Tasks -> [Operations -> Nat]]
  /\ live \in [Tasks -> SUBSET Slots]
  /\ closing \in BOOLEAN
  /\ thread \in Thread
  /\ up \in BOOLEAN
  /\ crashes \in Nat

\* A task reads succeeded only on verified evidence and with every effect it
\* ever handed off on record as done or not done, whatever interleaving of
\* commands, answers, crashes and failed writes led there.
SuccessIsEarned ==
  \A t \in Tasks :
    task[t] = "succeeded" =>
      evidence[t] = "verified" /\ \A k \in Slots : effect[t][k] \notin Unsettled

\* No handler that read a task and goes on to apply an event to it finds the
\* event refused: what it read before is still so when it writes.  The code
\* leaves most of these refusals unread, so a refused one would be lost without
\* a word.  The expiry sweep is no such handler: it applies its event without
\* reading the task, on every tick, and ignores the refusal on purpose.
EventsAreLegal ==
  thread.at \in TaskEvent => Legal(task[thread.task], thread.at)

\* One command of a task is never under way, or of unknown outcome, twice:
\* two requests for it can wait for the guardrail together, and only one runs.
OneOpenAttempt ==
  \A t \in Tasks : \A j, k \in Slots :
    /\ effect[t][j] \in {"submitted", "unknown"}
    /\ effect[t][k] \in {"submitted", "unknown"}
    /\ operation[t][j] = operation[t][k]
    => j = k

\* A stop of a task no node was chosen for yet, cut by a crash before it was
\* confirmed: interruptTasks looks at the tasks of its own node only, and so
\* leaves it as it is.
StopForgotten(t) ==
  crashes > 0 /\ task[t] = "cancel_requested" /\ t \notin placed

\* Between two handlers of a running node, a task that reads as under way has
\* something that will report on it: a run, a queued job, or an effect whose
\* outcome the next boot asks about.  A stop leaves none behind, and of a crash
\* the boot after it leaves only stops of tasks that were never dispatched.
\* (A stop that comes after the report is StopIsConfirmed, below.)
EveryOpenTaskHasAnOwner ==
  up /\ thread = Idle =>
    \A t \in Tasks :
      /\ task[t] = "running" => ReportPending(t)
      /\ /\ task[t] = "cancel_requested" /\ doubt[t] = "none"
         /\ evidence[t] = "none" /\ ~StopForgotten(t)
         => ReportPending(t)
      /\ task[t] = "verifying" => ReportPending(t) \/ UnsettledSlots(t) # {}
      /\ task[t] # "dispatched"

\* A stop that was not confirmed when it was asked for is confirmed by the
\* settlement of a run: there is one that is still to settle.
StopIsConfirmed ==
  up /\ thread = Idle =>
    \A t \in Tasks : task[t] = "cancel_requested" => ReportPending(t)

\* An ended task is quiet: no worker, no command and no queued job of it is
\* left, so a stop that was confirmed, or a failure reported, is over.
EndedTaskIsQuiet ==
  \A t \in Tasks :
    task[t] \in TerminalTaskState =>
      live[t] = {} /\ ~ReportPending(t)

\* A parked task has a pending approval to answer and, until its deadline, a
\* pending approval has a parked task: neither a stop, nor a decision, nor a
\* run that cannot park leaves one without the other.  A crash between the two
\* writes can, and the boot does not look at parked tasks.
ParkedIsAnswerable ==
  crashes = 0 /\ up /\ thread = Idle =>
    \A t \in Tasks :
      /\ task[t] = "waiting_approval" => approval[t] = "pending"
      /\ approval[t] = "pending" /\ age[t] = "fresh"
           => task[t] = "waiting_approval"

\* Nothing of a task whose approval was denied or expired is queued or run, and
\* no worker runs while its approval is still a question.
RefusedApprovalRunsNothing ==
  \A t \in Tasks :
    /\ approval[t] \in {"denied", "expired"} => ~Holds(t)
    /\ phase[t] \in {"working", "ending"} => approval[t] \in {"none", "granted"}

\* The run of the task was given its capability and has not handed it back.
Uses(t) == phase[t] \in {"launching", "working", "ending", "settled"}

\* Two runs of the same capability cannot collide (README.md:74-75).
ExclusiveCapability ==
  \A t, u \in Tasks :
    CapabilityOf[t] = CapabilityOf[u] /\ Uses(t) /\ Uses(u) => t = u

\* A run that uses its capability is only ever overtaken after the lease's time
\* is up: it starts holding the lease, of nobody or of a holder whose time was
\* up, and until its own time is up no step takes the lease from it - not the
\* end of a run that was overtaken before, a refused job, the sweep or a boot.
LeaseIsKept ==
  [][\A t \in Tasks :
       LET c == CapabilityOf[t] IN
       /\ Uses(t) /\ lease[c] = t /\ ~lapsed[c] /\ Uses(t)' => lease'[c] = t
       /\ ~Uses(t) /\ Uses(t)' =>
            lease'[c] = t /\ ~lapsed'[c] /\ (lease[c] = NoTask \/ lapsed[c])]_vars

\* The pool keeps its bounds, runs a task at most once, and is never idle
\* while a job waits: every way a run ends starts the next one.
PoolIsSound ==
  /\ Cardinality(Running) <= MaxConcurrent
  /\ \A i \in 1..Len(queue) : phase[queue[i]] = "idle"
  /\ \A i, j \in 1..Len(queue) : queue[i] = queue[j] => i = j
  /\ thread = Idle =>
       /\ Len(queue) <= MaxQueued
       /\ queue # << >> => Cardinality(Running) = MaxConcurrent

\* A task is not left uncertain about effects a person has answered for, once
\* no run of it is still to report: the answer, or the report, settled it.  A
\* crash between the two loses the report, and no boot makes up for it.
AnsweredMeansSettled ==
  crashes = 0 /\ up /\ thread = Idle =>
    \A t \in Tasks :
      /\ task[t] = "uncertain"
      /\ doubt[t] \in {"effect", "stopping"}
      /\ answered[t] # {}
      => ReportPending(t) \/ UnsettledSlots(t) # {}
-----------------------------------------------------------------------------
(* The refinement of TaskPromise.                                          *)

Said(t) ==
  CASE task[t] = "absent" -> "none"
    [] task[t] = "cancel_requested" -> "stopping"
    [] task[t] \in TerminalTaskState \cup {"uncertain"} -> task[t]
    [] OTHER -> "open"

\* A worker of the task is there, or a command of it runs.
AtWork(t) == phase[t] \in {"working", "ending"} \/ live[t] # {}

\* The task may still get a worker.
Unbegun(t) ==
  \/ task[t] \in {"absent", "queued", "resolving", "waiting_capability",
                  "waiting_approval", "dispatched"}
  \/ phase[t] \in {"launching", "dropping"} \/ InQueue(t)
  \/ thread.at = "dispatch" /\ thread.task = t

Work(t) ==
  IF AtWork(t) THEN "doing"
  ELSE IF Unbegun(t) THEN "none"
  ELSE IF evidence[t] = "verified" THEN "proved" ELSE "over"

Consent(t) == IF approval[t] = "pending" THEN "asked" ELSE approval[t]

Promise == INSTANCE TaskPromise WITH
  said <- [t \in Tasks |-> Said(t)],
  work <- [t \in Tasks |-> Work(t)],
  consent <- [t \in Tasks |-> Consent(t)]

\* Every step of the node is a step of the promise, or none of its business: a
\* task has a worker once at most, over approvals, queues, stops, crashes and
\* boots, and none once it was refused, given up or said to have ended; the
\* person is asked about it once, and the decision stands; success is said of
\* verified work that nobody is stopping.
TaskPromiseKept == Promise!Spec
-----------------------------------------------------------------------------
(* Liveness, under Fairness.                                               *)

\* A running task does not stay running: its run reports, parks it or dies.
RunsEnd == \A t \in Tasks : (task[t] = "running") ~> (task[t] # "running")

\* A stop asked for before the run reports lands: the task is stopped, or said
\* to be of unknown outcome.
StopLands ==
  \A t \in Tasks :
    (task[t] = "cancel_requested" /\ ReportPending(t))
      ~> (task[t] \in {"cancelled", "uncertain"})

\* A task parked on an approval does not wait for ever: somebody decides, or
\* the sweep settles it.  (Without a crash, and unless the node shuts down.)
AskedTaskMovesOn ==
  \A t \in Tasks :
    (task[t] = "waiting_approval") ~> (task[t] # "waiting_approval" \/ closing)
=============================================================================
