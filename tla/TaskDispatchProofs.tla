------------------------ MODULE TaskDispatchProofs --------------------------
(* Theorems about TaskDispatch, for every value of its constants.          *)
EXTENDS TaskDispatch, SequenceTheorems, TLAPS

\* The event of a transition, whatever it is, leads to a state of a task.
LEMMA TargetType == \A event : Target(event) \in TaskState
  BY DEF Target, TaskState

\* Where a settlement leads: a state of a task, when the task had one.
LEMMA SettledStateType ==
  ASSUME NEW t \in Tasks, NEW eff, NEW ans, NEW ev, TypeOK
  PROVE  SettledState(t, eff, ans, ev) \in TaskState \cup {"absent"}
  BY DEF SettledState, TypeOK, TaskState

\* The steps a thread record may hold.
LEMMA ThreadType ==
  /\ Idle \in Thread
  /\ \A s \in NodeStep : Resume(s) \in Thread
  /\ \A s \in LastStep, t \in Tasks, then \in AfterStep : Do(s, t, then) \in Thread
  /\ \A s \in FirstStep, t \in Tasks, then \in LastStep : Do(s, t, then) \in Thread
  BY DEF Idle, Resume, Do, Thread, NodeStep, AfterStep

\* What the thread record says of its own fields.
LEMMA ThreadFields ==
  ASSUME TypeOK
  PROVE  /\ thread.at \in NodeStep => thread.task = NoTask /\ thread.then = "return"
         /\ thread.at \in LastStep => thread.task \in Tasks /\ thread.then \in AfterStep
         /\ thread.at \in FirstStep => thread.task \in Tasks /\ thread.then \in LastStep
         /\ thread.at \in NodeStep \cup LastStep \cup FirstStep
  BY DEF TypeOK, Thread, NodeStep, AfterStep, LastStep, FirstStep, TaskEvent

\* Which kind of step each one is.
LEMMA StepType ==
  /\ TaskEvent \subseteq LastStep \cup FirstStep
  /\ {"resolve.ready", "resolve.need_capability", "resolve.failed",
      "dispatch.acknowledged", "cancel.confirmed", "verify.passed",
      "verify.failed", "run.approval_granted", "run.approval_denied",
      "run.approval_expired", "dispatch", "request_approval", "stop_run"}
        \subseteq LastStep
  /\ FirstStep = {"resolve.start", "retire_approvals"}
  /\ AfterStep = {"return", "pump", "splice"}
  /\ NodeStep = {"return", "pump", "splice", "interrupt_tasks"}
  BY DEF LastStep, FirstStep, NodeStep, AfterStep, TaskEvent

\* A settlement writes well-typed task rows, and hands the thread a step.
LEMMA SettleType ==
  ASSUME NEW t \in Tasks, NEW report \in Verdict \cup {"none"},
         NEW next \in AfterStep, TypeOK, Settle(t, report, next)
  PROVE  /\ task' \in [Tasks -> TaskState \cup {"absent"}]
         /\ doubt' \in [Tasks -> {"none", "effect", "stopping", "timed_out"}]
         /\ evidence' \in [Tasks -> Verdict \cup {"none"}]
         /\ thread' \in Thread
         /\ placed' = placed
<1> DEFINE recorded == IF report = "none" \/ task[t] \in TerminalTaskState
                       THEN evidence[t] ELSE report
<1>1. recorded \in Verdict \cup {"none"}
  BY DEF TypeOK
<1>2. SettledState(t, effect[t], answered[t], recorded)
        \in TaskState \cup {"absent"}
  BY SettledStateType
<1>3. evidence' \in [Tasks -> Verdict \cup {"none"}]
  BY <1>1 DEF Settle, TypeOK
<1>4. doubt' \in [Tasks -> {"none", "effect", "stopping", "timed_out"}]
  BY DEF Settle, TypeOK
<1>5. task' \in [Tasks -> TaskState \cup {"absent"}]
  BY <1>2 DEF Settle, TypeOK, TaskState
<1>6. thread' \in Thread
  BY ThreadType, StepType DEF Settle
<1>7. placed' = placed
  BY DEF Settle
<1> QED
  BY <1>3, <1>4, <1>5, <1>6, <1>7

\* Taking a job out of the queue leaves a queue of tasks.
LEMMA WithoutType ==
  ASSUME TypeOK, NEW i \in 1..Len(queue)
  PROVE  Without(i) \in Seq(Tasks)
<1>1. queue \in Seq(Tasks) /\ Len(queue) \in Nat
  BY LenProperties DEF TypeOK
<1>2. SubSeq(queue, 1, i - 1) \in Seq(Tasks)
  BY <1>1, SubSeqProperties, LenProperties
<1>3. SubSeq(queue, i + 1, Len(queue)) \in Seq(Tasks)
  BY <1>1, SubSeqProperties, LenProperties
<1> QED
  BY <1>2, <1>3, ConcatProperties DEF Without

\* The first job of a queue is a task, and the others are a queue.
LEMMA HeadType ==
  ASSUME TypeOK, queue # << >>
  PROVE  Head(queue) \in Tasks /\ Tail(queue) \in Seq(Tasks)
  BY HeadTailProperties DEF TypeOK

\* A queued job is a task.
LEMMA QueuedType ==
  ASSUME TypeOK, NEW i \in 1..Len(queue)
  PROVE  queue[i] \in Tasks
  BY ElementOfSeq DEF TypeOK

\* Freeing a lease keeps the lease rows typed.
LEMMA FreeLeaseType ==
  ASSUME NEW t \in Tasks, TypeOK, FreeLease(t)
  PROVE  /\ lease' \in [Capability -> Tasks \cup {NoTask}]
         /\ lapsed' \in [Capability -> BOOLEAN]
  BY DEF FreeLease, TypeOK, leases

\* A run that ends before it had a worker keeps the pool and the leases typed.
LEMMA EndsUnstartedType ==
  ASSUME NEW t \in Tasks, TypeOK, EndsUnstarted(t)
  PROVE  /\ phase' \in [Tasks -> Phase]
         /\ stopping' \in SUBSET Tasks
         /\ lease' \in [Capability -> Tasks \cup {NoTask}]
         /\ lapsed' \in [Capability -> BOOLEAN]
  BY FreeLeaseType DEF EndsUnstarted, TypeOK, Phase

\* Every action keeps the types.
THEOREM TypePreserved == TypeOK /\ [Next]_vars => TypeOK'
<1> SUFFICES ASSUME TypeOK, [Next]_vars PROVE TypeOK'
  OBVIOUS
<1> USE ThreadType, StepType, ThreadFields
<1> USE DEF taskRows, ledger, approvals, leases, pool, process, commands
<1>1. ASSUME NEW t \in Tasks, Submit(t) PROVE TypeOK'
  BY <1>1 DEF Submit, TypeOK, TaskState
<1>2. ASSUME NEW t \in Tasks, CapabilityBecomesReady(t) PROVE TypeOK'
  BY <1>2, TargetType DEF CapabilityBecomesReady, TypeOK
<1>3. CASE ApplyTaskEvent
  <2>1. task' \in [Tasks -> TaskState \cup {"absent"}]
    BY <1>3, TargetType DEF ApplyTaskEvent, TypeOK
  <2>2. AfterEvent \in Thread
    <3>1. CASE thread.at = "resolve.start"
      BY <3>1 DEF AfterEvent
    <3>2. CASE thread.at # "resolve.start"
      <4>1. thread.at \in LastStep
        BY <1>3, <3>2 DEF ApplyTaskEvent, TaskEvent, LastStep, FirstStep
      <4> QED
        BY <3>2, <4>1 DEF AfterEvent
    <3> QED
      BY <3>1, <3>2
  <2>3. placed' \in SUBSET Tasks
    BY <1>3 DEF ApplyTaskEvent, TypeOK
  <2> QED
    BY <1>3, <2>1, <2>2, <2>3 DEF ApplyTaskEvent, TypeOK
<1>4. CASE Dispatch
  <2>1. thread.task \in Tasks
    BY <1>4 DEF Dispatch
  <2>2. CASE closing \/ PoolIsFull
    BY <1>4, <2>1, <2>2, SettleType DEF Dispatch, Refuse, Verdict, TypeOK
  <2>3. CASE ~(closing \/ PoolIsFull)
    <3>1. Append(queue, thread.task) \in Seq(Tasks)
      BY <2>1, AppendProperties DEF TypeOK
    <3> QED
      BY <1>4, <2>3, <3>1 DEF Dispatch, TypeOK
  <2> QED
    BY <2>2, <2>3
<1>5. CASE PumpRests
  BY <1>5 DEF PumpRests, TypeOK
<1>6. CASE PumpStarts
  <2> DEFINE t == Head(queue)
             c == CapabilityOf[t]
  <2>1. t \in Tasks /\ Tail(queue) \in Seq(Tasks)
    BY <1>6, HeadType DEF PumpStarts
  <2>2. lapsed' \in [Capability -> BOOLEAN]
    BY <1>6 DEF PumpStarts, TypeOK
  <2>3. CASE /\ Admissible(t)
             /\ lease' = [lease EXCEPT ![c] = t]
             /\ phase' = [phase EXCEPT ![t] = "launching"]
             /\ UNCHANGED <<taskRows, thread>>
    BY <1>6, <2>1, <2>2, <2>3 DEF PumpStarts, TypeOK, Phase, Unreported
  <2>4. CASE /\ lease' = [lease EXCEPT ![c] = IF Admissible(t) THEN NoTask ELSE @]
             /\ Refuse(t, "pump")
             /\ UNCHANGED phase
    BY <1>6, <2>1, <2>2, <2>4, SettleType DEF PumpStarts, Refuse, Verdict, TypeOK
  <2> QED
    BY <1>6, <2>3, <2>4 DEF PumpStarts
<1>7. CASE RequestApproval
  BY <1>7 DEF RequestApproval, TypeOK
<1>8. CASE RetireApprovals
  BY <1>8 DEF RetireApprovals, TypeOK
<1>9. CASE StopRun
  <2>1. thread.task \in Tasks
    BY <1>9 DEF StopRun
  <2>2. CASE InQueue(thread.task)
    <3>1. queue' \in Seq(Tasks)
      BY <1>9, <2>2, WithoutType DEF StopRun
    <3> QED
      BY <1>9, <2>1, <2>2, <3>1, SettleType DEF StopRun, Refuse, Verdict, TypeOK
  <2>3. CASE ~InQueue(thread.task)
    BY <1>9, <2>1, <2>3 DEF StopRun, TypeOK
  <2> QED
    BY <2>2, <2>3
<1>10. CASE SpliceQueue
  <2>1. CASE queue = << >>
    BY <1>10, <2>1 DEF SpliceQueue, TypeOK
  <2>2. CASE queue # << >>
    BY <1>10, <2>2, HeadType, SettleType DEF SpliceQueue, Refuse, Verdict, TypeOK
  <2> QED
    BY <2>1, <2>2
<1>11. ASSUME NEW t \in Tasks, InterruptTask(t) PROVE TypeOK'
  BY <1>11, TargetType DEF InterruptTask, DoubtOfUnknown, TypeOK
<1>12. CASE MarkInterruptedEffectsUnknown
  BY <1>12 DEF MarkInterruptedEffectsUnknown, TypeOK, EffectSlot, EffectState
<1>13. ASSUME NEW t \in Tasks, LaunchRefused(t) PROVE TypeOK'
  BY <1>13, EndsUnstartedType, SettleType DEF LaunchRefused, Refuse, Verdict, TypeOK
<1>13a. ASSUME NEW t \in Tasks, LaunchDrops(t) PROVE TypeOK'
  BY <1>13a, FreeLeaseType DEF LaunchDrops, TypeOK, Phase, Unreported
<1>13b. ASSUME NEW t \in Tasks, DroppedRunRefused(t) PROVE TypeOK'
  BY <1>13b, SettleType DEF DroppedRunRefused, Refuse, Verdict, TypeOK, Phase
<1>13c. ASSUME NEW t \in Tasks, LaunchFails(t) PROVE TypeOK'
  BY <1>13c, SettleType DEF LaunchFails, Refuse, Verdict, TypeOK, Phase
<1>14. ASSUME NEW t \in Tasks, LaunchAsks(t) PROVE TypeOK'
  <2>1. CASE Legal(task[t], "run.needs_approval")
    <3>1. /\ task' = [task EXCEPT ![t] = Target("run.needs_approval")]
          /\ thread' = Do("request_approval", t, "pump")
          /\ UNCHANGED <<placed, doubt, evidence>>
      BY <1>14, <2>1 DEF LaunchAsks
    <3>2. task' \in [Tasks -> TaskState \cup {"absent"}] /\ thread' \in Thread
      BY <3>1, TargetType DEF TypeOK
    <3> QED
      BY <1>14, <3>1, <3>2, EndsUnstartedType DEF LaunchAsks, TypeOK
  <2>2. CASE task[t] = "cancel_requested" /\ ~Legal(task[t], "run.needs_approval")
    BY <1>14, <2>2, EndsUnstartedType, SettleType DEF LaunchAsks, Refuse, Verdict, TypeOK
  <2>3. CASE task[t] # "cancel_requested" /\ ~Legal(task[t], "run.needs_approval")
    BY <1>14, <2>3, EndsUnstartedType DEF LaunchAsks, TypeOK
  <2> QED
    BY <2>1, <2>2, <2>3
<1>15. ASSUME NEW t \in Tasks, LaunchStartsWorker(t) PROVE TypeOK'
  BY <1>15 DEF LaunchStartsWorker, TypeOK, Phase, Unreported
<1>16. ASSUME NEW t \in Tasks, WorkerEnds(t) PROVE TypeOK'
  BY <1>16 DEF WorkerEnds, TypeOK, Phase, Unreported
<1>17. ASSUME NEW t \in Tasks, NEW report \in Verdict \cup {"none"},
              RunReports(t, report)
       PROVE  TypeOK'
  BY <1>17, SettleType DEF RunReports, TypeOK, Phase, Unreported
<1>18. ASSUME NEW t \in Tasks, RunFreesLease(t) PROVE TypeOK'
  BY <1>18, FreeLeaseType DEF RunFreesLease, TypeOK, Phase, Unreported
<1>19. ASSUME NEW t \in Tasks, RunLeaves(t) PROVE TypeOK'
  BY <1>19 DEF RunLeaves, TypeOK, Phase, Unreported
<1>20. ASSUME NEW t \in Tasks, StopTask(t) PROVE TypeOK'
  BY <1>20, TargetType DEF StopTask, TypeOK
<1>21. ASSUME NEW t \in Tasks, NEW decision \in {"granted", "denied"},
              DecideApproval(t, decision)
       PROVE  TypeOK'
  BY <1>21 DEF DecideApproval, DecisionEvent, TypeOK
<1>22. ASSUME NEW t \in Tasks, NEW k \in Slots,
              NEW outcome \in {"confirmed", "failed"},
              ReconcileEffect(t, k, outcome)
       PROVE  TypeOK'
  <2>1. effect' \in [Tasks -> [Slots -> EffectSlot]]
    BY <1>22 DEF ReconcileEffect, TypeOK, EffectSlot, EffectState
  <2>2. answered' \in [Tasks -> SUBSET Slots]
    BY <1>22 DEF ReconcileEffect, TypeOK
  <2>3. task' \in [Tasks -> TaskState \cup {"absent"}]
    BY <1>22, SettledStateType DEF ReconcileEffect, TypeOK
  <2> QED
    BY <1>22, <2>1, <2>2, <2>3 DEF ReconcileEffect, TypeOK
<1>23. ASSUME NEW t \in Tasks, NEW o \in Operations, CommandAsked(t, o)
       PROVE  TypeOK'
  BY <1>23 DEF CommandAsked, TypeOK
<1>24. ASSUME NEW t \in Tasks, NEW o \in Operations, Decided(t, o)
       PROVE  asked' \in [Tasks -> [Operations -> Nat]]
  <2>1. /\ asked \in [Tasks -> [Operations -> Nat]]
        /\ asked[t][o] - 1 \in Nat
    BY <1>24 DEF Decided, TypeOK
  <2>2. asked' = [asked EXCEPT ![t] = [@ EXCEPT ![o] = asked[t][o] - 1]]
    BY <1>24, <2>1 DEF Decided
  <2> QED
    BY <2>1, <2>2
<1>25. ASSUME NEW t \in Tasks, NEW o \in Operations, CommandRefused(t, o)
       PROVE  TypeOK'
  BY <1>24, <1>25 DEF CommandRefused, TypeOK
<1>26. ASSUME NEW t \in Tasks, NEW o \in Operations, CommandOpens(t, o)
       PROVE  TypeOK'
  <2>1. asked' \in [Tasks -> [Operations -> Nat]]
    BY <1>24, <1>26 DEF CommandOpens
  <2>2. PICK k \in Slots :
          /\ effect' = [effect EXCEPT ![t][k] = "submitted"]
          /\ operation' = [operation EXCEPT ![t][k] = o]
          /\ live' = [live EXCEPT ![t] = @ \cup {k}]
    BY <1>26 DEF CommandOpens
  <2>3. effect' \in [Tasks -> [Slots -> EffectSlot]]
    BY <2>2 DEF TypeOK, EffectSlot, EffectState
  <2>4. operation' \in [Tasks -> [Slots -> Operations \cup {NoOperation}]]
    BY <2>2 DEF TypeOK
  <2>5. live' \in [Tasks -> SUBSET Slots]
    BY <2>2 DEF TypeOK
  <2> QED
    BY <1>26, <2>1, <2>3, <2>4, <2>5 DEF CommandOpens, TypeOK
<1>27. ASSUME NEW t \in Tasks, NEW k \in Slots,
              NEW outcome \in {"confirmed", "failed"}, CommandExits(t, k, outcome)
       PROVE  TypeOK'
  BY <1>27 DEF CommandExits, TypeOK, EffectSlot, EffectState
<1>28. ASSUME NEW t \in Tasks, NEW k \in Slots, CommandLost(t, k) PROVE TypeOK'
  <2>1. effect' \in [Tasks -> [Slots -> EffectSlot]] /\ live' \in [Tasks -> SUBSET Slots]
    BY <1>28 DEF CommandLost, TypeOK, EffectSlot, EffectState
  <2>2. /\ task' \in [Tasks -> TaskState \cup {"absent"}]
        /\ doubt' \in [Tasks -> {"none", "effect", "stopping", "timed_out"}]
    <3>1. DoubtOfUnknown(t) \in {"none", "effect", "stopping", "timed_out"}
      BY DEF DoubtOfUnknown
    <3>2. CASE Legal(task[t], "effect.unknown")
      <4>1. /\ task' = [task EXCEPT ![t] = Target("effect.unknown")]
            /\ doubt' = [doubt EXCEPT ![t] = DoubtOfUnknown(t)]
        BY <1>28, <3>2 DEF CommandLost
      <4> QED
        BY <3>1, <4>1, TargetType DEF TypeOK
    <3>3. CASE ~Legal(task[t], "effect.unknown")
      BY <1>28, <3>3 DEF CommandLost, TypeOK
    <3> QED
      BY <3>2, <3>3
  <2> QED
    BY <1>28, <2>1, <2>2 DEF CommandLost, TypeOK
<1>29. ASSUME NEW t \in Tasks, NEW k \in Slots, SettlementNotWritten(t, k)
       PROVE  TypeOK'
  BY <1>29 DEF SettlementNotWritten, TypeOK
<1>30. ASSUME NEW t \in Tasks, ApprovalLapses(t) PROVE TypeOK'
  BY <1>30 DEF ApprovalLapses, TypeOK
<1>31. ASSUME NEW t \in Tasks, SweepExpiredApproval(t) PROVE TypeOK'
  BY <1>31, TargetType DEF SweepExpiredApproval, TypeOK
<1>32. ASSUME NEW c \in Capability, LeaseLapses(c) PROVE TypeOK'
  BY <1>32 DEF LeaseLapses, TypeOK
<1>33. ASSUME NEW c \in Capability, SweepExpiredLease(c) PROVE TypeOK'
  BY <1>33 DEF SweepExpiredLease, TypeOK
<1>34. CASE EmergencyStop
  BY <1>34 DEF EmergencyStop, Running, TypeOK
<1>35. CASE NodeCloses
  BY <1>35 DEF NodeCloses, TypeOK
<1>36. CASE Crash
  <2>1. queue' \in Seq(Tasks)
    BY <1>36, EmptySeq DEF Crash
  <2>2. /\ asked' \in [Tasks -> [Operations -> Nat]]
        /\ live' \in [Tasks -> SUBSET Slots]
        /\ phase' \in [Tasks -> Phase]
    BY <1>36 DEF Crash, Phase
  <2>3. crashes' \in Nat
    BY <1>36 DEF Crash, TypeOK
  <2> QED
    BY <1>36, <2>1, <2>2, <2>3 DEF Crash, TypeOK
<1>37. CASE Boot
  BY <1>37 DEF Boot, TypeOK
<1>38. CASE UNCHANGED vars
  BY <1>38 DEF vars, TypeOK
<1>39. CASE Next
  <2>1. CASE ThreadStep
    BY <2>1, <1>3, <1>4, <1>5, <1>6, <1>7, <1>8, <1>9, <1>10, <1>11, <1>12
       DEF ThreadStep
  <2>2. ASSUME NEW t \in Tasks, RunStep(t) PROVE TypeOK'
    BY <2>2, <1>13, <1>13a, <1>13b, <1>13c, <1>14, <1>15, <1>16, <1>17, <1>18, <1>19 DEF RunStep
  <2>3. ASSUME NEW t \in Tasks, PersonStep(t) PROVE TypeOK'
    BY <2>3, <1>1, <1>2, <1>20, <1>21, <1>22 DEF PersonStep
  <2>4. ASSUME NEW t \in Tasks, NEW o \in Operations, BrokerStep(t, o) PROVE TypeOK'
    BY <2>4, <1>25, <1>26 DEF BrokerStep
  <2>5. ASSUME NEW t \in Tasks, NEW k \in Slots, CommandStep(t, k) PROVE TypeOK'
    BY <2>5, <1>27, <1>28, <1>29 DEF CommandStep
  <2> QED
    BY <1>39, <2>1, <2>2, <2>3, <2>4, <2>5, <1>23, <1>30, <1>31, <1>32, <1>33,
       <1>34, <1>35, <1>36, <1>37 DEF Next
<1> QED
  BY <1>38, <1>39

\* The initial state is well-typed.
LEMMA InitTyped == Init => TypeOK
<1> SUFFICES ASSUME Init PROVE TypeOK
  OBVIOUS
<1>1. queue \in Seq(Tasks) /\ thread \in Thread
  BY EmptySeq, ThreadType DEF Init
<1>2. /\ effect \in [Tasks -> [Slots -> EffectSlot]]
      /\ operation \in [Tasks -> [Slots -> Operations \cup {NoOperation}]]
      /\ asked \in [Tasks -> [Operations -> Nat]]
  BY DEF Init, EffectSlot
<1> QED
  BY <1>1, <1>2 DEF Init, TypeOK, Phase

\* The rows of the database and the memory of the process have their types in
\* every state of every behaviour, whatever the bounds and the sets are.
THEOREM TypeCorrect == Spec => []TypeOK
  BY InitTyped, TypePreserved, PTL DEF Spec
-----------------------------------------------------------------------------
(* OneOpenAttempt.  It is not inductive by itself: a command that is lost   *)
(* while its entry already says confirmed would reopen the entry, beside a  *)
(* later attempt at the same command.  So the invariant also says that the  *)
(* entry of a running command is the one that was handed off, and that no   *)
(* command runs when a boot calls the entries left behind unknown.          *)

\* The ledger entry of a command still running says it was handed off.
LiveIsHandedOff == \A t \in Tasks : \A k \in live[t] : effect[t][k] = "submitted"

\* A boot finds no command running.
BootIsQuiet ==
  ~up \/ thread.at = "interrupt_tasks" => \A t \in Tasks : live[t] = {}

\* The invariant of the ledger.
LedgerInv == TypeOK /\ BootIsQuiet /\ LiveIsHandedOff /\ OneOpenAttempt

\* A settlement never hands the thread the work of a boot.
LEMMA SettleIsNoBoot ==
  ASSUME NEW t, NEW report, NEW next \in AfterStep, Settle(t, report, next)
  PROVE  thread'.at # "interrupt_tasks"
<1>1. thread' \in {Do("verify.passed", t, next), Do("verify.failed", t, next),
                   Resume(next)}
  BY DEF Settle
<1> QED
  BY <1>1 DEF Do, Resume, AfterStep

\* Nor does any step of the thread.
LEMMA ThreadStepIsNoBoot ==
  ASSUME TypeOK, ThreadStep, thread.at # "interrupt_tasks"
  PROVE  thread'.at # "interrupt_tasks"
<1>0. /\ thread.at \in NodeStep \cup LastStep \cup FirstStep
      /\ thread.at \in LastStep => thread.then \in AfterStep
      /\ thread.at \in FirstStep => thread.then \in LastStep
      /\ thread.at \in NodeStep => thread.then = "return"
  BY ThreadFields
<1>1. CASE ApplyTaskEvent
  <2>1. thread.then \in AfterStep \cup LastStep
    BY <1>0, <1>1 DEF AfterStep
  <2>2. thread.then # "interrupt_tasks"
    BY <2>1 DEF AfterStep, LastStep, TaskEvent
  <2> QED
    BY <1>1, <2>2 DEF ApplyTaskEvent, AfterEvent, Do, Resume
<1>2. CASE Dispatch
  BY <1>2, SettleIsNoBoot DEF Dispatch, Refuse, Resume, AfterStep
<1>3. CASE PumpRests
  BY <1>3 DEF PumpRests, Idle
<1>4. CASE PumpStarts
  BY <1>4, SettleIsNoBoot DEF PumpStarts, Refuse, AfterStep
<1>5. CASE RequestApproval
  <2>1. thread.then \in AfterStep
    BY <1>0, <1>5 DEF RequestApproval, LastStep, TaskEvent, FirstStep
  <2> QED
    BY <1>5, <2>1 DEF RequestApproval, Resume, AfterStep
<1>6. CASE RetireApprovals
  <2>1. thread.then \in LastStep
    BY <1>0, <1>6 DEF RetireApprovals, FirstStep
  <2>2. thread.then # "interrupt_tasks"
    BY <2>1 DEF LastStep, TaskEvent
  <2> QED
    BY <1>6, <2>2 DEF RetireApprovals, Do
<1>7. CASE StopRun
  BY <1>7, SettleIsNoBoot DEF StopRun, Refuse, Idle, AfterStep
<1>8. CASE SpliceQueue
  BY <1>8, SettleIsNoBoot DEF SpliceQueue, Refuse, Idle, AfterStep
<1>9. CASE (\E t \in Tasks : InterruptTask(t)) \/ MarkInterruptedEffectsUnknown
  BY <1>9 DEF InterruptTask, MarkInterruptedEffectsUnknown
<1> QED
  BY <1>1, <1>2, <1>3, <1>4, <1>5, <1>6, <1>7, <1>8, <1>9 DEF ThreadStep

\* What runs, launches and settlements do leaves the ledger alone.
LEMMA RunStepKeepsLedger ==
  ASSUME NEW t \in Tasks, RunStep(t)
  PROVE  UNCHANGED <<effect, operation, live>>
  BY DEF RunStep, LaunchRefused, LaunchDrops,
         DroppedRunRefused, LaunchFails, LaunchAsks, LaunchStartsWorker, WorkerEnds,
         RunReports, RunFreesLease, RunLeaves, ledger, commands

\* So does the rest of every handler, but for the last step of a boot.
LEMMA ThreadStepKeepsLedger ==
  ASSUME ThreadStep, ~MarkInterruptedEffectsUnknown
  PROVE  UNCHANGED <<effect, operation, live>>
  BY DEF ThreadStep, ApplyTaskEvent, Dispatch, PumpRests, PumpStarts,
         RequestApproval, RetireApprovals, StopRun, SpliceQueue, InterruptTask,
         ledger, pool, commands

\* No command is opened while a boot is at work, and no boot begins while one
\* runs: a crash ended them all.
LEMMA BootStaysQuiet ==
  ASSUME TypeOK, BootIsQuiet, [Next]_vars
  PROVE  BootIsQuiet'
<1>1. CASE ThreadStep
  <2>1. up' = up /\ live' = live
    BY <1>1 DEF ThreadStep, ApplyTaskEvent, Dispatch, PumpRests, PumpStarts,
         RequestApproval, RetireApprovals, StopRun, SpliceQueue, InterruptTask,
         MarkInterruptedEffectsUnknown, process, pool, commands
  <2> QED
    BY <1>1, <2>1, ThreadStepIsNoBoot DEF BootIsQuiet
<1>2. ASSUME NEW t \in Tasks, RunStep(t)
      PROVE  BootIsQuiet'
  <2>1. up' = TRUE
    BY <1>2 DEF RunStep, LaunchRefused, LaunchDrops,
         DroppedRunRefused, LaunchFails, LaunchAsks, LaunchStartsWorker, WorkerEnds,
         RunReports, RunFreesLease, RunLeaves, Ready, process, TypeOK
  <2>2. thread'.at # "interrupt_tasks"
    BY <1>2, SettleIsNoBoot
       DEF RunStep, LaunchRefused, LaunchDrops,
         DroppedRunRefused, LaunchFails, LaunchAsks, LaunchStartsWorker, WorkerEnds,
         RunReports, RunFreesLease, RunLeaves, Refuse, Ready, Idle, Do, Resume,
         AfterStep
  <2> QED
    BY <2>1, <2>2 DEF BootIsQuiet
<1>3. ASSUME NEW t \in Tasks, PersonStep(t)
      PROVE  BootIsQuiet'
  <2>1. up' = TRUE
    BY <1>3 DEF PersonStep, Submit, CapabilityBecomesReady, StopTask,
         DecideApproval, ReconcileEffect, Ready, process, TypeOK
  <2>2. thread'.at # "interrupt_tasks"
    BY <1>3 DEF PersonStep, Submit, CapabilityBecomesReady, StopTask,
         DecideApproval, DecisionEvent, ReconcileEffect, Ready, Idle, Do
  <2> QED
    BY <2>1, <2>2 DEF BootIsQuiet
<1>4. ASSUME NEW t \in Tasks,
             \/ \E o \in Operations : CommandAsked(t, o) \/ BrokerStep(t, o)
             \/ \E k \in Slots : CommandStep(t, k)
      PROVE  BootIsQuiet'
  <2>1. Ready /\ up' = up /\ thread' = thread
    BY <1>4 DEF CommandAsked, BrokerStep, CommandRefused, CommandOpens, Decided,
         CommandStep, CommandExits, CommandLost, SettlementNotWritten, process
  <2> QED
    BY <2>1 DEF BootIsQuiet, Ready, Idle
<1>5. ASSUME \/ \E t \in Tasks : ApprovalLapses(t) \/ SweepExpiredApproval(t)
             \/ \E c \in Capability : LeaseLapses(c) \/ SweepExpiredLease(c)
             \/ UNCHANGED vars
      PROVE  BootIsQuiet'
  <2>1. up' = up /\ thread' = thread /\ live' = live
    BY <1>5 DEF ApprovalLapses, SweepExpiredApproval, LeaseLapses,
         SweepExpiredLease, vars, process, pool, commands
  <2> QED
    BY <2>1 DEF BootIsQuiet
<1>6. CASE EmergencyStop \/ NodeCloses
  <2>1. up' = TRUE /\ thread'.at # "interrupt_tasks"
    BY <1>6 DEF EmergencyStop, NodeCloses, Ready, process, Resume, Idle, TypeOK
  <2> QED
    BY <2>1 DEF BootIsQuiet
<1>7. CASE Crash
  BY <1>7 DEF Crash, BootIsQuiet
<1>8. CASE Boot
  BY <1>8 DEF Boot, BootIsQuiet, pool, commands
<1> QED
  BY <1>1, <1>2, <1>3, <1>4, <1>5, <1>6, <1>7, <1>8 DEF Next

\* Entries that are open afterwards were open before, and still say the same:
\* then no command has two of them, and the running ones are as they were.
LEMMA ClosingKeepsLedgerInv ==
  ASSUME LedgerInv, TypeOK', BootIsQuiet',
         operation' = operation,
         \A t \in Tasks : \A k \in Slots :
           effect'[t][k] \in {"submitted", "unknown"}
             => effect[t][k] \in {"submitted", "unknown"},
         \A t \in Tasks : \A k \in live'[t] :
           k \in live[t] /\ effect'[t][k] = effect[t][k]
  PROVE  LedgerInv'
<1>1. LiveIsHandedOff'
  BY DEF LedgerInv, LiveIsHandedOff
<1>2. OneOpenAttempt'
  BY DEF LedgerInv, OneOpenAttempt
<1> QED
  BY <1>1, <1>2 DEF LedgerInv

\* Every action keeps the invariant of the ledger.
THEOREM LedgerPreserved == LedgerInv /\ [Next]_vars => LedgerInv'
<1> SUFFICES ASSUME LedgerInv, [Next]_vars PROVE LedgerInv'
  OBVIOUS
<1>1. TypeOK /\ TypeOK' /\ BootIsQuiet'
  BY TypePreserved, BootStaysQuiet DEF LedgerInv
<1>2. CASE UNCHANGED <<effect, operation, live>>
  <2>1. LiveIsHandedOff'
    BY <1>2 DEF LedgerInv, LiveIsHandedOff
  <2>2. OneOpenAttempt'
    BY <1>2 DEF LedgerInv, OneOpenAttempt
  <2> QED
    BY <1>1, <2>1, <2>2 DEF LedgerInv
<1>3. ASSUME NEW t \in Tasks, NEW o \in Operations, CommandOpens(t, o)
      PROVE  LedgerInv'
  <2>1. PICK k \in Slots :
          /\ effect[t][k] = "none"
          /\ effect' = [effect EXCEPT ![t][k] = "submitted"]
          /\ operation' = [operation EXCEPT ![t][k] = o]
          /\ live' = [live EXCEPT ![t] = @ \cup {k}]
    BY <1>3 DEF CommandOpens
  <2>2. LedgerAllows(t, o)
    BY <1>3 DEF CommandOpens
  <2>3. \A u \in Tasks : \A j \in Slots :
          <<u, j>> # <<t, k>> => /\ effect'[u][j] = effect[u][j]
                                 /\ operation'[u][j] = operation[u][j]
    BY <1>1, <2>1 DEF TypeOK
  <2>4. effect'[t][k] = "submitted" /\ operation'[t][k] = o
    BY <1>1, <2>1 DEF TypeOK
  <2>5. LiveIsHandedOff'
    <3> SUFFICES ASSUME NEW u \in Tasks, NEW j \in live'[u]
                 PROVE  effect'[u][j] = "submitted"
      BY DEF LiveIsHandedOff
    <3>1. CASE u = t /\ j = k
      BY <3>1, <2>4
    <3>2. CASE ~(u = t /\ j = k)
      <4>1. j \in live[u] /\ j \in Slots
        BY <1>1, <2>1, <3>2 DEF TypeOK
      <4> QED
        BY <4>1, <3>2, <2>3 DEF LedgerInv, LiveIsHandedOff
    <3> QED
      BY <3>1, <3>2
  <2>6. OneOpenAttempt'
    <3> SUFFICES ASSUME NEW u \in Tasks, NEW i \in Slots, NEW j \in Slots,
                        effect'[u][i] \in {"submitted", "unknown"},
                        effect'[u][j] \in {"submitted", "unknown"},
                        operation'[u][i] = operation'[u][j]
                 PROVE  i = j
      BY DEF OneOpenAttempt
    <3>1. CASE u # t \/ (i # k /\ j # k)
      BY <3>1, <2>3 DEF LedgerInv, OneOpenAttempt
    <3>2. CASE u = t /\ i = k /\ j # k
      BY <3>2, <2>2, <2>3, <2>4 DEF LedgerAllows
    <3>3. CASE u = t /\ j = k /\ i # k
      BY <3>3, <2>2, <2>3, <2>4 DEF LedgerAllows
    <3> QED
      BY <3>1, <3>2, <3>3
  <2> QED
    BY <1>1, <2>5, <2>6 DEF LedgerInv
<1>4. ASSUME NEW t \in Tasks, NEW k \in Slots, CommandStep(t, k)
      PROVE  LedgerInv'
  <2>1. k \in live[t] /\ operation' = operation
        /\ live' = [live EXCEPT ![t] = @ \ {k}]
    BY <1>4 DEF CommandStep, CommandExits, CommandLost, SettlementNotWritten, ledger
  <2>2. effect[t][k] = "submitted"
    BY <2>1 DEF LedgerInv, LiveIsHandedOff
  <2>3. \A u \in Tasks : \A j \in Slots :
          <<u, j>> # <<t, k>> => effect'[u][j] = effect[u][j]
    BY <1>1, <1>4
       DEF CommandStep, CommandExits, CommandLost, SettlementNotWritten, TypeOK, ledger
  <2>4. \A u \in Tasks : \A j \in live'[u] : j \in live[u] /\ <<u, j>> # <<t, k>>
    BY <1>1, <2>1 DEF TypeOK
  <2>5. \A u \in Tasks : live[u] \subseteq Slots
    BY <1>1 DEF TypeOK
  <2> QED
    BY <1>1, <2>1, <2>2, <2>3, <2>4, <2>5, ClosingKeepsLedgerInv
<1>5. ASSUME NEW t \in Tasks, NEW k \in Slots,
             NEW outcome \in {"confirmed", "failed"},
             ReconcileEffect(t, k, outcome)
      PROVE  LedgerInv'
  <2>1. /\ effect[t][k] = "unknown"
        /\ effect' = [effect EXCEPT ![t][k] = outcome]
        /\ operation' = operation /\ live' = live
    BY <1>5 DEF ReconcileEffect, pool, commands
  <2>2. \A u \in Tasks : \A j \in Slots :
          <<u, j>> # <<t, k>> => effect'[u][j] = effect[u][j]
    BY <1>1, <2>1 DEF TypeOK
  <2>3. \A u \in Tasks : \A j \in live[u] : j \in Slots /\ <<u, j>> # <<t, k>>
    BY <1>1, <2>1 DEF TypeOK, LedgerInv, LiveIsHandedOff
  <2> QED
    BY <1>1, <2>1, <2>2, <2>3, ClosingKeepsLedgerInv
<1>6. CASE Crash
  <2>1. effect' = effect /\ operation' = operation /\ \A t \in Tasks : live'[t] = {}
    BY <1>6 DEF Crash, ledger
  <2> QED
    BY <1>1, <2>1, ClosingKeepsLedgerInv
<1>7. CASE MarkInterruptedEffectsUnknown
  <2>1. /\ operation' = operation
        /\ effect' = [t \in Tasks |-> [k \in Slots |->
                        IF effect[t][k] = "submitted" THEN "unknown"
                                                      ELSE effect[t][k]]]
    BY <1>7 DEF MarkInterruptedEffectsUnknown
  <2>2. \A t \in Tasks : live'[t] = {}
    BY <1>7 DEF MarkInterruptedEffectsUnknown, pool, commands, LedgerInv,
         BootIsQuiet
  <2> QED
    BY <1>1, <2>1, <2>2, ClosingKeepsLedgerInv
<1>8. CASE ThreadStep /\ ~MarkInterruptedEffectsUnknown
  BY <1>2, <1>8, ThreadStepKeepsLedger
<1>9. ASSUME NEW t \in Tasks, PersonStep(t)
      PROVE  LedgerInv'
  <2>1. CASE \E k \in Slots, outcome \in {"confirmed", "failed"} :
               ReconcileEffect(t, k, outcome)
    BY <1>5, <2>1
  <2>2. CASE \/ Submit(t) \/ CapabilityBecomesReady(t) \/ StopTask(t)
             \/ \E decision \in {"granted", "denied"} : DecideApproval(t, decision)
    BY <1>2, <2>2 DEF Submit, CapabilityBecomesReady, StopTask, DecideApproval,
         ledger, pool, commands
  <2> QED
    BY <1>9, <2>1, <2>2 DEF PersonStep
<1>10. ASSUME NEW t \in Tasks, NEW o \in Operations,
              CommandAsked(t, o) \/ BrokerStep(t, o)
       PROVE  LedgerInv'
  <2>1. CASE CommandAsked(t, o) \/ CommandRefused(t, o)
    BY <1>2, <2>1 DEF CommandAsked, CommandRefused, ledger
  <2> QED
    BY <1>3, <1>10, <2>1 DEF BrokerStep
<1>11. CASE UNCHANGED vars
  BY <1>2, <1>11 DEF vars, ledger, pool, commands
<1>12. ASSUME \/ \E t \in Tasks : RunStep(t)
              \/ \E t \in Tasks : ApprovalLapses(t) \/ SweepExpiredApproval(t)
              \/ \E c \in Capability : LeaseLapses(c) \/ SweepExpiredLease(c)
              \/ EmergencyStop \/ NodeCloses \/ Boot
       PROVE  LedgerInv'
  <2>1. UNCHANGED <<effect, operation, live>>
    BY <1>12, RunStepKeepsLedger
       DEF ApprovalLapses, SweepExpiredApproval, LeaseLapses, SweepExpiredLease,
           EmergencyStop, NodeCloses, Boot, ledger, pool, commands
  <2> QED
    BY <1>2, <2>1
<1> QED
  BY <1>4, <1>6, <1>7, <1>8, <1>9, <1>10, <1>11, <1>12 DEF Next

\* Whatever the capabilities, the pool and the number of requests decided at
\* once: no command of a task is ever under way, or of unknown outcome, twice.
THEOREM OneOpenAttemptHolds == Spec => []OneOpenAttempt
<1>1. Init => LedgerInv
  <2> SUFFICES ASSUME Init PROVE LedgerInv
    OBVIOUS
  <2>1. TypeOK
    BY InitTyped
  <2>2. BootIsQuiet /\ LiveIsHandedOff
    BY DEF Init, BootIsQuiet, LiveIsHandedOff
  <2>3. OneOpenAttempt
    BY DEF Init, OneOpenAttempt
  <2> QED
    BY <2>1, <2>2, <2>3 DEF LedgerInv
<1>2. LedgerInv => OneOpenAttempt
  BY DEF LedgerInv
<1> QED
  BY <1>1, <1>2, LedgerPreserved, PTL DEF Spec
=============================================================================
