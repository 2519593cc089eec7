-------------------------- MODULE TaskOwnerProofs ---------------------------
(* Who owns a task of TaskDispatch at every moment, and what follows: the   *)
(* theorems about its pool, its approvals, its effects and its answers.     *)
EXTENDS TaskDispatchProofs, QueueLemmas, FiniteSetTheorems

\* The states a task has before a run of it had a worker.
Early == {"absent", "queued", "resolving", "waiting_capability",
          "waiting_approval", "dispatched"}

ResolveEnd == {"resolve.ready", "resolve.need_capability", "resolve.failed"}
VerifyStep == {"verify.passed", "verify.failed"}
ApprovalStep == {"run.approval_granted", "run.approval_denied",
                 "run.approval_expired"}

\* The thread is at one of these steps, about t.
About(t, steps) == thread.task = t /\ thread.at \in steps

\* A boot has yet to look at what the process before it left behind.
Booting == ~ up \/ thread.at = "interrupt_tasks"

NoEffects(t) == \A k \in Slots : effect[t][k] = "none"
NoUnknown(t) == \A k \in Slots : effect[t][k] # "unknown"
NoUnsettled(t) == \A k \in Slots : effect[t][k] \notin Unsettled

\* The broker of the run still decides or runs a command.
Commanded(t) == live[t] # {} \/ \E o \in Operations : asked[t][o] # 0

\* What is on its way to a run: its job waits, or its run has no worker yet.
Starting(t) == phase[t] \in {"launching", "dropping"} \/ Has(queue, t)
Working(t) == phase[t] \in {"working", "ending"}
Tidying(t) == phase[t] \in {"settled", "leaving"}

\* The steps a stretch of code may be at, and when another follows them.
ThreadShape ==
  /\ ~ up => thread = Idle
  /\ crashes = 0 => ~ Booting
  /\ thread.at \in TaskEvent =>
       thread.at \in ResolveEnd \cup VerifyStep \cup ApprovalStep
                      \cup {"resolve.start", "dispatch.acknowledged", "cancel.confirmed"}
  /\ thread.at \notin VerifyStep \cup {"resolve.start", "retire_approvals",
                                       "request_approval"}
       => thread.then = "return"
  /\ thread.at = "retire_approvals" => thread.then = "cancel.confirmed"

\* What each continuation of the thread may rely on.
Continues(t) ==
  /\ About(t, {"resolve.start"}) => task[t] = "queued" /\ thread.then \in ResolveEnd
  /\ About(t, ResolveEnd) => task[t] = "resolving"
  /\ About(t, {"dispatch.acknowledged"}) => task[t] = "dispatched"
  /\ About(t, {"dispatch"}) =>
       task[t] = "running" /\ phase[t] = "idle" /\ ~ Has(queue, t) /\ NoEffects(t)
  /\ About(t, ApprovalStep) =>
       task[t] = "waiting_approval" /\ approval[t] \notin {"none", "pending"}
  /\ About(t, {"run.approval_granted"}) => approval[t] = "granted"
  /\ About(t, VerifyStep) => task[t] = "verifying" /\ ~ Starting(t) /\ ~ Working(t)
  /\ About(t, {"verify.passed"}) => evidence[t] = "verified" /\ NoUnsettled(t)
  /\ About(t, {"retire_approvals", "cancel.confirmed"}) =>
       task[t] = "cancel_requested" /\ phase[t] = "idle" /\ ~ Has(queue, t)
  /\ About(t, {"stop_run"}) =>
       task[t] = "cancel_requested" /\ (phase[t] # "idle" \/ Has(queue, t))
  /\ About(t, {"request_approval"}) =>
       task[t] = "waiting_approval" /\ approval[t] = "none"

\* What has a run or a job is a task that was started and has not ended.
Owned(t) ==
  /\ Has(queue, t) => phase[t] = "idle"
  /\ Starting(t) => task[t] \in {"running", "cancel_requested"} /\ NoEffects(t)
  /\ Working(t) => task[t] \in {"running", "cancel_requested", "uncertain"}
  /\ Tidying(t) => task[t] \in {"verifying", "cancel_requested", "uncertain"}
                                 \cup TerminalTaskState
  /\ Commanded(t) => Working(t)
  /\ Booting => phase[t] = "idle" /\ ~ Has(queue, t)

\* What the effects of a task say of its state.
Accounted(t) ==
  /\ task[t] \in Early => NoEffects(t)
  /\ task[t] \in {"running", "verifying"} => NoUnknown(t)
  /\ task[t] = "uncertain" => doubt[t] # "none"
  /\ task[t] = "succeeded" => evidence[t] = "verified" /\ NoUnsettled(t)

\* A task that was dispatched is one of this node.
Here(t) ==
  task[t] \in {"waiting_approval", "dispatched", "running", "verifying"} => t \in placed

\* A task that reads as under way has something that will settle it, and a
\* run that is to stop was told, or is about to be.
UnderWay(t) ==
  /\ Here(t)
  /\ task[t] = "running" =>
       Starting(t) \/ Working(t) \/ About(t, {"dispatch"}) \/ Booting
  /\ task[t] = "dispatched" => About(t, {"dispatch.acknowledged"}) \/ Booting
  /\ task[t] = "verifying" =>
       About(t, VerifyStep) \/ (~ NoUnsettled(t) /\ evidence[t] # "none") \/ Booting
  /\ /\ task[t] = "cancel_requested" /\ doubt[t] = "none" /\ evidence[t] = "none"
     /\ ~ StopForgotten(t)
     =>
       \/ Starting(t) \/ Working(t)
       \/ About(t, {"retire_approvals", "cancel.confirmed"}) \/ Booting
  /\ task[t] = "cancel_requested" /\ (Starting(t) \/ Working(t)) =>
       t \in stopping \/ About(t, {"stop_run"})

\* A question and the task that waits for its answer.
Parked(t) ==
  crashes = 0 =>
    /\ task[t] = "waiting_approval" =>
         approval[t] = "pending" \/ About(t, ApprovalStep \cup {"request_approval"})
    /\ approval[t] = "pending" /\ age[t] = "fresh" =>
         task[t] = "waiting_approval" \/ About(t, {"retire_approvals"})

\* Nothing runs while it is a question, or once it was refused.
Unapproved(t) ==
  approval[t] \notin {"none", "granted"} =>
    /\ task[t] \in {"waiting_approval", "cancel_requested", "uncertain"}
                      \cup TerminalTaskState
    /\ phase[t] = "idle" /\ ~ Has(queue, t)

\* What a person answered for has settled the task, or a report still will.
Settled(t) ==
  crashes = 0 /\ task[t] = "uncertain" /\ doubt[t] \in {"effect", "stopping"}
    /\ answered[t] # {}
  => Working(t) \/ ~ NoUnsettled(t)

TaskSound(t) ==
  /\ Continues(t) /\ Owned(t) /\ Accounted(t) /\ UnderWay(t)
  /\ Parked(t) /\ Unapproved(t) /\ Settled(t)

\* The pool: its bounds, and that no job waits for nothing.
PoolInv ==
  /\ IsFiniteSet(Running) /\ Cardinality(Running) <= MaxConcurrent
  /\ Distinct(queue)
  /\ "pump" \notin {thread.at, thread.then} /\ queue # << >> =>
       Cardinality(Running) = MaxConcurrent
  /\ \/ Len(queue) <= MaxQueued
     \/ /\ thread.at = "pump"
        /\ Len(queue) <= MaxQueued + 1
        /\ Cardinality(Running) < MaxConcurrent

\* What holds between any two transactions of the node.
OwnerInv ==
  /\ TypeOK /\ ThreadShape
  /\ \A t \in Tasks : TaskSound(t)
  /\ PoolInv
-----------------------------------------------------------------------------
(* What the actions are made of.                                           *)

\* No effect at all, none of unknown outcome, none whose outcome is open.
LEMMA LedgerGrades ==
  ASSUME NEW t \in Tasks
  PROVE  /\ NoEffects(t) => NoUnsettled(t)
         /\ NoUnsettled(t) => NoUnknown(t)
         /\ UnsettledSlots(t) # {} <=> ~ NoUnsettled(t)
         /\ effect'[t] = effect[t] =>
              /\ NoEffects(t)' <=> NoEffects(t)
              /\ NoUnknown(t)' <=> NoUnknown(t)
              /\ NoUnsettled(t)' <=> NoUnsettled(t)
BY DEF NoEffects, NoUnknown, NoUnsettled, UnsettledSlots, Unsettled

\* An action leaves the rows and the run of t as they are.
Rest(t) ==
  /\ (t \in placed' <=> t \in placed)
  /\ task'[t] = task[t] /\ doubt'[t] = doubt[t] /\ evidence'[t] = evidence[t]
  /\ effect'[t] = effect[t] /\ answered'[t] = answered[t]
  /\ approval'[t] = approval[t] /\ age'[t] = age[t]
  /\ phase'[t] = phase[t] /\ (Has(queue', t) <=> Has(queue, t))
  /\ t \in stopping => t \in stopping'
  /\ live'[t] = live[t] /\ asked'[t] = asked[t]

\* What is not about t leaves it sound.
LEMMA Elsewhere ==
  ASSUME NEW t \in Tasks, TaskSound(t), Rest(t),
         thread.task # t, thread'.task # t,
         ~ Booting, ~ Booting', crashes' = crashes
  PROVE  TaskSound(t)'
<1>1. /\ NoEffects(t)' <=> NoEffects(t)
      /\ NoUnknown(t)' <=> NoUnknown(t)
      /\ NoUnsettled(t)' <=> NoUnsettled(t)
  BY LedgerGrades DEF Rest
<1>2. Commanded(t)' <=> Commanded(t)
  BY DEF Rest, Commanded
<1>3. /\ Starting(t)' <=> Starting(t)
      /\ Working(t)' <=> Working(t)
      /\ Tidying(t)' <=> Tidying(t)
  BY DEF Rest, Starting, Working, Tidying
<1>4. \A steps : ~ (About(t, steps)) /\ ~ (thread'.task = t /\ thread'.at \in steps)
  BY DEF About
<1>5. Continues(t)'
  BY <1>4 DEF Continues, About
<1>6. Owned(t)' /\ Accounted(t)'
  BY <1>1, <1>2, <1>3 DEF TaskSound, Owned, Accounted, Rest
<1>7. UnderWay(t)'
  BY <1>1, <1>3 DEF TaskSound, UnderWay, Here, StopForgotten, Rest, About
<1>8. Parked(t)'
  BY DEF TaskSound, Parked, Rest, About
<1>9. Unapproved(t)'
  BY DEF TaskSound, Unapproved, Rest
<1>10. Settled(t)'
  BY <1>1, <1>3 DEF TaskSound, Settled, Rest
<1> QED
  BY <1>5, <1>6, <1>7, <1>8, <1>9, <1>10 DEF TaskSound

\* An action about x, in a running node that is past its boot.
LEMMA OneActs ==
  ASSUME NEW x \in Tasks, \A t \in Tasks : TaskSound(t), TypeOK,
         \A t \in Tasks : t # x => Rest(t),
         thread.task \in {x, NoTask}, thread'.task \in {x, NoTask},
         ~ Booting, ~ Booting', crashes' = crashes,
         TaskSound(x)'
  PROVE  \A t \in Tasks : TaskSound(t)'
<1> SUFFICES ASSUME NEW t \in Tasks, t # x PROVE TaskSound(t)'
  OBVIOUS
<1> QED
  BY TasksAssumption, Elsewhere

\* An action about no task: it leaves all of them as they are.
LEMMA NoneActs ==
  ASSUME \A t \in Tasks : TaskSound(t), \A t \in Tasks : Rest(t),
         thread.task = NoTask, thread'.task = NoTask,
         ~ Booting, ~ Booting', crashes' = crashes
  PROVE  \A t \in Tasks : TaskSound(t)'
<1> SUFFICES ASSUME NEW t \in Tasks PROVE TaskSound(t)'
  OBVIOUS
<1> QED
  BY TasksAssumption, Elsewhere

\* Everything an action has to leave alone for the tasks it is not about, but
\* for the rows, the queue and the thread.
Others(x) ==
  /\ placed' = placed
  /\ \A t \in Tasks : t # x =>
       /\ task'[t] = task[t] /\ doubt'[t] = doubt[t] /\ evidence'[t] = evidence[t]

\* A settlement is about one task.
LEMMA SettlesOne ==
  ASSUME TypeOK, NEW x \in Tasks, NEW report, NEW next, Settle(x, report, next)
  PROVE  /\ Others(x)
         /\ thread'.task \in {x, NoTask}
         /\ thread'.at \in VerifyStep \cup {next}
<1>1. /\ Others(x)
  BY DEF Settle, Others, TypeOK
<1>2. thread' \in {Do("verify.passed", x, next), Do("verify.failed", x, next), Resume(next)}
  BY DEF Settle
<1> QED
  BY <1>1, <1>2 DEF Do, Resume, VerifyStep

\* A job of which nothing was handed off is refused: its task has failed, or
\* is stopped.
LEMMA RefusedJob ==
  ASSUME TypeOK, NEW x \in Tasks, NEW next, Refuse(x, next),
         task[x] \in {"running", "cancel_requested"}, NoEffects(x)
  PROVE  /\ Others(x)
         /\ doubt'[x] = doubt[x] /\ evidence'[x] = "not_verified"
         /\ \/ task[x] = "running" /\ task'[x] = "verifying"
               /\ thread' = Do("verify.failed", x, next)
            \/ task[x] = "cancel_requested" /\ task'[x] = "cancelled"
               /\ thread' = Resume(next)
<1>1. UnsettledSlots(x) = {}
  BY LedgerGrades
<1>2. Settle(x, "not_verified", next)
  BY DEF Refuse
<1>3. /\ evidence' = [evidence EXCEPT ![x] = "not_verified"]
      /\ doubt' = [doubt EXCEPT ![x] = doubt[x]]
      /\ placed' = placed
  BY <1>1, <1>2 DEF Settle, TerminalTaskState
<1>4. CASE task[x] = "running"
  <2>1. task' = [task EXCEPT ![x] = "verifying"] /\ thread' = Do("verify.failed", x, next)
    BY <1>1, <1>2, <1>4 DEF Settle
  <2> QED
    BY <1>3, <1>4, <2>1 DEF TypeOK, Others
<1>5. CASE task[x] = "cancel_requested"
  <2>1. task' = [task EXCEPT ![x] = "cancelled"] /\ thread' = Resume(next)
    BY <1>1, <1>2, <1>5 DEF Settle
  <2> QED
    BY <1>3, <1>5, <2>1 DEF TypeOK, Others
<1> QED
  BY <1>4, <1>5

\* A run reports on a task that runs, is to stop, or is uncertain.
LEMMA ReportedRun ==
  ASSUME TypeOK, NEW x \in Tasks, NEW report \in Verdict \cup {"none"},
         Settle(x, report, "return"),
         task[x] \in {"running", "cancel_requested", "uncertain"}
  PROVE  /\ Others(x)
         /\ evidence'[x] = IF report = "none" THEN evidence[x] ELSE report
         /\ task[x] = "running" =>
              /\ task'[x] = "verifying" /\ doubt'[x] = doubt[x]
              /\ \/ report # "none" /\ ~ NoUnsettled(x) /\ thread' = Idle
                 \/ thread' = Do("verify.failed", x, "return")
                 \/ /\ thread' = Do("verify.passed", x, "return")
                    /\ report = "verified" /\ NoUnsettled(x)
         /\ task[x] = "cancel_requested" =>
              /\ thread' = Idle
              /\ \/ task'[x] = "cancelled"
                 \/ /\ task'[x] = "uncertain" /\ doubt'[x] = "stopping"
                    /\ report = "verified" \/ ~ NoUnsettled(x)
         /\ task[x] = "uncertain" =>
              /\ thread' = Idle /\ doubt'[x] = doubt[x]
              /\ \/ /\ task'[x] = "uncertain"
                    /\ \/ doubt[x] \notin {"effect", "stopping"}
                       \/ answered[x] = {} \/ ~ NoUnsettled(x)
                 \/ task'[x] \in {"cancelled", "failed"}
                 \/ task'[x] = "succeeded" /\ evidence'[x] = "verified" /\ NoUnsettled(x)
<1> DEFINE recorded == IF report = "none" THEN evidence[x] ELSE report
           verdict  == IF report = "verified" THEN "verify.passed" ELSE "verify.failed"
           undone   == report = "verified" \/ (report # "none" /\ ~ NoUnsettled(x))
<1>1. UnsettledSlots(x) # {} <=> ~ NoUnsettled(x)
  BY LedgerGrades
<1>2. Others(x)
  BY SettlesOne
<1>3. evidence'[x] = recorded
  BY DEF Settle, TerminalTaskState, TypeOK
<1>4. CASE task[x] = "running"
  <2>1. task' = [task EXCEPT ![x] = "verifying"] /\ doubt' = [doubt EXCEPT ![x] = doubt[x]]
    BY <1>4 DEF Settle
  <2>2. thread' = IF report # "none" /\ ~ NoUnsettled(x) THEN Resume("return")
                  ELSE Do(verdict, x, "return")
    BY <1>1, <1>4 DEF Settle
  <2>3. task'[x] = "verifying" /\ doubt'[x] = doubt[x]
    BY <2>1 DEF TypeOK
  <2> QED
    BY <1>2, <1>3, <1>4, <2>2, <2>3 DEF Resume, Idle
<1>5. CASE task[x] = "cancel_requested"
  <2>1. /\ task' = [task EXCEPT ![x] = IF undone THEN "uncertain" ELSE "cancelled"]
        /\ doubt' = [doubt EXCEPT ![x] = IF undone THEN "stopping" ELSE @]
    BY <1>1, <1>5 DEF Settle
  <2>2. thread' = Idle
    BY <1>5 DEF Settle, Resume, Idle
  <2>3. /\ task'[x] = IF undone THEN "uncertain" ELSE "cancelled"
        /\ undone => doubt'[x] = "stopping"
    BY <2>1 DEF TypeOK
  <2> QED
    BY <1>2, <1>3, <1>5, <2>2, <2>3
<1>6. CASE task[x] = "uncertain"
  <2> DEFINE blocked == report # "none" /\ ~ NoUnsettled(x)
             s == SettledState(x, effect[x], answered[x], recorded)
  <2>1. task' = [task EXCEPT ![x] = IF blocked THEN "uncertain" ELSE s]
    <3>1. recorded = IF report = "none" \/ task[x] \in TerminalTaskState
                     THEN evidence[x] ELSE report
      BY <1>6 DEF TerminalTaskState
    <3>2. blocked <=> report # "none" /\ UnsettledSlots(x) # {}
      BY <1>1
    <3> HIDE DEF recorded, blocked
    <3>3. task' = [task EXCEPT ![x] = IF ~ blocked THEN
                     SettledState(x, effect[x], answered[x], recorded) ELSE task[x]]
      BY <1>6, <3>1, <3>2 DEF Settle
    <3> QED
      BY <1>6, <3>3
  <2>2. thread' = Idle /\ doubt' = [doubt EXCEPT ![x] = doubt[x]]
    BY <1>6 DEF Settle, Resume, Idle
  <2>3. \/ /\ s = "uncertain"
           /\ \/ doubt[x] \notin {"effect", "stopping"}
              \/ answered[x] = {} \/ ~ NoUnsettled(x)
        \/ s \in {"cancelled", "failed"}
        \/ s = "succeeded" /\ recorded = "verified" /\ NoUnsettled(x)
    <3>1. NoUnsettled(x) <=> ~ \E k \in Slots : effect[x][k] \in Unsettled
      BY DEF NoUnsettled
    <3> QED
      BY <1>6, <3>1 DEF SettledState
  <2> HIDE DEF s
  <2>4. /\ task'[x] = IF blocked THEN "uncertain" ELSE s
        /\ doubt'[x] = doubt[x]
    BY <2>1, <2>2 DEF TypeOK
  <2> QED
    BY <1>2, <1>3, <1>6, <2>2, <2>3, <2>4
<1> QED
  BY <1>4, <1>5, <1>6

\* Where a handler of a running node may leave the thread.
Continuation(x) ==
  {Idle, Resume("pump"), Resume("splice"), Do("retire_approvals", x, "cancel.confirmed")}
  \cup {Do(at, x, "return") : at \in ResolveEnd \cup ApprovalStep
          \cup {"dispatch.acknowledged", "cancel.confirmed", "dispatch", "stop_run"}}
  \cup {Do(at, x, then) : at \in VerifyStep \cup {"request_approval"}, then \in AfterStep}
  \cup {Do("resolve.start", x, then) : then \in ResolveEnd}

LEMMA ShapeKept ==
  ASSUME NEW x \in Tasks, thread' \in Continuation(x), up', crashes' = crashes
  PROVE  ThreadShape' /\ ~ Booting' /\ thread'.task \in {x, NoTask}
<1> USE DEF ThreadShape, Booting, Idle, Resume, Do, ResolveEnd, VerifyStep, ApprovalStep,
            TaskEvent, AfterStep
<1>1. CASE thread' \in {Idle, Resume("pump"), Resume("splice"),
                        Do("retire_approvals", x, "cancel.confirmed")}
  BY <1>1
<1>2. CASE \E at \in ResolveEnd \cup ApprovalStep
             \cup {"dispatch.acknowledged", "cancel.confirmed", "dispatch", "stop_run"} :
               thread' = Do(at, x, "return")
  <2>1. PICK at \in ResolveEnd \cup ApprovalStep
             \cup {"dispatch.acknowledged", "cancel.confirmed", "dispatch", "stop_run"} :
               thread' = Do(at, x, "return")
    BY <1>2
  <2>2. thread'.at = at /\ thread'.task = x /\ thread'.then = "return"
    BY <2>1
  <2> QED
    BY <2>2
<1>3. CASE \E at \in VerifyStep \cup {"request_approval"}, then \in AfterStep :
             thread' = Do(at, x, then)
  <2>1. PICK at \in VerifyStep \cup {"request_approval"}, then \in AfterStep :
             thread' = Do(at, x, then)
    BY <1>3
  <2>2. thread'.at = at /\ thread'.task = x /\ thread'.then = then
    BY <2>1
  <2> QED
    BY <2>2
<1>4. CASE \E then \in ResolveEnd : thread' = Do("resolve.start", x, then)
  BY <1>4
<1> QED
  BY <1>1, <1>2, <1>3, <1>4 DEF Continuation

\* The steps of the thread, and the state of every task.
Sound == ThreadShape /\ \A t \in Tasks : TaskSound(t)

\* A handler starts, or goes on, in a node that is past its boot.
LEMMA InHand ==
  ASSUME OwnerInv
  PROVE  /\ Ready => /\ up /\ thread = Idle /\ thread.at = "return"
                     /\ thread.task = NoTask /\ ~ Booting
         /\ up /\ thread.at # "interrupt_tasks" => ~ Booting
         /\ \A t \in Tasks : TaskSound(t)
         /\ \A t \in Tasks : t # NoTask
         /\ TypeOK /\ ThreadShape
         /\ queue \in Seq(Tasks) /\ Distinct(queue)
BY TasksAssumption DEF OwnerInv, Ready, Idle, Booting, PoolInv, TypeOK

\* An action about x that leaves the others alone keeps every task sound.
LEMMA ActsOn ==
  ASSUME OwnerInv, NEW x \in Tasks, thread.task \in {x, NoTask},
         up, thread.at # "interrupt_tasks", up', crashes' = crashes,
         thread' \in Continuation(x),
         \A t \in Tasks : t # x => Rest(t), TaskSound(x)'
  PROVE  Sound'
<1>1. ThreadShape' /\ ~ Booting' /\ thread'.task \in {x, NoTask}
  BY ShapeKept
<1>2. ~ Booting /\ TypeOK /\ \A t \in Tasks : TaskSound(t)
  BY InHand
<1>3. \A t \in Tasks : TaskSound(t)'
  BY <1>1, <1>2, OneActs
<1> QED
  BY <1>1, <1>3 DEF Sound

\* An action about no task keeps every task sound.
LEMMA ActsOnNone ==
  ASSUME OwnerInv, thread.task = NoTask, up, thread.at # "interrupt_tasks",
         up', crashes' = crashes,
         thread' \in {Idle, Resume("pump"), Resume("splice")},
         \A t \in Tasks : Rest(t)
  PROVE  Sound'
<1>1. ThreadShape' /\ ~ Booting' /\ thread'.task = NoTask
  BY DEF ThreadShape, Booting, Idle, Resume, ResolveEnd, VerifyStep, ApprovalStep, TaskEvent
<1>2. ~ Booting /\ \A t \in Tasks : TaskSound(t)
  BY InHand
<1>3. \A t \in Tasks : TaskSound(t)'
  BY <1>1, <1>2, NoneActs
<1> QED
  BY <1>1, <1>3 DEF Sound
-----------------------------------------------------------------------------
(* One action after the other.                                             *)

LEMMA SubmitSound ==
  ASSUME OwnerInv, NEW x \in Tasks, Submit(x) PROVE Sound'
<1>1. /\ up /\ thread.at = "return" /\ thread.task = NoTask /\ TypeOK
      /\ ~ Booting /\ x # NoTask /\ TaskSound(x)
  BY InHand DEF Submit
<1>2. /\ task[x] = "absent" /\ task' = [task EXCEPT ![x] = "queued"]
      /\ UNCHANGED <<placed, doubt, evidence, effect, answered, approval, age, phase, queue,
                     stopping, live, asked, up, crashes>>
  BY DEF Submit, ledger, approvals, pool, commands, process
<1>3. PICK next \in ResolveEnd : thread' = Do("resolve.start", x, next)
  BY DEF Submit, ResolveEnd
<1>4. task'[x] = "queued" /\ \A t \in Tasks : t # x => task'[t] = task[t]
  BY <1>1, <1>2 DEF TypeOK
<1>5. \A t \in Tasks : t # x => Rest(t)
  BY <1>2, <1>4 DEF Rest
<1>6. thread'.task = x /\ thread'.at = "resolve.start" /\ thread'.then = next
  BY <1>3 DEF Do
<1>7. TaskSound(x)'
  <2>1. /\ NoEffects(x)' <=> NoEffects(x)
        /\ Commanded(x)' <=> Commanded(x)
        /\ Starting(x)' <=> Starting(x)
        /\ Working(x)' <=> Working(x)
        /\ Tidying(x)' <=> Tidying(x)
    BY <1>2 DEF NoEffects, Commanded, Starting, Working, Tidying
  <2>2. Continues(x)'
    BY <1>4, <1>6 DEF Continues, About, ResolveEnd, VerifyStep, ApprovalStep
  <2>3. Owned(x)' /\ Accounted(x)'
    BY <1>1, <1>2, <1>4, <1>6, <2>1
       DEF TaskSound, Owned, Accounted, Early, TerminalTaskState, Booting
  <2>4. UnderWay(x)' /\ Parked(x)' /\ Settled(x)'
    BY <1>1, <1>2, <1>4, <2>1
       DEF TaskSound, UnderWay, Here, StopForgotten, Parked, Settled, About
  <2>5. Unapproved(x)'
    BY <1>1, <1>2, <1>4 DEF TaskSound, Unapproved, TerminalTaskState
  <2> QED
    BY <2>2, <2>3, <2>4, <2>5 DEF TaskSound
<1>8. thread' \in Continuation(x)
  BY <1>3 DEF Continuation
<1> QED
  BY <1>1, <1>2, <1>5, <1>7, <1>8, ActsOn

LEMMA ReadySound ==
  ASSUME OwnerInv, NEW x \in Tasks, CapabilityBecomesReady(x) PROVE Sound'
<1>1. /\ up /\ thread.at = "return" /\ thread.task = NoTask /\ TypeOK
      /\ ~ Booting /\ x # NoTask /\ TaskSound(x)
  BY InHand DEF CapabilityBecomesReady
<1>2. /\ task[x] = "waiting_capability" /\ task' = [task EXCEPT ![x] = "queued"]
      /\ UNCHANGED <<placed, doubt, evidence, effect, answered, approval, age, phase, queue,
                     stopping, live, asked, up, crashes>>
  BY DEF CapabilityBecomesReady, Legal, Sources, Target, ledger, approvals, pool, commands,
         process
<1>3. thread' = Do("resolve.start", x, "resolve.ready")
  BY DEF CapabilityBecomesReady
<1>4. task'[x] = "queued" /\ \A t \in Tasks : t # x => task'[t] = task[t]
  BY <1>1, <1>2 DEF TypeOK
<1>5. \A t \in Tasks : t # x => Rest(t)
  BY <1>2, <1>4 DEF Rest
<1>6. /\ thread'.task = x /\ thread'.at = "resolve.start"
      /\ thread'.then = "resolve.ready"
  BY <1>3 DEF Do
<1>7. TaskSound(x)'
  <2>1. /\ NoEffects(x)' <=> NoEffects(x)
        /\ Commanded(x)' <=> Commanded(x)
        /\ Starting(x)' <=> Starting(x)
        /\ Working(x)' <=> Working(x)
        /\ Tidying(x)' <=> Tidying(x)
    BY <1>2 DEF NoEffects, Commanded, Starting, Working, Tidying
  <2>2. Continues(x)'
    BY <1>4, <1>6 DEF Continues, About, ResolveEnd, VerifyStep, ApprovalStep
  <2>3. Owned(x)' /\ Accounted(x)'
    BY <1>1, <1>2, <1>4, <1>6, <2>1
       DEF TaskSound, Owned, Accounted, Early, TerminalTaskState, Booting
  <2>4. UnderWay(x)' /\ Parked(x)' /\ Settled(x)'
    BY <1>1, <1>2, <1>4, <2>1
       DEF TaskSound, UnderWay, Here, StopForgotten, Parked, Settled, About
  <2>5. Unapproved(x)'
    BY <1>1, <1>2, <1>4 DEF TaskSound, Unapproved, TerminalTaskState
  <2> QED
    BY <2>2, <2>3, <2>4, <2>5 DEF TaskSound
<1>8. thread' \in Continuation(x)
  BY <1>3 DEF Continuation, ResolveEnd
<1> QED
  BY <1>1, <1>2, <1>5, <1>7, <1>8, ActsOn

\* What the thread does with an event is legal, and leads where it should.
LEMMA ThreadEvents ==
  ASSUME OwnerInv, NEW x, x = thread.task, thread.at \in TaskEvent
  PROVE  /\ x \in Tasks /\ Legal(task[x], thread.at)
         /\ thread.at \in ResolveEnd \cup VerifyStep \cup ApprovalStep
              \cup {"resolve.start", "dispatch.acknowledged", "cancel.confirmed"}
<1>1. thread.at \in LastStep \cup FirstStep
  BY StepType
<1>2. x \in Tasks
  BY <1>1, ThreadFields, InHand
<1>3. thread.at \in ResolveEnd \cup VerifyStep \cup ApprovalStep
              \cup {"resolve.start", "dispatch.acknowledged", "cancel.confirmed"}
  BY InHand DEF ThreadShape
<1>4. Continues(x)
  BY <1>2, InHand DEF TaskSound
<1>5. Legal(task[x], thread.at)
  BY <1>3, <1>4
     DEF Continues, About, Legal, Sources, ResolveEnd, VerifyStep, ApprovalStep
<1> QED
  BY <1>2, <1>3, <1>5

LEMMA EventSound ==
  ASSUME OwnerInv, ApplyTaskEvent PROVE Sound'
<1> DEFINE x == thread.task
<1>1. /\ x \in Tasks /\ up /\ TypeOK /\ x # NoTask /\ TaskSound(x)
      /\ thread.at \in ResolveEnd \cup VerifyStep \cup ApprovalStep
              \cup {"resolve.start", "dispatch.acknowledged", "cancel.confirmed"}
      /\ thread.at # "interrupt_tasks" /\ ~ Booting
  <2>1. thread.at # "interrupt_tasks"
    BY DEF ApplyTaskEvent, TaskEvent
  <2> QED
    BY <2>1, ThreadEvents, InHand DEF ApplyTaskEvent
<1>2. /\ task' = [task EXCEPT ![x] = Target(thread.at)] /\ thread' = AfterEvent
      /\ placed' = IF thread.at = "resolve.ready" THEN placed \cup {x} ELSE placed
      /\ UNCHANGED <<doubt, evidence, effect, answered, approval, age, phase, queue,
                     stopping, live, asked, up, crashes>>
  BY DEF ApplyTaskEvent, ledger, approvals, pool, commands, process
<1>3. PICK y \in Tasks : y = x
  BY <1>1
<1>4. task'[y] = Target(thread.at) /\ \A t \in Tasks : t # y => task'[t] = task[t]
  BY <1>1, <1>2, <1>3 DEF TypeOK
<1>5. /\ \A t \in Tasks : t # y => Rest(t)
      /\ y \in placed => y \in placed'
      /\ thread.at = "resolve.ready" => y \in placed'
  BY <1>2, <1>3, <1>4 DEF Rest
<1>6. /\ NoEffects(y)' <=> NoEffects(y)
      /\ NoUnknown(y)' <=> NoUnknown(y)
      /\ NoUnsettled(y)' <=> NoUnsettled(y)
      /\ Commanded(y)' <=> Commanded(y)
      /\ Starting(y)' <=> Starting(y)
      /\ Working(y)' <=> Working(y)
      /\ Tidying(y)' <=> Tidying(y)
  BY <1>2 DEF NoEffects, NoUnknown, NoUnsettled, Commanded, Starting, Working, Tidying
<1>7. TaskSound(y)
  BY <1>1, <1>3
<1>8. thread.task = y /\ y # NoTask
  BY <1>1, <1>3
<1>9. NoEffects(y) => NoUnsettled(y) /\ NoUnknown(y)
  BY LedgerGrades
<1> HIDE DEF x
<1>10. CASE thread.at = "resolve.start"
  <2>1. task[y] = "queued" /\ task'[y] = "resolving" /\ thread.then \in ResolveEnd
    BY <1>4, <1>7, <1>8, <1>10 DEF TaskSound, Continues, About, Target
  <2>2. thread' = Do(thread.then, y, "return")
    BY <1>2, <1>8, <1>10 DEF AfterEvent
  <2>3. thread'.task = y /\ thread'.at \in ResolveEnd
    BY <2>1, <2>2 DEF Do
  <2>4. Continues(y)'
    BY <2>1, <2>3 DEF Continues, About, ResolveEnd, VerifyStep, ApprovalStep
  <2>5. Owned(y)' /\ Accounted(y)'
    BY <1>1, <1>2, <1>6, <1>7, <2>1, <2>3
       DEF TaskSound, Owned, Accounted, Early, TerminalTaskState, Booting, ResolveEnd
  <2>6. UnderWay(y)' /\ Parked(y)' /\ Settled(y)' /\ Unapproved(y)'
    BY <1>2, <1>5, <1>6, <1>7, <1>8, <1>10, <2>1
       DEF TaskSound, UnderWay, Here, StopForgotten, Parked, Settled, About, Unapproved,
           TerminalTaskState
  <2>7. thread' \in Continuation(y)
    BY <2>1, <2>2 DEF Continuation
  <2> QED
    <3>1. TaskSound(y)'
      BY <2>4, <2>5, <2>6 DEF TaskSound
    <3> QED
      BY <1>1, <1>2, <1>5, <1>8, <2>7, <3>1, ActsOn
<1>11. CASE thread.at \in {"resolve.ready", "run.approval_granted"}
  <2>1. /\ task[y] \in {"resolving", "waiting_approval"} /\ task'[y] = "dispatched"
        /\ thread.at = "run.approval_granted" => approval[y] = "granted" /\ y \in placed
        /\ thread.at = "resolve.ready" => task[y] = "resolving"
    BY <1>4, <1>7, <1>8, <1>11
       DEF TaskSound, Continues, About, Target, ResolveEnd, ApprovalStep, UnderWay, Here
  <2>2. thread' = Do("dispatch.acknowledged", y, "return")
    BY <1>2, <1>8, <1>11 DEF AfterEvent
  <2>3. thread'.task = y /\ thread'.at = "dispatch.acknowledged"
    BY <2>2 DEF Do
  <2>4. Continues(y)'
    BY <2>1, <2>3 DEF Continues, About, ResolveEnd, VerifyStep, ApprovalStep
  <2>5. Owned(y)' /\ Accounted(y)'
    BY <1>1, <1>2, <1>6, <1>7, <2>1, <2>3
       DEF TaskSound, Owned, Accounted, Early, TerminalTaskState, Booting
  <2>6. UnderWay(y)' /\ Parked(y)' /\ Settled(y)' /\ Unapproved(y)'
    BY <1>2, <1>5, <1>6, <1>7, <1>8, <1>11, <2>1, <2>3
       DEF TaskSound, UnderWay, Here, StopForgotten, Parked, Settled, About, Unapproved,
           TerminalTaskState
  <2>7. thread' \in Continuation(y)
    BY <2>2 DEF Continuation
  <2>8. TaskSound(y)'
    BY <2>4, <2>5, <2>6 DEF TaskSound
  <2> QED
    BY <1>1, <1>2, <1>5, <1>8, <2>7, <2>8, ActsOn
<1>12. CASE thread.at = "dispatch.acknowledged"
  <2>1. task[y] = "dispatched" /\ task'[y] = "running"
    BY <1>4, <1>7, <1>8, <1>12 DEF TaskSound, Continues, About, Target
  <2>2. thread' = Do("dispatch", y, "return")
    BY <1>2, <1>8, <1>12 DEF AfterEvent
  <2>3. thread'.task = y /\ thread'.at = "dispatch"
    BY <2>2 DEF Do
  <2>4. phase[y] = "idle" /\ ~ Has(queue, y) /\ NoEffects(y)
    BY <1>1, <1>7, <2>1
       DEF TaskSound, Owned, Accounted, Early, TerminalTaskState, Starting, Working,
           Tidying,
           TypeOK, Phase, Unreported
  <2>5. Continues(y)'
    BY <1>2, <1>6, <2>1, <2>3, <2>4
       DEF Continues, About, ResolveEnd, VerifyStep, ApprovalStep
  <2>6. Owned(y)' /\ Accounted(y)'
    BY <1>1, <1>2, <1>6, <1>7, <1>9, <2>1, <2>3, <2>4
       DEF TaskSound, Owned, Accounted, Early, TerminalTaskState, Booting
  <2>7. UnderWay(y)' /\ Parked(y)' /\ Settled(y)' /\ Unapproved(y)'
    BY <1>2, <1>5, <1>6, <1>7, <1>8, <1>12, <2>1, <2>3
       DEF TaskSound, UnderWay, Here, StopForgotten, Parked, Settled, About, Unapproved,
           TerminalTaskState
  <2>8. thread' \in Continuation(y)
    BY <2>2 DEF Continuation
  <2>9. TaskSound(y)'
    BY <2>5, <2>6, <2>7 DEF TaskSound
  <2> QED
    BY <1>1, <1>2, <1>5, <1>8, <2>8, <2>9, ActsOn
<1>13. CASE thread.at \in {"resolve.need_capability", "resolve.failed", "run.approval_denied",
                           "run.approval_expired", "verify.passed", "verify.failed",
                           "cancel.confirmed"}
  <2>1. /\ task[y] \in {"resolving", "waiting_approval", "verifying", "cancel_requested"}
        /\ task'[y] \in {"waiting_capability"} \cup TerminalTaskState
        /\ task'[y] = "waiting_capability" => task[y] = "resolving"
        /\ task'[y] = "succeeded" => evidence[y] = "verified" /\ NoUnsettled(y)
        /\ task[y] = "resolving" => thread.at \in ResolveEnd
    BY <1>4, <1>7, <1>8, <1>13
       DEF TaskSound, Continues, About, Target, ResolveEnd, ApprovalStep, VerifyStep,
           TerminalTaskState
  <2>2. thread' = Resume(thread.then) /\ thread.then \in AfterStep
    <3>1. thread.at \in LastStep
      BY <1>13, StepType
    <3>2. thread' = Resume(thread.then)
      BY <1>2, <1>13 DEF AfterEvent
    <3> QED
      BY <1>1, <3>1, <3>2, ThreadFields
  <2>3. thread'.task = NoTask /\ thread'.at \in AfterStep
    BY <2>2 DEF Resume
  <2>4. Continues(y)'
    BY <1>8, <2>3 DEF Continues, About
  <2>5. ~ Starting(y) /\ ~ Working(y)
    <3>1. CASE thread.at \in VerifyStep
      BY <1>7, <1>8, <3>1 DEF TaskSound, Continues, About
    <3>2. CASE thread.at = "cancel.confirmed"
      BY <1>7, <1>8, <3>2 DEF TaskSound, Continues, About, Starting, Working
    <3>3. CASE thread.at \in ResolveEnd \cup ApprovalStep
      <4>1. task[y] \in {"resolving", "waiting_approval"}
        BY <1>7, <1>8, <3>3 DEF TaskSound, Continues, About
      <4> QED
        BY <1>7, <4>1 DEF TaskSound, Owned
    <3> QED
      BY <1>13, <3>1, <3>2, <3>3 DEF VerifyStep, ResolveEnd, ApprovalStep
  <2>6. task[y] \in {"resolving", "waiting_approval"} => ~ Tidying(y)
    BY <1>7 DEF TaskSound, Owned, TerminalTaskState
  <2>7. Owned(y)' /\ Accounted(y)'
    BY <1>1, <1>2, <1>6, <1>7, <2>1, <2>3, <2>5, <2>6
       DEF TaskSound, Owned, Accounted, Early, TerminalTaskState, Booting, AfterStep
  <2>8. UnderWay(y)' /\ Settled(y)' /\ Unapproved(y)'
    BY <1>2, <1>5, <1>6, <1>7, <1>8, <1>13, <2>1
       DEF TaskSound, UnderWay, Here, StopForgotten, Settled, About, Unapproved,
           TerminalTaskState
  <2>11. Parked(y)'
    <3>1. task[y] = "waiting_approval" => approval[y] # "pending"
      BY <1>7, <1>8, <1>13, <2>1
         DEF TaskSound, Continues, About, ResolveEnd, ApprovalStep, VerifyStep
    <3>2. ~ About(y, {"retire_approvals"})
      BY <1>13 DEF About
    <3> QED
      BY <1>2, <1>7, <2>1, <3>1, <3>2 DEF TaskSound, Parked, TerminalTaskState
  <2>9. thread' \in Continuation(y)
    BY <2>2 DEF Continuation, AfterStep, Resume, Idle
  <2>10. TaskSound(y)'
    BY <2>4, <2>7, <2>8, <2>11 DEF TaskSound
  <2> QED
    BY <1>1, <1>2, <1>5, <1>8, <2>9, <2>10, ActsOn
<1> QED
  BY <1>1, <1>10, <1>11, <1>12, <1>13 DEF ResolveEnd, ApprovalStep, VerifyStep

\* A job that did not become a worker's run is refused.
LEMMA RefusalSound ==
  ASSUME OwnerInv, NEW x \in Tasks, NEW next \in AfterStep, Refuse(x, next),
         task[x] \in {"running", "cancel_requested"}, NoEffects(x), ~ Working(x),
         thread.task \in {x, NoTask}, thread.at \notin {"retire_approvals", "interrupt_tasks"},
         up, UNCHANGED <<up, crashes, effect, answered, approval, age, live, asked>>,
         phase'[x] \in {"idle", "settled"}, ~ Has(queue', x),
         phase'[x] = "settled" => approval[x] \in {"none", "granted"},
         \A t \in Tasks : t # x =>
           /\ phase'[t] = phase[t] /\ (Has(queue', t) <=> Has(queue, t))
           /\ t \in stopping => t \in stopping'
  PROVE  Sound'
<1>1. TypeOK /\ TaskSound(x) /\ x # NoTask
  BY InHand
<1>2. /\ Others(x) /\ doubt'[x] = doubt[x] /\ evidence'[x] = "not_verified"
      /\ \/ task[x] = "running" /\ task'[x] = "verifying"
            /\ thread' = Do("verify.failed", x, next)
         \/ task[x] = "cancel_requested" /\ task'[x] = "cancelled"
            /\ thread' = Resume(next)
  BY <1>1, RefusedJob
<1>3. \A t \in Tasks : t # x => Rest(t)
  BY <1>2 DEF Rest, Others
<1>4. /\ NoEffects(x)' /\ NoUnknown(x)' /\ NoUnsettled(x)'
      /\ ~ Commanded(x)' /\ ~ Starting(x)' /\ ~ Working(x)'
  <2>1. NoUnsettled(x) /\ NoUnknown(x) /\ ~ Commanded(x)
    BY <1>1, LedgerGrades DEF TaskSound, Owned
  <2>2. ~ Commanded(x)'
    BY <2>1 DEF Commanded
  <2> QED
    BY <2>1, <2>2 DEF NoEffects, NoUnknown, NoUnsettled, Starting, Working
<1>5. /\ task[x] = "running" => x \in placed'
      /\ approval[x] \notin {"none", "granted"} => task[x] # "running"
      /\ crashes = 0 => ~ (approval[x] = "pending" /\ age[x] = "fresh")
  BY <1>1, <1>2 DEF TaskSound, Unapproved, Parked, UnderWay, Here, Others, About,
                    TerminalTaskState
<1>6. CASE task[x] = "running"
  <2>1. /\ task'[x] = "verifying" /\ thread'.at = "verify.failed" /\ thread'.task = x
        /\ thread' = Do("verify.failed", x, next)
    BY <1>2, <1>6 DEF Do
  <2>2. Continues(x)' /\ UnderWay(x)' /\ Parked(x)' /\ Settled(x)'
    BY <1>4, <1>5, <1>6, <2>1
       DEF Continues, UnderWay, Here, StopForgotten, Parked, Settled, About, ResolveEnd,
           VerifyStep, ApprovalStep
  <2>3. Owned(x)' /\ Accounted(x)' /\ Unapproved(x)'
    BY <1>4, <1>5, <1>6, <2>1
       DEF Owned, Accounted, Unapproved, TerminalTaskState, Early, Booting, AfterStep
  <2>4. thread' \in Continuation(x)
    BY <2>1 DEF Continuation, VerifyStep
  <2>5. TaskSound(x)'
    BY <2>2, <2>3 DEF TaskSound
  <2> QED
    BY <1>3, <2>4, <2>5, ActsOn
<1>7. CASE task[x] = "cancel_requested"
  <2>1. /\ task'[x] = "cancelled" /\ thread'.at = next /\ thread'.task = NoTask
        /\ thread' = Resume(next)
    BY <1>2, <1>7 DEF Resume
  <2>2. Continues(x)' /\ UnderWay(x)' /\ Parked(x)' /\ Settled(x)'
    BY <1>1, <1>4, <1>5, <2>1
       DEF Continues, UnderWay, Here, StopForgotten, Parked, Settled, About
  <2>3. Owned(x)' /\ Accounted(x)' /\ Unapproved(x)'
    BY <1>4, <1>5, <2>1
       DEF Owned, Accounted, Unapproved, TerminalTaskState, Early, Booting, AfterStep
  <2>4. thread' \in Continuation(x)
    BY <2>1 DEF Continuation, AfterStep, Resume, Idle
  <2>5. TaskSound(x)'
    BY <2>2, <2>3 DEF TaskSound
  <2> QED
    BY <1>3, <2>4, <2>5, ActsOn
<1> QED
  BY <1>6, <1>7

\* The front of the queue: a task whose job waits.
LEMMA FrontJob ==
  ASSUME OwnerInv, queue # << >>, NEW h, h = Head(queue)
  PROVE  /\ h \in Tasks /\ Has(queue, h) /\ TaskSound(h)
         /\ task[h] \in {"running", "cancel_requested"} /\ NoEffects(h)
         /\ phase[h] = "idle" /\ ~ Working(h)
         /\ ~ Has(Tail(queue), h)
         /\ \A t \in Tasks : t # h => (Has(Tail(queue), t) <=> Has(queue, t))
<1>1. queue \in Seq(Tasks) /\ Distinct(queue)
  BY InHand
<1>2. h \in Tasks /\ Has(queue, h)
  BY <1>1, QueueFront
<1>3. /\ ~ Has(Tail(queue), h)
      /\ \A t \in Tasks : t # h => (Has(Tail(queue), t) <=> Has(queue, t))
  BY <1>1, QueueMoves
<1>4. TaskSound(h)
  BY <1>2, InHand
<1>5. task[h] \in {"running", "cancel_requested"} /\ NoEffects(h)
      /\ phase[h] = "idle" /\ ~ Working(h)
  BY <1>2, <1>4 DEF TaskSound, Owned, Starting, Working
<1> QED
  BY <1>2, <1>3, <1>4, <1>5

LEMMA DispatchSound ==
  ASSUME OwnerInv, Dispatch PROVE Sound'
<1>1. PICK x \in Tasks : x = thread.task
  <2>1. thread.at \in LastStep
    BY StepType DEF Dispatch
  <2> QED
    BY <2>1, ThreadFields, InHand
<1>2. /\ up /\ thread.at = "dispatch" /\ TypeOK /\ TaskSound(x) /\ x # NoTask
      /\ queue \in Seq(Tasks) /\ ~ Booting
      /\ UNCHANGED <<up, crashes, effect, answered, approval, age, live, asked,
                     phase, stopping>>
  BY InHand DEF Dispatch, ledger, approvals, pool, commands, process
<1>3. /\ task[x] = "running" /\ phase[x] = "idle" /\ ~ Has(queue, x) /\ NoEffects(x)
      /\ ~ Working(x) /\ ~ Tidying(x) /\ ~ Commanded(x) /\ thread.task = x
      /\ x \in placed
  BY <1>1, <1>2 DEF TaskSound, Continues, About, Working, Tidying, Owned, UnderWay, Here
<1>4. CASE closing \/ PoolIsFull
  <2>1. Refuse(x, "return") /\ queue' = queue
    BY <1>1, <1>4 DEF Dispatch
  <2>2. phase'[x] = "idle" /\ ~ Has(queue', x) /\ "return" \in AfterStep
    BY <1>2, <1>3, <2>1 DEF AfterStep
  <2> QED
    BY <1>2, <1>3, <2>1, <2>2, RefusalSound
<1>5. CASE ~ (closing \/ PoolIsFull)
  <2>1. /\ queue' = Append(queue, x) /\ thread' = Resume("pump")
        /\ UNCHANGED <<task, placed, doubt, evidence>>
    BY <1>1, <1>5 DEF Dispatch, taskRows
  <2>2. \A t \in Tasks : Has(queue', t) <=> Has(queue, t) \/ t = x
    BY <1>2, <2>1, QueueJoins
  <2>3. \A t \in Tasks : t # x => Rest(t)
    BY <1>2, <2>1, <2>2 DEF Rest
  <2>4. /\ NoEffects(x)' /\ ~ Commanded(x)' /\ Starting(x)' /\ ~ Working(x)' /\ ~ Tidying(x)'
        /\ NoUnknown(x)'
    <3>1. Has(queue', x)
      BY <2>2
    <3>2. NoUnknown(x)
      BY <1>3, LedgerGrades
    <3> QED
      BY <1>2, <1>3, <3>1, <3>2
         DEF NoEffects, NoUnknown, Commanded, Starting, Working, Tidying
  <2>5. thread'.at = "pump" /\ thread'.task = NoTask
    BY <2>1 DEF Resume
  <2>6. approval[x] \in {"none", "granted"}
    BY <1>2, <1>3 DEF TaskSound, Unapproved, TerminalTaskState
  <2>7. Continues(x)' /\ UnderWay(x)' /\ Parked(x)' /\ Settled(x)'
    BY <1>2, <1>3, <2>1, <2>4, <2>5, <2>6
       DEF Continues, UnderWay, Here, StopForgotten, Parked, Settled, About
  <2>8. Owned(x)' /\ Accounted(x)' /\ Unapproved(x)'
    BY <1>2, <1>3, <2>1, <2>4, <2>5, <2>6
       DEF Owned, Accounted, Unapproved, Early, Booting
  <2>9. TaskSound(x)' /\ thread' \in Continuation(x)
    BY <2>1, <2>7, <2>8 DEF TaskSound, Continuation
  <2> QED
    BY <1>2, <1>3, <2>3, <2>9, ActsOn
<1> QED
  BY <1>4, <1>5

LEMMA PumpRestsSound ==
  ASSUME OwnerInv, PumpRests PROVE Sound'
<1>1. /\ up /\ thread.at = "pump" /\ TypeOK /\ thread.task = NoTask /\ thread' = Idle
      /\ UNCHANGED <<taskRows, ledger, approvals, pool, process>>
  BY InHand, ThreadFields, StepType DEF PumpRests
<1>2. \A t \in Tasks : Rest(t)
  BY <1>1 DEF Rest, taskRows, ledger, approvals, pool, commands
<1> QED
  BY <1>1, <1>2, ActsOnNone DEF process

LEMMA PumpStartsSound ==
  ASSUME OwnerInv, PumpStarts PROVE Sound'
<1>1. /\ up /\ thread.at = "pump" /\ TypeOK /\ thread.task = NoTask /\ queue # << >>
      /\ queue' = Tail(queue) /\ ~ Booting
      /\ UNCHANGED <<up, crashes, effect, answered, approval, age, live, asked, stopping>>
  BY InHand, ThreadFields, StepType
     DEF PumpStarts, ledger, approvals, pool, commands, process
<1>2. PICK x : x = Head(queue)
  OBVIOUS
<1>3. /\ x \in Tasks /\ Has(queue, x) /\ TaskSound(x)
      /\ task[x] \in {"running", "cancel_requested"} /\ NoEffects(x)
      /\ phase[x] = "idle" /\ ~ Working(x)
      /\ ~ Has(queue', x)
      /\ \A t \in Tasks : t # x => (Has(queue', t) <=> Has(queue, t))
  BY <1>1, <1>2, FrontJob
<1>4. CASE Refuse(x, "pump") /\ UNCHANGED phase
  <2>1. "pump" \in AfterStep /\ phase'[x] = "idle"
    BY <1>3, <1>4 DEF AfterStep
  <2> QED
    BY <1>1, <1>3, <1>4, <2>1, RefusalSound
<1>5. CASE /\ Admissible(x)
           /\ phase' = [phase EXCEPT ![x] = "launching"]
           /\ UNCHANGED <<taskRows, thread>>
  <2>1. /\ phase'[x] = "launching" /\ \A t \in Tasks : t # x => phase'[t] = phase[t]
        /\ UNCHANGED <<task, placed, doubt, evidence, thread>> /\ task[x] = "running"
    BY <1>1, <1>3, <1>5 DEF Admissible, TypeOK, taskRows
  <2>2. \A t \in Tasks : t # x => Rest(t)
    BY <1>1, <1>3, <2>1 DEF Rest
  <2>3. /\ NoEffects(x)' /\ NoUnknown(x)' /\ ~ Commanded(x)' /\ Starting(x)'
        /\ ~ Working(x)' /\ ~ Tidying(x)'
    <3>1. NoUnknown(x) /\ ~ Commanded(x)
      BY <1>3, LedgerGrades DEF TaskSound, Owned
    <3> QED
      BY <1>1, <1>3, <2>1, <3>1
         DEF NoEffects, NoUnknown, Commanded, Starting, Working, Tidying
  <2>4. approval[x] \in {"none", "granted"} /\ x \in placed'
    BY <1>3, <2>1 DEF TaskSound, Unapproved, UnderWay, Here
  <2>5. thread'.task # x
    BY <1>1, <1>3, <2>1, InHand
  <2>6. Continues(x)' /\ UnderWay(x)' /\ Parked(x)' /\ Settled(x)'
    BY <1>1, <2>1, <2>3, <2>4, <2>5
       DEF Continues, UnderWay, Here, StopForgotten, Parked, Settled, About
  <2>7. Owned(x)' /\ Accounted(x)' /\ Unapproved(x)'
    BY <1>1, <1>3, <2>1, <2>3, <2>4 DEF Owned, Accounted, Unapproved, Early, Booting
  <2>8. thread' = Resume("pump")
    <3>1. thread \in Thread /\ thread.at \in NodeStep
      BY <1>1, StepType DEF TypeOK
    <3> QED
      BY <1>1, <2>1, <3>1, InHand DEF Resume, Thread, TypeOK
  <2>9. TaskSound(x)' /\ thread' \in Continuation(x)
    BY <2>6, <2>7, <2>8 DEF TaskSound, Continuation
  <2> QED
    BY <1>1, <1>3, <2>2, <2>9, ActsOn
<1> QED
  BY <1>2, <1>4, <1>5 DEF PumpStarts

LEMMA RequestSound ==
  ASSUME OwnerInv, RequestApproval PROVE Sound'
<1>1. thread.task \in Tasks /\ thread.then \in AfterStep
  <2>1. thread.at \in LastStep
    BY StepType DEF RequestApproval
  <2> QED
    BY <2>1, ThreadFields, InHand
<1>2. PICK x \in Tasks : x = thread.task
  BY <1>1
<1>3. /\ up /\ thread.at = "request_approval" /\ TypeOK /\ TaskSound(x) /\ x # NoTask
      /\ approval' = [approval EXCEPT ![x] = "pending"]
      /\ age' = [age EXCEPT ![x] = "fresh"]
      /\ thread' = Resume(thread.then) /\ ~ Booting
      /\ UNCHANGED <<up, crashes, placed, effect, answered, task, doubt, evidence, live, asked,
                     phase, stopping, queue>>
  BY <1>2, InHand DEF RequestApproval, taskRows, ledger, pool, commands, process
<1>4. /\ approval'[x] = "pending" /\ age'[x] = "fresh"
      /\ \A t \in Tasks : t # x => approval'[t] = approval[t] /\ age'[t] = age[t]
  BY <1>3 DEF TypeOK
<1>5. \A t \in Tasks : t # x => Rest(t)
  BY <1>3, <1>4 DEF Rest
<1>6. task[x] = "waiting_approval" /\ x \in placed
  BY <1>2, <1>3 DEF TaskSound, Continues, About, UnderWay, Here
<1>7. /\ ~ Starting(x) /\ ~ Working(x) /\ ~ Tidying(x) /\ NoEffects(x) /\ ~ Commanded(x)
      /\ phase[x] = "idle" /\ ~ Has(queue, x)
  <2>1. ~ Starting(x) /\ ~ Working(x) /\ ~ Tidying(x) /\ NoEffects(x) /\ ~ Commanded(x)
    BY <1>3, <1>6 DEF TaskSound, Owned, Accounted, Early, TerminalTaskState
  <2> QED
    BY <1>3, <2>1 DEF Starting, Working, Tidying, TypeOK, Phase, Unreported
<1>8. /\ ~ Starting(x)' /\ ~ Working(x)' /\ ~ Tidying(x)' /\ NoEffects(x)' /\ ~ Commanded(x)'
  BY <1>3, <1>7 DEF Starting, Working, Tidying, NoEffects, Commanded
<1>9. thread'.task = NoTask
  BY <1>3 DEF Resume
<1>10. Continues(x)' /\ UnderWay(x)' /\ Parked(x)' /\ Settled(x)'
  BY <1>3, <1>4, <1>6, <1>8, <1>9
     DEF Continues, UnderWay, Here, StopForgotten, Parked, Settled, About
<1>11. Owned(x)' /\ Accounted(x)' /\ Unapproved(x)'
  BY <1>3, <1>6, <1>7, <1>8 DEF Owned, Accounted, Unapproved
<1>12. TaskSound(x)' /\ thread' \in Continuation(x)
  BY <1>1, <1>3, <1>10, <1>11 DEF TaskSound, Continuation, AfterStep, Resume, Idle
<1> QED
  BY <1>2, <1>3, <1>5, <1>12, ActsOn

LEMMA RetireSound ==
  ASSUME OwnerInv, RetireApprovals PROVE Sound'
<1>1. thread.task \in Tasks /\ thread.then = "cancel.confirmed"
  <2>1. thread.at \in FirstStep
    BY StepType DEF RetireApprovals
  <2> QED
    BY <2>1, ThreadFields, InHand DEF ThreadShape, RetireApprovals
<1>2. PICK x \in Tasks : x = thread.task
  BY <1>1
<1>3. /\ up /\ thread.at = "retire_approvals" /\ TypeOK /\ TaskSound(x) /\ x # NoTask
      /\ approval' = [approval EXCEPT ![x] = IF @ = "pending" THEN "denied" ELSE @]
      /\ thread' = Do("cancel.confirmed", x, "return") /\ ~ Booting
      /\ UNCHANGED <<up, crashes, placed, effect, answered, task, doubt, evidence, live, asked,
                     phase, stopping, queue, age>>
  BY <1>1, <1>2, InHand DEF RetireApprovals, taskRows, ledger, pool, commands, process
<1>4. /\ approval'[x] # "pending"
      /\ \A t \in Tasks : t # x => approval'[t] = approval[t]
  BY <1>3 DEF TypeOK
<1>5. \A t \in Tasks : t # x => Rest(t)
  BY <1>3, <1>4 DEF Rest
<1>6. task[x] = "cancel_requested" /\ phase[x] = "idle" /\ ~ Has(queue, x) /\ ~ Commanded(x)
  BY <1>2, <1>3 DEF TaskSound, Continues, About, Owned, Working
<1>7. /\ ~ Starting(x)' /\ ~ Working(x)' /\ ~ Tidying(x)' /\ ~ Commanded(x)'
  BY <1>3, <1>6 DEF Starting, Working, Tidying, Commanded
<1>8. thread'.task = x /\ thread'.at = "cancel.confirmed"
  BY <1>3 DEF Do
<1>9. Continues(x)' /\ UnderWay(x)' /\ Parked(x)' /\ Settled(x)'
  BY <1>3, <1>4, <1>6, <1>7, <1>8
     DEF Continues, UnderWay, Here, StopForgotten, Parked, Settled, About, ResolveEnd,
         VerifyStep, ApprovalStep
<1>10. Owned(x)' /\ Accounted(x)' /\ Unapproved(x)'
  BY <1>3, <1>6, <1>7 DEF Owned, Accounted, Unapproved, Early
<1>11. TaskSound(x)' /\ thread' \in Continuation(x)
  BY <1>3, <1>9, <1>10 DEF TaskSound, Continuation
<1> QED
  BY <1>2, <1>3, <1>5, <1>11, ActsOn

LEMMA StopRunSound ==
  ASSUME OwnerInv, StopRun PROVE Sound'
<1>1. PICK x \in Tasks : x = thread.task
  <2>1. thread.at \in LastStep
    BY StepType DEF StopRun
  <2> QED
    BY <2>1, ThreadFields, InHand
<1>2. /\ up /\ thread.at = "stop_run" /\ TypeOK /\ TaskSound(x) /\ x # NoTask /\ ~ Booting
      /\ queue \in Seq(Tasks) /\ Distinct(queue)
      /\ UNCHANGED <<up, crashes, effect, answered, approval, age, live, asked, phase>>
  BY InHand DEF StopRun, ledger, approvals, commands, process
<1>3. task[x] = "cancel_requested" /\ (phase[x] # "idle" \/ Has(queue, x))
  BY <1>1, <1>2 DEF TaskSound, Continues, About
<1>4. InQueue(x) <=> Has(queue, x)
  BY DEF InQueue, Has
<1>5. CASE Has(queue, x)
  <2>1. PICK i \in 1..Len(queue) : queue[i] = x /\ queue' = Without(i)
    BY <1>1, <1>4, <1>5 DEF StopRun
  <2>2. Refuse(x, "return") /\ UNCHANGED stopping
    BY <1>1, <1>4, <1>5 DEF StopRun
  <2>3. queue' = Removed(queue, i)
    BY <2>1 DEF Without, Removed
  <2>4. ~ Has(queue', x) /\ \A t \in Tasks : t # x => (Has(queue', t) <=> Has(queue, t))
    BY <1>2, <2>1, <2>3, QueueLoses
  <2>5. NoEffects(x) /\ phase[x] = "idle" /\ ~ Working(x) /\ "return" \in AfterStep
    BY <1>2, <1>5 DEF TaskSound, Owned, Starting, Working, AfterStep
  <2>6. task[x] = "cancel_requested"
    BY <1>1, <1>2 DEF TaskSound, Continues, About
  <2> QED
    BY <1>1, <1>2, <2>2, <2>4, <2>5, <2>6, RefusalSound
<1>6. CASE ~ Has(queue, x)
  <2>1. /\ stopping' = stopping \cup {x} /\ thread' = Idle
        /\ UNCHANGED <<queue, task, placed, doubt, evidence>>
    BY <1>1, <1>3, <1>4, <1>6 DEF StopRun, taskRows
  <2>2. \A t \in Tasks : t # x => Rest(t)
    BY <1>2, <2>1 DEF Rest
  <2>3. /\ NoEffects(x)' <=> NoEffects(x)
        /\ NoUnknown(x)' <=> NoUnknown(x)
        /\ NoUnsettled(x)' <=> NoUnsettled(x)
        /\ Commanded(x)' <=> Commanded(x)
        /\ Starting(x)' <=> Starting(x)
        /\ Working(x)' <=> Working(x)
        /\ Tidying(x)' <=> Tidying(x)
    BY <1>2, <2>1
       DEF NoEffects, NoUnknown, NoUnsettled, Commanded, Starting, Working, Tidying
  <2>4. task[x] = "cancel_requested" /\ x \in stopping' /\ thread'.task = NoTask
    BY <1>1, <1>2, <2>1 DEF TaskSound, Continues, About, Idle
  <2>5. Continues(x)'
    BY <1>2, <2>4 DEF Continues, About
  <2>6. UnderWay(x)'
    BY <1>1, <1>2, <2>1, <2>3, <2>4 DEF TaskSound, UnderWay, Here, StopForgotten, About
  <2>7. Parked(x)' /\ Settled(x)'
    BY <1>1, <1>2, <2>1, <2>3, <2>4 DEF TaskSound, Parked, Settled, About
  <2>8. Owned(x)' /\ Accounted(x)' /\ Unapproved(x)'
    BY <1>2, <2>1, <2>3, <2>4 DEF TaskSound, Owned, Accounted, Unapproved, Booting, Idle
  <2>9. TaskSound(x)' /\ thread' \in Continuation(x)
    BY <2>1, <2>5, <2>6, <2>7, <2>8 DEF TaskSound, Continuation
  <2> QED
    BY <1>1, <1>2, <2>2, <2>9, ActsOn
<1> QED
  BY <1>5, <1>6

LEMMA SpliceSound ==
  ASSUME OwnerInv, SpliceQueue PROVE Sound'
<1>1. /\ up /\ thread.at = "splice" /\ TypeOK /\ thread.task = NoTask
      /\ UNCHANGED <<up, crashes, effect, answered, approval, age, live, asked, phase,
                     stopping>>
  BY InHand, ThreadFields, StepType
     DEF SpliceQueue, ledger, approvals, commands, process
<1>2. CASE queue = << >>
  <2>1. thread' = Idle /\ UNCHANGED <<queue, task, placed, doubt, evidence>>
    BY <1>2 DEF SpliceQueue, taskRows
  <2>2. \A t \in Tasks : Rest(t)
    BY <1>1, <2>1 DEF Rest
  <2> QED
    BY <1>1, <2>1, <2>2, ActsOnNone
<1>3. CASE queue # << >>
  <2>1. PICK x : x = Head(queue)
    OBVIOUS
  <2>2. queue' = Tail(queue) /\ Refuse(x, "splice") /\ "splice" \in AfterStep
    BY <1>3, <2>1 DEF SpliceQueue, AfterStep
  <2>3. /\ x \in Tasks /\ task[x] \in {"running", "cancel_requested"} /\ NoEffects(x)
        /\ phase[x] = "idle" /\ ~ Working(x)
        /\ ~ Has(queue', x)
        /\ \A t \in Tasks : t # x => (Has(queue', t) <=> Has(queue, t))
    BY <1>3, <2>1, <2>2, FrontJob
  <2> QED
    BY <1>1, <2>2, <2>3, RefusalSound
<1> QED
  BY <1>2, <1>3

\* What is being executed when a boot looks at it becomes uncertain.
LEMMA InterruptSound ==
  ASSUME OwnerInv, NEW x \in Tasks, InterruptTask(x) PROVE Sound'
<1>1. /\ up /\ thread.at = "interrupt_tasks" /\ TypeOK /\ thread.task = NoTask
      /\ TaskSound(x) /\ ThreadShape /\ Booting
      /\ task[x] \in InterruptedTaskStates
      /\ UNCHANGED <<up, crashes, placed, effect, answered, approval, age, live, asked, phase, queue,
                     stopping, evidence, thread>>
  BY InHand, ThreadFields, StepType
     DEF InterruptTask, Interrupted, ledger, approvals, pool, commands, process, Booting
<1>2. /\ task' = [task EXCEPT ![x] = "uncertain"]
      /\ \E d \in {"timed_out", "effect", "stopping"} : doubt' = [doubt EXCEPT ![x] = d]
  BY <1>1 DEF InterruptTask, Target, DoubtOfUnknown
<1>3. PICK d \in {"timed_out", "effect", "stopping"} : doubt' = [doubt EXCEPT ![x] = d]
  BY <1>2
<1>4. /\ task'[x] = "uncertain" /\ doubt'[x] # "none"
      /\ \A t \in Tasks : t # x => task'[t] = task[t] /\ doubt'[t] = doubt[t]
  BY <1>1, <1>2, <1>3 DEF TypeOK
<1>5. ThreadShape' /\ crashes # 0 /\ Booting'
  BY <1>1 DEF ThreadShape, Booting
<1>6. \A t \in Tasks : thread.task # t
  BY <1>1, InHand
<1>7. ASSUME NEW t \in Tasks PROVE TaskSound(t)'
  <2>1. /\ NoEffects(t)' <=> NoEffects(t)
        /\ NoUnknown(t)' <=> NoUnknown(t)
        /\ NoUnsettled(t)' <=> NoUnsettled(t)
        /\ Commanded(t)' <=> Commanded(t)
        /\ Starting(t)' <=> Starting(t)
        /\ Working(t)' <=> Working(t)
        /\ Tidying(t)' <=> Tidying(t)
    BY <1>1 DEF NoEffects, NoUnknown, NoUnsettled, Commanded, Starting, Working, Tidying
  <2>2. TaskSound(t)
    BY InHand
  <2>3. phase[t] = "idle" /\ ~ Has(queue, t) /\ ~ Starting(t) /\ ~ Working(t) /\ ~ Tidying(t)
        /\ ~ Commanded(t)
    BY <1>1, <2>2 DEF TaskSound, Owned, Starting, Working, Tidying
  <2>4. Continues(t)' /\ Parked(t)' /\ Settled(t)'
    BY <1>1, <1>5, <1>6 DEF Continues, Parked, Settled, About
  <2>5. Owned(t)' /\ UnderWay(t)'
    BY <1>1, <1>4, <1>5, <2>1, <2>2, <2>3 DEF TaskSound, Owned, UnderWay, Here
  <2>6. Accounted(t)'
    BY <1>1, <1>4, <2>1, <2>2 DEF TaskSound, Accounted, Early
  <2>7. Unapproved(t)'
    BY <1>1, <1>4, <2>2 DEF TaskSound, Unapproved
  <2> QED
    BY <2>4, <2>5, <2>6, <2>7 DEF TaskSound
<1> QED
  BY <1>5, <1>7 DEF Sound

\* Then nothing is under way any more, and what was handed off is unknown.
LEMMA MarkSound ==
  ASSUME OwnerInv, MarkInterruptedEffectsUnknown PROVE Sound'
<1>1. /\ up /\ thread.at = "interrupt_tasks" /\ TypeOK /\ thread.task = NoTask
      /\ ThreadShape /\ Booting /\ thread' = Idle
      /\ \A t \in Tasks : ~ Interrupted(t)
      /\ UNCHANGED <<up, crashes, placed, task, doubt, answered, approval, age, live, asked, phase,
                     queue, stopping, evidence>>
  BY InHand, ThreadFields, StepType
     DEF MarkInterruptedEffectsUnknown, taskRows, approvals, pool, commands, process,
         Booting
<1>2. ThreadShape' /\ crashes # 0 /\ crashes' = crashes /\ ~ Booting'
  <2>1. crashes # 0
    BY <1>1 DEF ThreadShape
  <2> QED
    BY <1>1, <2>1
       DEF ThreadShape, Booting, Idle, ResolveEnd, VerifyStep, ApprovalStep, TaskEvent
<1>3. ASSUME NEW t \in Tasks PROVE TaskSound(t)'
  <2>1. \A k \in Slots : effect'[t][k] = IF effect[t][k] = "submitted" THEN "unknown"
                                                                      ELSE effect[t][k]
    BY DEF MarkInterruptedEffectsUnknown
  <2>2. /\ NoEffects(t) => NoEffects(t)'
        /\ NoUnsettled(t) => NoUnsettled(t)'
        /\ Starting(t)' <=> Starting(t)
        /\ Working(t)' <=> Working(t)
        /\ Tidying(t)' <=> Tidying(t)
        /\ Commanded(t)' <=> Commanded(t)
    BY <1>1, <2>1
       DEF NoEffects, NoUnsettled, Unsettled, Commanded, Starting, Working, Tidying
  <2>3. /\ TaskSound(t) /\ task[t] \notin {"dispatched", "running", "verifying"}
        /\ task[t] = "cancel_requested" => StopForgotten(t)
    <3>1. TaskSound(t) /\ ~ Interrupted(t) /\ crashes > 0
      BY <1>1, <1>2, InHand DEF TypeOK
    <3>2. task[t] \in {"dispatched", "running", "verifying"} => t \in placed
      BY <3>1 DEF TaskSound, UnderWay, Here
    <3> QED
      BY <3>1, <3>2 DEF Interrupted, StopForgotten, InterruptedTaskStates
  <2>4. phase[t] = "idle" /\ ~ Has(queue, t) /\ ~ Starting(t) /\ ~ Working(t) /\ ~ Tidying(t)
        /\ ~ Commanded(t)
    BY <1>1, <2>3 DEF TaskSound, Owned, Starting, Working, Tidying
  <2>5. Continues(t)' /\ Parked(t)' /\ Settled(t)'
    BY <1>1, <1>2, InHand DEF Continues, Parked, Settled, About, Idle
  <2>6. Owned(t)' /\ UnderWay(t)'
    BY <1>1, <1>2, <2>2, <2>3, <2>4
       DEF TaskSound, Owned, UnderWay, Here, StopForgotten, InterruptedTaskStates
  <2>7. Accounted(t)'
    BY <1>1, <2>2, <2>3 DEF TaskSound, Accounted, InterruptedTaskStates
  <2>8. Unapproved(t)'
    BY <1>1, <2>3 DEF TaskSound, Unapproved
  <2> QED
    BY <2>5, <2>6, <2>7, <2>8 DEF TaskSound
<1> QED
  BY <1>2, <1>3 DEF Sound

\* The process dies with all it had in memory.
LEMMA CrashSound ==
  ASSUME OwnerInv, Crash PROVE Sound'
<1>1. /\ ~ up' /\ thread' = Idle /\ crashes' # 0 /\ queue' = << >> /\ TypeOK
      /\ \A t \in Tasks : phase'[t] = "idle" /\ live'[t] = {}
           /\ \A o \in Operations : asked'[t][o] = 0
      /\ UNCHANGED <<task, placed, doubt, evidence, effect, answered, approval, age>>
  BY InHand DEF Crash, taskRows, ledger, approvals, TypeOK
<1>2. ThreadShape' /\ Booting'
  BY <1>1 DEF ThreadShape, Booting, Idle, ResolveEnd, VerifyStep, ApprovalStep, TaskEvent
<1>3. ASSUME NEW t \in Tasks PROVE TaskSound(t)'
  <2>1. TaskSound(t)
    BY InHand
  <2>2. ~ Has(queue', t)
    BY <1>1, EmptyQueue
  <2>3. ~ Starting(t)' /\ ~ Working(t)' /\ ~ Tidying(t)' /\ ~ Commanded(t)'
    BY <1>1, <2>2 DEF Starting, Working, Tidying, Commanded
  <2>4. /\ NoEffects(t)' <=> NoEffects(t)
        /\ NoUnknown(t)' <=> NoUnknown(t)
        /\ NoUnsettled(t)' <=> NoUnsettled(t)
    BY <1>1 DEF NoEffects, NoUnknown, NoUnsettled
  <2>5. Continues(t)' /\ Parked(t)' /\ Settled(t)'
    BY <1>1, InHand DEF Continues, Parked, Settled, About, Idle
  <2>6. Owned(t)' /\ UnderWay(t)'
    BY <1>1, <1>2, <2>1, <2>2, <2>3 DEF TaskSound, Owned, UnderWay, Here
  <2>7. Accounted(t)' /\ Unapproved(t)'
    BY <1>1, <2>1, <2>2, <2>4 DEF TaskSound, Accounted, Unapproved
  <2> QED
    BY <2>5, <2>6, <2>7 DEF TaskSound
<1> QED
  BY <1>2, <1>3 DEF Sound

LEMMA BootSound ==
  ASSUME OwnerInv, Boot PROVE Sound'
<1>1. /\ ~ up /\ up' /\ thread'.at = "interrupt_tasks" /\ thread'.then = "return"
      /\ thread'.task = NoTask /\ TypeOK /\ ThreadShape /\ Booting
      /\ UNCHANGED <<task, placed, doubt, evidence, effect, answered, approval, age, live, asked,
                     phase, queue, stopping, crashes>>
  BY InHand DEF Boot, taskRows, ledger, approvals, pool, commands, Resume, Booting
<1>2. ThreadShape' /\ Booting' /\ crashes # 0 /\ thread.at = "return"
  BY <1>1 DEF ThreadShape, Booting, Idle, ResolveEnd, VerifyStep, ApprovalStep, TaskEvent
<1>3. ASSUME NEW t \in Tasks PROVE TaskSound(t)'
  <2>1. TaskSound(t)
    BY InHand
  <2>2. /\ NoEffects(t)' <=> NoEffects(t)
        /\ NoUnknown(t)' <=> NoUnknown(t)
        /\ NoUnsettled(t)' <=> NoUnsettled(t)
        /\ Commanded(t)' <=> Commanded(t)
        /\ Starting(t)' <=> Starting(t)
        /\ Working(t)' <=> Working(t)
        /\ Tidying(t)' <=> Tidying(t)
    BY <1>1 DEF NoEffects, NoUnknown, NoUnsettled, Commanded, Starting, Working, Tidying
  <2>3. phase[t] = "idle" /\ ~ Has(queue, t) /\ ~ Starting(t) /\ ~ Working(t) /\ ~ Tidying(t)
        /\ ~ Commanded(t)
    BY <1>1, <2>1 DEF TaskSound, Owned, Starting, Working, Tidying
  <2>5. Continues(t)' /\ Parked(t)' /\ Settled(t)'
    BY <1>1, <1>2, InHand DEF Continues, Parked, Settled, About
  <2>6. Owned(t)' /\ UnderWay(t)'
    BY <1>1, <1>2, <2>1, <2>2, <2>3 DEF TaskSound, Owned, UnderWay, Here
  <2>7. Accounted(t)' /\ Unapproved(t)'
    BY <1>1, <2>1, <2>2 DEF TaskSound, Accounted, Unapproved
  <2> QED
    BY <2>5, <2>6, <2>7 DEF TaskSound
<1> QED
  BY <1>2, <1>3 DEF Sound

\* A run that ends before its worker has no job left, and its task was started.
LEMMA Launching ==
  ASSUME OwnerInv, NEW x \in Tasks, phase[x] \in {"launching", "dropping"}
  PROVE  /\ task[x] \in {"running", "cancel_requested"} /\ NoEffects(x)
         /\ ~ Working(x) /\ ~ Tidying(x) /\ ~ Commanded(x) /\ Starting(x)
         /\ ~ Has(queue, x) /\ approval[x] \in {"none", "granted"}
BY InHand DEF TaskSound, Owned, Starting, Working, Tidying, Unapproved

LEMMA UnstartedEnds ==
  ASSUME OwnerInv, NEW x \in Tasks, EndsUnstarted(x)
  PROVE  /\ phase'[x] = "idle" /\ \A t \in Tasks : t # x => phase'[t] = phase[t]
         /\ \A t \in Tasks : t # x /\ t \in stopping => t \in stopping'
BY InHand DEF EndsUnstarted, TypeOK

LEMMA LaunchRefusedSound ==
  ASSUME OwnerInv, NEW x \in Tasks, LaunchRefused(x) PROVE Sound'
<1>1. /\ up /\ thread.at = "return" /\ thread.task = NoTask
      /\ EndsUnstarted(x) /\ Refuse(x, "pump") /\ phase[x] = "launching"
      /\ UNCHANGED <<up, crashes, effect, answered, approval, age, live, asked, queue>>
  BY InHand DEF LaunchRefused, ledger, approvals, commands, process
<1>2. /\ task[x] \in {"running", "cancel_requested"} /\ NoEffects(x) /\ ~ Working(x)
      /\ ~ Has(queue, x) /\ "pump" \in AfterStep
  BY <1>1, Launching DEF AfterStep
<1>3. /\ phase'[x] = "idle" /\ \A t \in Tasks : t # x => phase'[t] = phase[t]
      /\ \A t \in Tasks : t # x /\ t \in stopping => t \in stopping'
  BY <1>1, UnstartedEnds
<1> QED
  BY <1>1, <1>2, <1>3, RefusalSound

\* One whose worktrees could not be made, once they are taken away.
LEMMA DroppedRefusedSound ==
  ASSUME OwnerInv, NEW x \in Tasks, DroppedRunRefused(x) PROVE Sound'
<1>1. /\ up /\ thread.at = "return" /\ thread.task = NoTask
      /\ Refuse(x, "pump") /\ phase[x] = "dropping"
      /\ UNCHANGED <<up, crashes, effect, answered, approval, age, live, asked, queue>>
  BY InHand DEF DroppedRunRefused, ledger, approvals, commands, process
<1>2. /\ task[x] \in {"running", "cancel_requested"} /\ NoEffects(x) /\ ~ Working(x)
      /\ ~ Has(queue, x) /\ "pump" \in AfterStep
  BY <1>1, Launching DEF AfterStep
<1>3. /\ phase'[x] = "idle" /\ \A t \in Tasks : t # x => phase'[t] = phase[t]
      /\ \A t \in Tasks : t # x /\ t \in stopping => t \in stopping'
  BY InHand DEF DroppedRunRefused, TypeOK
<1> QED
  BY <1>1, <1>2, <1>3, RefusalSound

\* A run whose worker does not start has reported, and tidies up.
LEMMA LaunchFailsSound ==
  ASSUME OwnerInv, NEW x \in Tasks, LaunchFails(x) PROVE Sound'
<1>1. /\ up /\ thread.at = "return" /\ thread.task = NoTask
      /\ Refuse(x, "return") /\ phase[x] = "launching"
      /\ UNCHANGED <<up, crashes, effect, answered, approval, age, live, asked, queue,
                     stopping>>
  BY InHand DEF LaunchFails, ledger, approvals, commands, process
<1>2. /\ task[x] \in {"running", "cancel_requested"} /\ NoEffects(x) /\ ~ Working(x)
      /\ ~ Has(queue, x) /\ approval[x] \in {"none", "granted"} /\ "return" \in AfterStep
  BY <1>1, Launching DEF AfterStep
<1>3. phase'[x] = "settled" /\ \A t \in Tasks : t # x => phase'[t] = phase[t]
  BY InHand DEF LaunchFails, TypeOK
<1> QED
  BY <1>1, <1>2, <1>3, RefusalSound

LEMMA LaunchAsksSound ==
  ASSUME OwnerInv, NEW x \in Tasks, LaunchAsks(x) PROVE Sound'
<1>1. /\ up /\ thread.at = "return" /\ thread.task = NoTask /\ TypeOK /\ x # NoTask
      /\ EndsUnstarted(x) /\ phase[x] = "launching" /\ approval[x] # "granted"
      /\ UNCHANGED <<up, crashes, effect, answered, approval, age, live, asked, queue>>
      /\ ~ Booting
  BY InHand DEF LaunchAsks, Authorized, ledger, approvals, commands, process
<1>2. /\ task[x] \in {"running", "cancel_requested"} /\ NoEffects(x) /\ ~ Working(x)
      /\ ~ Has(queue, x) /\ "pump" \in AfterStep /\ ~ Commanded(x) /\ approval[x] = "none"
  BY <1>1, Launching DEF AfterStep
<1>3. /\ phase'[x] = "idle" /\ \A t \in Tasks : t # x => phase'[t] = phase[t]
      /\ \A t \in Tasks : t # x /\ t \in stopping => t \in stopping'
  BY <1>1, UnstartedEnds
<1>4. Legal(task[x], "run.needs_approval") <=> task[x] = "running"
  BY DEF Legal, Sources
<1>5. CASE task[x] = "cancel_requested"
  <2>1. Refuse(x, "pump")
    BY <1>4, <1>5 DEF LaunchAsks
  <2> QED
    BY <1>1, <1>2, <1>3, <2>1, RefusalSound
<1>6. CASE task[x] = "running"
  <2>1. /\ task' = [task EXCEPT ![x] = "waiting_approval"]
        /\ thread' = Do("request_approval", x, "pump")
        /\ UNCHANGED <<placed, doubt, evidence>>
    BY <1>4, <1>6 DEF LaunchAsks, Target
  <2>2. /\ task'[x] = "waiting_approval" /\ \A t \in Tasks : t # x => task'[t] = task[t]
        /\ thread'.at = "request_approval" /\ thread'.task = x /\ x \in placed'
    <3>1. x \in placed
      BY <1>6, InHand DEF TaskSound, UnderWay, Here
    <3> QED
      BY <1>1, <2>1, <3>1 DEF TypeOK, Do
  <2>3. \A t \in Tasks : t # x => Rest(t)
    BY <1>1, <1>3, <2>1, <2>2 DEF Rest
  <2>4. /\ NoEffects(x)' /\ ~ Commanded(x)' /\ ~ Starting(x)' /\ ~ Working(x)' /\ ~ Tidying(x)'
    BY <1>1, <1>2, <1>3 DEF NoEffects, Commanded, Starting, Working, Tidying
  <2>5. Continues(x)' /\ UnderWay(x)' /\ Parked(x)' /\ Settled(x)'
    BY <1>1, <1>2, <1>3, <2>2, <2>4
       DEF Continues, UnderWay, Here, StopForgotten, Parked, Settled, About, ResolveEnd,
           VerifyStep, ApprovalStep
  <2>6. Owned(x)' /\ Accounted(x)' /\ Unapproved(x)'
    BY <1>1, <1>2, <1>3, <2>2, <2>4 DEF Owned, Accounted, Unapproved
  <2>7. TaskSound(x)' /\ thread' \in Continuation(x)
    BY <1>2, <2>1, <2>5, <2>6 DEF TaskSound, Continuation
  <2> QED
    BY <1>1, <2>3, <2>7, ActsOn
<1> QED
  BY <1>2, <1>5, <1>6

\* A run goes from one phase to the next; its task stays as it is.
LEMMA PhaseSound ==
  ASSUME OwnerInv, NEW x \in Tasks, NEW p \in Phase, Ready, phase'[x] = p,
         \A t \in Tasks : t # x =>
           phase'[t] = phase[t] /\ (t \in stopping => t \in stopping'),
         x \in stopping => x \in stopping' \/ p = "idle",
         \/ phase[x] = "launching" /\ p \in {"dropping", "working"}
         \/ phase[x] = "working" /\ p = "ending"
         \/ phase[x] = "settled" /\ p = "leaving"
         \/ phase[x] = "leaving" /\ p = "idle",
         UNCHANGED <<up, crashes, placed, task, doubt, evidence, effect, answered, approval, age,
                     live, asked, queue>>,
         thread' \in {Idle, Resume("pump")}
  PROVE  Sound'
<1>1. /\ up /\ thread.at = "return" /\ thread.task = NoTask /\ TypeOK /\ x # NoTask
      /\ ~ Booting /\ TaskSound(x)
  BY InHand
<1>2. \A t \in Tasks : t # x => Rest(t)
  BY DEF Rest
<1>3. /\ NoEffects(x)' <=> NoEffects(x)
      /\ NoUnknown(x)' <=> NoUnknown(x)
      /\ NoUnsettled(x)' <=> NoUnsettled(x)
      /\ Commanded(x)' <=> Commanded(x)
  BY DEF NoEffects, NoUnknown, NoUnsettled, Commanded
<1>4. /\ ~ Has(queue, x) /\ approval[x] \in {"none", "granted"}
      /\ Starting(x)' <=> p \in {"launching", "dropping"}
      /\ Working(x)' <=> p \in {"working", "ending"}
      /\ Tidying(x)' <=> p \in {"settled", "leaving"}
      /\ Starting(x) <=> phase[x] \in {"launching", "dropping"}
      /\ Working(x) <=> phase[x] \in {"working", "ending"}
      /\ Tidying(x) <=> phase[x] \in {"settled", "leaving"}
  BY <1>1 DEF TaskSound, Owned, Unapproved, Starting, Working, Tidying
<1>5. thread'.task = NoTask /\ thread'.at \in {"return", "pump"}
  BY DEF Idle, Resume
<1>6. Continues(x)' /\ Parked(x)' /\ Unapproved(x)'
  BY <1>1, <1>4, <1>5 DEF TaskSound, Continues, Parked, Unapproved, About
<1>7. UnderWay(x)'
  BY <1>1, <1>3, <1>4, <1>5 DEF TaskSound, UnderWay, Here, StopForgotten, About, Booting
<1>8. Owned(x)'
  BY <1>1, <1>3, <1>4, <1>5 DEF TaskSound, Owned, Booting
<1>9. Accounted(x)'
  BY <1>1, <1>3 DEF TaskSound, Accounted
<1>10. Settled(x)'
  BY <1>1, <1>3, <1>4 DEF TaskSound, Settled
<1>11. TaskSound(x)' /\ thread' \in Continuation(x)
  BY <1>6, <1>7, <1>8, <1>9, <1>10 DEF TaskSound, Continuation
<1> QED
  BY <1>1, <1>2, <1>11, ActsOn

LEMMA RunSteps ==
  ASSUME OwnerInv, NEW x \in Tasks,
         \/ LaunchDrops(x) \/ LaunchStartsWorker(x) \/ WorkerEnds(x)
         \/ RunFreesLease(x) \/ RunLeaves(x)
  PROVE  Sound'
<1>1. TypeOK /\ (Ready => thread = Idle)
  BY InHand
<1>2. CASE LaunchStartsWorker(x)
  BY <1>1, <1>2, PhaseSound, "working" \in Phase
     DEF LaunchStartsWorker, TypeOK, taskRows, ledger, approvals, commands, process, Phase,
         Unreported
<1>3. CASE WorkerEnds(x)
  BY <1>1, <1>3, PhaseSound, "ending" \in Phase
     DEF WorkerEnds, TypeOK, taskRows, ledger, approvals, commands, process, Phase,
         Unreported
<1>4. CASE RunFreesLease(x)
  BY <1>1, <1>4, PhaseSound, "leaving" \in Phase
     DEF RunFreesLease, TypeOK, taskRows, ledger, approvals, commands, process, Phase
<1>5. CASE RunLeaves(x)
  BY <1>1, <1>5, PhaseSound, "idle" \in Phase
     DEF RunLeaves, TypeOK, taskRows, ledger, approvals, commands, process, Phase
<1>6. CASE LaunchDrops(x)
  BY <1>1, <1>6, PhaseSound, "dropping" \in Phase
     DEF LaunchDrops, TypeOK, taskRows, ledger, approvals, commands, process, Phase,
         Unreported
<1> QED
  BY <1>2, <1>3, <1>4, <1>5, <1>6

LEMMA ReportSound ==
  ASSUME OwnerInv, NEW x \in Tasks, NEW report \in Verdict \cup {"none"},
         RunReports(x, report)
  PROVE  Sound'
<1>1. /\ up /\ thread = Idle /\ thread.at = "return" /\ thread.task = NoTask /\ TypeOK
      /\ x # NoTask /\ ~ Booting /\ TaskSound(x) /\ phase[x] = "ending"
      /\ x \in stopping => report = "not_verified"
      /\ phase' = [phase EXCEPT ![x] = "settled"]
      /\ Settle(x, report, "return") /\ ~ Commanded(x)
      /\ UNCHANGED <<up, crashes, effect, answered, approval, age, live, asked, queue,
                     stopping>>
  BY InHand DEF RunReports, ledger, approvals, commands, process, Commanded
<1>2. phase'[x] = "settled" /\ \A t \in Tasks : t # x => phase'[t] = phase[t]
  BY <1>1 DEF TypeOK
<1>3. /\ ~ Has(queue, x) /\ approval[x] \in {"none", "granted"} /\ Working(x)
      /\ task[x] \in {"running", "cancel_requested", "uncertain"}
  BY <1>1 DEF TaskSound, Owned, Unapproved, Working
<1>4. /\ NoEffects(x)' <=> NoEffects(x)
      /\ NoUnknown(x)' <=> NoUnknown(x)
      /\ NoUnsettled(x)' <=> NoUnsettled(x)
      /\ ~ Commanded(x)' /\ ~ Starting(x)' /\ ~ Working(x)'
      /\ ~ Has(queue', x) /\ answered'[x] = answered[x] /\ approval'[x] = approval[x]
      /\ stopping' = stopping /\ crashes' = crashes
  BY <1>1, <1>2, <1>3
     DEF NoEffects, NoUnknown, NoUnsettled, Commanded, Starting, Working
<1>5. /\ task[x] = "cancel_requested" => report = "not_verified"
      /\ task[x] = "running" => NoUnknown(x)
      /\ task[x] = "uncertain" => doubt[x] # "none"
  BY <1>1, <1>3 DEF TaskSound, UnderWay, Here, StopForgotten, Accounted, About
<1>6. Others(x)
  BY <1>1, <1>3, ReportedRun
<1>7. \A t \in Tasks : t # x => Rest(t)
  BY <1>1, <1>2, <1>6 DEF Rest, Others
<1>8. evidence'[x] = IF report = "none" THEN evidence[x] ELSE report
  BY <1>1, <1>3, ReportedRun
<1>9. CASE task[x] = "running"
  <2>1. /\ task'[x] = "verifying" /\ doubt'[x] = doubt[x]
        /\ \/ report # "none" /\ ~ NoUnsettled(x) /\ thread' = Idle
           \/ thread' = Do("verify.failed", x, "return")
           \/ /\ thread' = Do("verify.passed", x, "return")
              /\ report = "verified" /\ NoUnsettled(x)
    BY <1>1, <1>3, <1>9, ReportedRun
  <2>2. \/ /\ report # "none" /\ ~ NoUnsettled(x)
           /\ thread' = Idle /\ thread'.task = NoTask /\ thread'.at = "return"
        \/ /\ thread' = Do("verify.failed", x, "return")
           /\ thread'.task = x /\ thread'.at = "verify.failed"
        \/ /\ thread' = Do("verify.passed", x, "return")
           /\ report = "verified" /\ NoUnsettled(x)
           /\ thread'.task = x /\ thread'.at = "verify.passed"
    BY <2>1 DEF Do, Idle
  <2>3. Continues(x)'
    BY <1>1, <1>4, <1>8, <2>1, <2>2
       DEF Continues, About, ResolveEnd, VerifyStep, ApprovalStep
  <2>4. UnderWay(x)'
    <3>1. x \in placed'
      BY <1>1, <1>6, <1>9 DEF TaskSound, UnderWay, Here, Others
    <3> QED
      BY <1>4, <1>8, <2>1, <2>2, <3>1 DEF UnderWay, Here, About, VerifyStep, Verdict
  <2>5. Parked(x)' /\ Settled(x)' /\ Unapproved(x)'
    BY <1>3, <1>4, <2>1 DEF Parked, Settled, Unapproved
  <2>6. Owned(x)' /\ Accounted(x)'
    BY <1>1, <1>4, <1>5, <1>9, <2>1, <2>2 DEF Owned, Accounted, Early, Tidying, Booting
  <2>7. thread' \in Continuation(x)
    BY <2>1 DEF Continuation, AfterStep, VerifyStep
  <2>8. TaskSound(x)'
    BY <2>3, <2>4, <2>5, <2>6 DEF TaskSound
  <2> QED
    BY <1>1, <1>7, <2>7, <2>8, ActsOn
<1>10. CASE task[x] \in {"cancel_requested", "uncertain"}
  <2>1. /\ thread' = Idle /\ thread'.task = NoTask /\ thread'.at = "return"
        /\ task'[x] \in {"uncertain", "cancelled", "failed", "succeeded"}
        /\ task'[x] = "succeeded" => evidence'[x] = "verified" /\ NoUnsettled(x)
        /\ task'[x] = "uncertain" =>
             /\ doubt'[x] # "none"
             /\ \/ doubt'[x] \notin {"effect", "stopping"}
                \/ answered[x] = {} \/ ~ NoUnsettled(x)
    <3>1. CASE task[x] = "cancel_requested"
      <4>1. /\ thread' = Idle
            /\ \/ task'[x] = "cancelled"
               \/ /\ task'[x] = "uncertain" /\ doubt'[x] = "stopping"
                  /\ report = "verified" \/ ~ NoUnsettled(x)
        BY <1>1, <1>3, <3>1, ReportedRun
      <4> QED
        BY <1>5, <3>1, <4>1 DEF Idle
    <3>2. CASE task[x] = "uncertain"
      <4>1. /\ thread' = Idle /\ doubt'[x] = doubt[x]
            /\ \/ /\ task'[x] = "uncertain"
                  /\ \/ doubt[x] \notin {"effect", "stopping"}
                     \/ answered[x] = {} \/ ~ NoUnsettled(x)
               \/ task'[x] \in {"cancelled", "failed"}
               \/ task'[x] = "succeeded" /\ evidence'[x] = "verified" /\ NoUnsettled(x)
        BY <1>1, <1>3, <3>2, ReportedRun
      <4> QED
        BY <1>5, <3>2, <4>1 DEF Idle
    <3> QED
      BY <1>10, <3>1, <3>2
  <2>2. Continues(x)' /\ UnderWay(x)'
    BY <1>1, <2>1 DEF Continues, UnderWay, Here, StopForgotten, About
  <2>3. Parked(x)' /\ Settled(x)' /\ Unapproved(x)'
    <3>1. Settled(x)'
      BY <1>4, <2>1 DEF Settled
    <3>2. approval[x] # "pending" /\ task'[x] # "waiting_approval"
      BY <1>3, <2>1
    <3> QED
      BY <1>3, <1>4, <3>1, <3>2 DEF Parked, Unapproved
  <2>4. Owned(x)' /\ Accounted(x)'
    BY <1>1, <1>4, <2>1 DEF Owned, Accounted, Early, TerminalTaskState, Booting
  <2>5. thread' \in Continuation(x)
    BY <2>1 DEF Continuation
  <2>6. TaskSound(x)'
    BY <2>2, <2>3, <2>4 DEF TaskSound
  <2> QED
    BY <1>1, <1>7, <2>5, <2>6, ActsOn
<1> QED
  BY <1>3, <1>9, <1>10

\* A stop: from every state that is under way, or waits.
LEMMA StopTaskSound ==
  ASSUME OwnerInv, NEW x \in Tasks, StopTask(x) PROVE Sound'
<1>1. /\ up /\ thread.at = "return" /\ thread.task = NoTask /\ TypeOK /\ x # NoTask
      /\ ~ Booting /\ TaskSound(x) /\ task[x] \in Cancellable
      /\ task' = [task EXCEPT ![x] = "cancel_requested"]
      /\ thread' = IF task[x] = "waiting_approval"
                   THEN Do("retire_approvals", x,
                           IF Holds(x) THEN "stop_run" ELSE "cancel.confirmed")
                   ELSE Do(IF Holds(x) THEN "stop_run" ELSE "cancel.confirmed", x, "return")
      /\ UNCHANGED <<up, crashes, placed, doubt, evidence, effect, answered, approval, age, phase,
                     queue, stopping, live, asked>>
  BY InHand DEF StopTask, Legal, Sources, Target, ledger, approvals, pool, commands, process
<1>2. task'[x] = "cancel_requested" /\ \A t \in Tasks : t # x => task'[t] = task[t]
  BY <1>1 DEF TypeOK
<1>3. \A t \in Tasks : t # x => Rest(t)
  BY <1>1, <1>2 DEF Rest
<1>4. /\ Commanded(x)' <=> Commanded(x)
      /\ Starting(x)' <=> Starting(x)
      /\ Working(x)' <=> Working(x)
      /\ Tidying(x)' <=> Tidying(x)
  BY <1>1 DEF Commanded, Starting, Working, Tidying
<1>5. Holds(x) <=> phase[x] # "idle" \/ Has(queue, x)
  BY DEF Holds, InQueue, Has
<1>6. task[x] = "waiting_approval" =>
        ~ Holds(x) /\ phase[x] = "idle" /\ ~ Has(queue, x)
  <2>1. task[x] = "waiting_approval" => ~ Starting(x) /\ ~ Working(x) /\ ~ Tidying(x)
    BY <1>1 DEF TaskSound, Owned, TerminalTaskState
  <2> QED
    BY <1>1, <1>5, <2>1 DEF Starting, Working, Tidying, TypeOK, Phase, Unreported
<1>7. \/ /\ thread' = Do("retire_approvals", x, "cancel.confirmed")
         /\ thread'.at = "retire_approvals" /\ thread'.task = x
         /\ phase[x] = "idle" /\ ~ Has(queue, x)
         /\ task[x] = "waiting_approval"
      \/ /\ thread' = Do("cancel.confirmed", x, "return")
         /\ thread'.at = "cancel.confirmed" /\ thread'.task = x
         /\ phase[x] = "idle" /\ ~ Has(queue, x)
         /\ task[x] # "waiting_approval"
      \/ /\ thread' = Do("stop_run", x, "return")
         /\ thread'.at = "stop_run" /\ thread'.task = x
         /\ phase[x] # "idle" \/ Has(queue, x)
         /\ task[x] # "waiting_approval"
  BY <1>1, <1>5, <1>6 DEF Do
<1>8. Continues(x)'
  BY <1>1, <1>2, <1>7
     DEF Continues, About, ResolveEnd, VerifyStep, ApprovalStep
<1>9. UnderWay(x)'
  <2>1. CASE phase[x] = "idle" /\ ~ Has(queue, x)
    <3>1. thread'.task = x /\ thread'.at \in {"retire_approvals", "cancel.confirmed"}
      BY <1>7, <2>1
    <3>2. ~ Starting(x) /\ ~ Working(x)
      BY <2>1 DEF Starting, Working
    <3> QED
      BY <1>2, <1>4, <3>1, <3>2 DEF UnderWay, Here, StopForgotten, About
  <2>2. CASE phase[x] # "idle" \/ Has(queue, x)
    <3>1. thread'.task = x /\ thread'.at = "stop_run"
      BY <1>7, <2>2
    <3>2. Starting(x) \/ Working(x) \/ Tidying(x)
      BY <1>1, <2>2 DEF Starting, Working, Tidying, TypeOK, Phase, Unreported
    <3>3. Tidying(x) => evidence[x] # "none" \/ doubt[x] # "none"
      <4>1. Tidying(x) => task[x] \in {"verifying", "uncertain"}
        BY <1>1 DEF TaskSound, Owned, Cancellable
      <4> QED
        BY <1>1, <4>1
           DEF TaskSound, UnderWay, Here, StopForgotten, Accounted, About, VerifyStep
    <3> QED
      BY <1>1, <1>2, <1>4, <3>1, <3>2, <3>3 DEF UnderWay, Here, StopForgotten, About
  <2> QED
    BY <2>1, <2>2
<1>10. Parked(x)'
  BY <1>1, <1>2, <1>7 DEF TaskSound, Parked, About
<1>11. Settled(x)'
  BY <1>2 DEF Settled
<1>12. Owned(x)'
  <2>1. ~ Booting'
    BY <1>1, <1>7 DEF Booting
  <2>2. Starting(x)' => NoEffects(x)'
    BY <1>1, <1>4 DEF TaskSound, Owned, NoEffects
  <2> QED
    BY <1>1, <1>2, <1>4, <2>1, <2>2 DEF TaskSound, Owned
<1>13. Accounted(x)' /\ Unapproved(x)'
  BY <1>1, <1>2 DEF TaskSound, Accounted, Unapproved, Early
<1>14. thread' \in Continuation(x)
  BY <1>7 DEF Continuation
<1>15. TaskSound(x)'
  BY <1>8, <1>9, <1>10, <1>11, <1>12, <1>13 DEF TaskSound
<1> QED
  BY <1>1, <1>3, <1>14, <1>15, ActsOn

LEMMA DecideSound ==
  ASSUME OwnerInv, NEW x \in Tasks, NEW decision \in {"granted", "denied"},
         DecideApproval(x, decision)
  PROVE  Sound'
<1>1. PICK d \in {"granted", "denied", "expired"} :
        /\ approval' = [approval EXCEPT ![x] = d]
        /\ thread' = Do(DecisionEvent(d), x, "return")
  BY DEF DecideApproval
<1>2. /\ up /\ thread.at = "return" /\ thread.task = NoTask /\ TypeOK /\ x # NoTask
      /\ ~ Booting /\ TaskSound(x) /\ task[x] = "waiting_approval"
      /\ approval[x] = "pending" /\ x \in placed
      /\ UNCHANGED <<up, crashes, placed, doubt, evidence, effect, answered, task, age, phase,
                     queue, stopping, live, asked>>
  BY InHand DEF DecideApproval, Decidable, taskRows, ledger, pool, commands, process,
                TaskSound, UnderWay, Here
<1>3. approval'[x] = d /\ \A t \in Tasks : t # x => approval'[t] = approval[t]
  BY <1>1, <1>2 DEF TypeOK
<1>4. \A t \in Tasks : t # x => Rest(t)
  BY <1>2, <1>3 DEF Rest
<1>5. /\ DecisionEvent(d) \in ApprovalStep
      /\ DecisionEvent(d) = "run.approval_granted" => d = "granted"
  BY DEF DecisionEvent, ApprovalStep
<1>6. /\ thread'.at = DecisionEvent(d) /\ thread'.task = x
  BY <1>1 DEF Do
<1>7. /\ phase[x] = "idle" /\ ~ Has(queue, x) /\ NoEffects(x) /\ ~ Commanded(x)
      /\ ~ Starting(x) /\ ~ Working(x) /\ ~ Tidying(x)
  BY <1>2 DEF TaskSound, Unapproved, Owned, Accounted, Early, Starting, Working, Tidying
<1>8. /\ NoEffects(x)' /\ ~ Commanded(x)' /\ ~ Starting(x)' /\ ~ Working(x)' /\ ~ Tidying(x)'
  BY <1>2, <1>7 DEF NoEffects, Commanded, Starting, Working, Tidying
<1>9. Continues(x)'
  BY <1>2, <1>3, <1>5, <1>6 DEF Continues, About, ResolveEnd, VerifyStep, ApprovalStep
<1>10. UnderWay(x)' /\ Parked(x)' /\ Settled(x)'
  BY <1>2, <1>3, <1>5, <1>6, <1>8 DEF UnderWay, Here, StopForgotten, Parked, Settled, About
<1>11. Owned(x)' /\ Accounted(x)' /\ Unapproved(x)'
  BY <1>2, <1>3, <1>7, <1>8 DEF Owned, Accounted, Unapproved
<1>12. TaskSound(x)' /\ thread' \in Continuation(x)
  BY <1>1, <1>5, <1>9, <1>10, <1>11 DEF TaskSound, Continuation
<1> QED
  BY <1>2, <1>4, <1>12, ActsOn

\* A row changes while no stretch of code is at work on any task.
LEMMA RowSound ==
  ASSUME OwnerInv, NEW x \in Tasks, thread = Idle, ~ Booting,
         UNCHANGED <<up, crashes, thread, phase, queue, stopping>>,
         \A t \in Tasks : t # x => Rest(t), TaskSound(x)'
  PROVE  Sound'
<1>1. /\ up /\ thread.at = "return" /\ thread.task = NoTask /\ thread' = Idle
  BY DEF Idle, Booting
<1>2. thread' \in Continuation(x)
  BY <1>1 DEF Continuation
<1> QED
  BY <1>1, <1>2, ActsOn

LEMMA SweepApprovalSound ==
  ASSUME OwnerInv, NEW x \in Tasks, SweepExpiredApproval(x) PROVE Sound'
<1> DEFINE parked == task[x] = "waiting_approval"
<1>1. /\ thread = Idle /\ thread.task = NoTask /\ TypeOK /\ x # NoTask
      /\ ~ Booting /\ TaskSound(x)
      /\ age[x] = "lapsed"
      /\ task' = [task EXCEPT ![x] = IF parked THEN "failed" ELSE @]
      /\ UNCHANGED <<up, crashes, placed, doubt, evidence, effect, answered, approval, age, phase,
                     queue, stopping, live, asked, thread>>
  BY InHand
     DEF SweepExpiredApproval, Legal, Sources, Target, ledger, approvals, pool, commands,
         process
<1>2. /\ parked => task'[x] = "failed"
      /\ ~ parked => task'[x] = task[x]
      /\ \A t \in Tasks : t # x => task'[t] = task[t]
  BY <1>1 DEF TypeOK
<1>3. \A t \in Tasks : t # x => Rest(t)
  BY <1>1, <1>2 DEF Rest
<1>4. /\ NoEffects(x)' <=> NoEffects(x)
      /\ NoUnknown(x)' <=> NoUnknown(x)
      /\ NoUnsettled(x)' <=> NoUnsettled(x)
      /\ Commanded(x)' <=> Commanded(x)
      /\ Starting(x)' <=> Starting(x)
      /\ Working(x)' <=> Working(x)
      /\ Tidying(x)' <=> Tidying(x)
  BY <1>1 DEF NoEffects, NoUnknown, NoUnsettled, Commanded, Starting, Working, Tidying
<1>5. TaskSound(x)'
  <2>1. CASE parked
    <3>1. ~ Starting(x) /\ ~ Working(x) /\ ~ Tidying(x) /\ ~ Commanded(x)
      BY <1>1, <2>1 DEF TaskSound, Owned, TerminalTaskState
    <3>2. Continues(x)' /\ UnderWay(x)' /\ Parked(x)' /\ Settled(x)'
      BY <1>1, <1>2, <1>4, <2>1, <3>1
         DEF Continues, UnderWay, Here, Parked, Settled, About
    <3>3. Owned(x)' /\ Accounted(x)' /\ Unapproved(x)'
      BY <1>1, <1>2, <1>4, <2>1, <3>1
         DEF TaskSound, Owned, Accounted, Unapproved, Early, TerminalTaskState, Booting
    <3> QED
      BY <3>2, <3>3 DEF TaskSound
  <2>2. CASE ~ parked
    <3>1. task'[x] = task[x]
      BY <1>2, <2>2
    <3>2. Rest(x)
      BY <1>1, <3>1 DEF Rest
    <3> QED
      BY <1>1, <3>2, Elsewhere DEF Booting
  <2> QED
    BY <2>1, <2>2
<1> QED
  BY <1>1, <1>3, <1>5, RowSound

LEMMA LapseSound ==
  ASSUME OwnerInv, NEW x \in Tasks, ApprovalLapses(x) PROVE Sound'
<1>1. /\ thread = Idle /\ thread.task = NoTask /\ thread.at = "return" /\ TypeOK
      /\ x # NoTask /\ TaskSound(x) /\ approval[x] = "pending"
      /\ UNCHANGED <<up, crashes, placed, doubt, evidence, effect, answered, approval, task, phase,
                     queue, stopping, live, asked, thread>>
      /\ \A t \in Tasks : t # x => age'[t] = age[t]
      /\ age'[x] # "fresh"
  BY InHand
     DEF ApprovalLapses, taskRows, ledger, pool, commands, process, Idle, TypeOK
<1>2. ASSUME NEW t \in Tasks PROVE TaskSound(t)'
  <2>1. /\ NoEffects(t)' <=> NoEffects(t)
        /\ NoUnknown(t)' <=> NoUnknown(t)
        /\ NoUnsettled(t)' <=> NoUnsettled(t)
        /\ Commanded(t)' <=> Commanded(t)
        /\ Starting(t)' <=> Starting(t)
        /\ Working(t)' <=> Working(t)
        /\ Tidying(t)' <=> Tidying(t)
    BY <1>1 DEF NoEffects, NoUnknown, NoUnsettled, Commanded, Starting, Working, Tidying
  <2>2. TaskSound(t)
    BY InHand
  <2>3. Continues(t)' /\ Owned(t)' /\ Accounted(t)'
    BY <1>1, <2>1, <2>2 DEF TaskSound, Continues, Owned, Accounted, About, Booting
  <2>4. UnderWay(t)' /\ Unapproved(t)' /\ Settled(t)'
    BY <1>1, <2>1, <2>2
       DEF TaskSound, UnderWay, Here, StopForgotten, Unapproved, Settled, About, Booting
  <2>5. Parked(t)'
    BY <1>1, <2>2 DEF TaskSound, Parked, About
  <2> QED
    BY <2>3, <2>4, <2>5 DEF TaskSound
<1>3. ThreadShape'
  BY <1>1, InHand DEF ThreadShape, Booting
<1> QED
  BY <1>2, <1>3 DEF Sound

\* An answer for an effect of unknown outcome.
LEMMA AnswerSound ==
  ASSUME OwnerInv, NEW x \in Tasks, NEW k \in Slots,
         NEW outcome \in {"confirmed", "failed"}, ReconcileEffect(x, k, outcome)
  PROVE  Sound'
<1>1. /\ thread = Idle /\ thread.task = NoTask /\ TypeOK /\ x # NoTask
      /\ ~ Booting /\ TaskSound(x) /\ effect[x][k] = "unknown"
      /\ effect' = [effect EXCEPT ![x][k] = outcome]
      /\ answered' = [answered EXCEPT ![x] = @ \cup {k}]
      /\ task' = IF ReportPending(x) THEN task
                 ELSE [task EXCEPT ![x] =
                         SettledState(x, effect'[x], answered'[x], evidence[x])]
      /\ UNCHANGED <<up, crashes, placed, doubt, evidence, approval, age, phase,
                     queue, stopping, live, asked, thread>>
  BY InHand DEF ReconcileEffect, approvals, pool, commands, process
<1>2. /\ \A t \in Tasks : t # x => effect'[t] = effect[t] /\ answered'[t] = answered[t]
      /\ \A j \in Slots : effect'[x][j] = IF j = k THEN outcome ELSE effect[x][j]
  BY <1>1 DEF TypeOK
<1>3. /\ ~ NoEffects(x) /\ ~ NoUnknown(x) /\ ~ NoUnsettled(x)
      /\ task[x] \notin Early \cup {"running", "verifying", "succeeded"}
      /\ ~ Starting(x)
  BY <1>1 DEF NoEffects, NoUnknown, NoUnsettled, Unsettled, TaskSound, Owned, Accounted
<1>4. ReportPending(x) <=> Working(x)
  <2>1. InQueue(x) => Has(queue, x)
    BY DEF InQueue, Has
  <2> QED
    BY <1>3, <2>1 DEF ReportPending, Unreported, Starting, Working
<1>5. \/ task'[x] = task[x]
         /\ \/ Working(x) \/ task[x] # "uncertain" \/ ~ NoUnsettled(x)'
            \/ doubt[x] \notin {"effect", "stopping"}
      \/ /\ task[x] = "uncertain" /\ ~ Working(x)
         /\ task'[x] \in TerminalTaskState
         /\ task'[x] = "succeeded" => evidence[x] = "verified" /\ NoUnsettled(x)'
  <2>1. CASE Working(x)
    BY <1>1, <1>4, <2>1
  <2>2. CASE ~ Working(x)
    <3> DEFINE s == SettledState(x, effect'[x], answered'[x], evidence[x])
    <3>1. task'[x] = s
      BY <1>1, <1>4, <2>2 DEF TypeOK
    <3>2. answered'[x] # {}
      BY <1>1 DEF TypeOK
    <3>3. NoUnsettled(x)' <=> ~ \E j \in Slots : effect'[x][j] \in Unsettled
      BY DEF NoUnsettled
    <3>4. \/ s = task[x]
             /\ \/ task[x] # "uncertain" \/ ~ NoUnsettled(x)'
                \/ doubt[x] \notin {"effect", "stopping"}
          \/ /\ task[x] = "uncertain"
             /\ s \in TerminalTaskState
             /\ s = "succeeded" => evidence[x] = "verified" /\ NoUnsettled(x)'
      BY <3>2, <3>3 DEF SettledState, TerminalTaskState
    <3> HIDE DEF s
    <3> QED
      BY <2>2, <3>1, <3>4
  <2> QED
    BY <2>1, <2>2
<1>6. \A t \in Tasks : t # x => Rest(t)
  <2>1. \A t \in Tasks : t # x => task'[t] = task[t]
    BY <1>1 DEF TypeOK
  <2> QED
    BY <1>1, <1>2, <2>1 DEF Rest
<1>7. /\ Commanded(x)' <=> Commanded(x)
      /\ Starting(x)' <=> Starting(x)
      /\ Working(x)' <=> Working(x)
      /\ Tidying(x)' <=> Tidying(x)
  BY <1>1 DEF Commanded, Starting, Working, Tidying
<1>8. Continues(x)' /\ UnderWay(x)'
  BY <1>1, <1>3, <1>5, <1>7
     DEF TaskSound, Continues, UnderWay, Here, StopForgotten, About, TerminalTaskState,
         Booting
<1>9. Parked(x)' /\ Unapproved(x)'
  BY <1>1, <1>3, <1>5 DEF TaskSound, Parked, Unapproved, About, TerminalTaskState, Early
<1>10. Settled(x)'
  BY <1>1, <1>5, <1>7 DEF Settled, TerminalTaskState
<1>11. Owned(x)' /\ Accounted(x)'
  BY <1>1, <1>3, <1>5, <1>7
     DEF TaskSound, Owned, Accounted, TerminalTaskState, Booting, Early
<1>12. TaskSound(x)'
  BY <1>8, <1>9, <1>10, <1>11 DEF TaskSound
<1> QED
  BY <1>1, <1>6, <1>12, RowSound

\* A run with a worker moves its ledger and the commands its broker holds.
LEMMA CommandSound ==
  ASSUME OwnerInv, NEW x \in Tasks, Ready, Working(x), NEW t1, NEW d1,
         \/ t1 = task[x] /\ d1 = doubt[x]
         \/ /\ task[x] \in {"running", "cancel_requested"} /\ t1 = "uncertain"
            /\ d1 # "none",
         task[x] \in {"running", "verifying"} /\ t1 = task[x] => NoUnknown(x)',
         task'[x] = t1, doubt'[x] = d1,
         \A t \in Tasks : t # x =>
           /\ task'[t] = task[t] /\ doubt'[t] = doubt[t] /\ effect'[t] = effect[t]
           /\ live'[t] = live[t] /\ asked'[t] = asked[t],
         UNCHANGED <<up, crashes, placed, thread, evidence, answered, approval, age, phase, queue,
                     stopping>>
  PROVE  Sound'
<1>1. /\ up /\ thread = Idle /\ thread.task = NoTask /\ TypeOK /\ x # NoTask
      /\ ~ Booting /\ TaskSound(x)
  BY InHand
<1>2. \A t \in Tasks : t # x => Rest(t)
  BY DEF Rest
<1>3. /\ Working(x)' /\ ~ Starting(x)' /\ ~ Tidying(x)' /\ ~ Has(queue, x)
      /\ task[x] \in {"running", "cancel_requested", "uncertain"}
      /\ approval[x] \in {"none", "granted"}
  BY <1>1 DEF TaskSound, Owned, Unapproved, Working, Starting, Tidying
<1>4. t1 \in {"running", "cancel_requested", "uncertain"}
  BY <1>3
<1>5. Continues(x)' /\ Settled(x)' /\ Parked(x)' /\ Unapproved(x)'
  BY <1>1, <1>3, <1>4 DEF Continues, Settled, Parked, Unapproved, About
<1>6. UnderWay(x)'
  BY <1>1, <1>3, <1>4 DEF TaskSound, UnderWay, Here, StopForgotten, About
<1>7. Owned(x)'
  BY <1>1, <1>3, <1>4 DEF Owned, Booting
<1>8. Accounted(x)'
  <2>1. t1 = "running" => NoUnknown(x)'
    BY <1>3
  <2>2. t1 = "uncertain" => d1 # "none"
    BY <1>1 DEF TaskSound, Accounted
  <2> QED
    BY <1>4, <2>1, <2>2 DEF Accounted, Early
<1>9. TaskSound(x)'
  BY <1>5, <1>6, <1>7, <1>8 DEF TaskSound
<1> QED
  BY <1>1, <1>2, <1>9, RowSound

LEMMA CommandSteps ==
  ASSUME OwnerInv, NEW x \in Tasks, NEW o \in Operations,
         CommandAsked(x, o) \/ BrokerStep(x, o)
  PROVE  Sound'
<1>1. /\ Ready /\ thread = Idle /\ TypeOK /\ TaskSound(x)
      /\ UNCHANGED <<up, crashes, placed, thread, task, doubt, evidence, answered, approval, age,
                     phase, queue, stopping>>
  BY InHand
     DEF CommandAsked, BrokerStep, CommandRefused, CommandOpens, Decided, taskRows, ledger,
         approvals, process
<1>2. Working(x)
  <2>1. CASE CommandAsked(x, o)
    BY <2>1 DEF CommandAsked, Working
  <2>2. CASE BrokerStep(x, o)
    <3>1. asked[x][o] # 0
      BY <1>1, <2>2 DEF BrokerStep, CommandRefused, CommandOpens, Decided, TypeOK
    <3> QED
      BY <1>1, <3>1 DEF TaskSound, Owned, Commanded
  <2> QED
    BY <2>1, <2>2
<1>3. \A t \in Tasks : t # x =>
        effect'[t] = effect[t] /\ live'[t] = live[t] /\ asked'[t] = asked[t]
  BY <1>1
     DEF CommandAsked, BrokerStep, CommandRefused, CommandOpens, Decided, TypeOK, ledger
<1>4. task[x] \in {"running", "verifying"} => NoUnknown(x)'
  <2>1. task[x] \in {"running", "verifying"} => NoUnknown(x)
    BY <1>1 DEF TaskSound, Accounted
  <2>2. \A k \in Slots : effect'[x][k] \in {effect[x][k], "submitted"}
    BY <1>1
       DEF CommandAsked, BrokerStep, CommandRefused, CommandOpens, Decided, TypeOK, ledger
  <2> QED
    BY <2>1, <2>2 DEF NoUnknown
<1>5. task'[x] = task[x] /\ doubt'[x] = doubt[x] /\ task' = task /\ doubt' = doubt
  BY <1>1
<1> QED
  BY ONLY OwnerInv, x \in Tasks, <1>1, <1>2, <1>3, <1>4, <1>5, CommandSound

LEMMA CommandEnds ==
  ASSUME OwnerInv, NEW x \in Tasks, NEW k \in Slots, CommandStep(x, k)
  PROVE  Sound'
<1>1. /\ Ready /\ thread = Idle /\ TypeOK /\ TaskSound(x) /\ k \in live[x]
      /\ UNCHANGED <<up, crashes, placed, thread, evidence, answered, approval, age, phase, queue,
                     stopping, asked>>
      /\ live' = [live EXCEPT ![x] = @ \ {k}]
  BY InHand
     DEF CommandStep, CommandExits, CommandLost, SettlementNotWritten, taskRows, ledger,
         approvals, process
<1>2. Working(x)
  BY <1>1 DEF TaskSound, Owned, Commanded
<1>3. task[x] \in {"running", "cancel_requested", "uncertain"}
  BY <1>1, <1>2 DEF TaskSound, Owned
<1>4. \A t \in Tasks : t # x => effect'[t] = effect[t] /\ live'[t] = live[t]
  BY <1>1 DEF CommandStep, CommandExits, CommandLost, SettlementNotWritten, TypeOK, ledger
<1>5. Legal(task[x], "effect.unknown") <=> task[x] \in {"running", "cancel_requested"}
  BY <1>3 DEF Legal, Sources
<1>6. CASE CommandLost(x, k)
  <2>1. CASE task[x] \in {"running", "cancel_requested"}
    <3>1. PICK d \in {"effect", "stopping"} :
            doubt' = [doubt EXCEPT ![x] = d] /\ task' = [task EXCEPT ![x] = "uncertain"]
      BY <1>5, <1>6, <2>1 DEF CommandLost, DoubtOfUnknown, Target
    <3>2. /\ task'[x] = "uncertain" /\ doubt'[x] = d
          /\ \A t \in Tasks : t # x => task'[t] = task[t] /\ doubt'[t] = doubt[t]
      BY <1>1, <3>1 DEF TypeOK
    <3> QED
      BY <1>1, <1>2, <1>4, <2>1, <3>2, CommandSound
  <2>2. CASE task[x] = "uncertain"
    <3>1. UNCHANGED <<task, doubt>>
      BY <1>5, <1>6, <2>2 DEF CommandLost
    <3> QED
      BY <1>1, <1>2, <1>4, <2>2, <3>1, CommandSound
  <2> QED
    BY <1>3, <2>1, <2>2
<1>7. CASE ~ CommandLost(x, k)
  <2>1. /\ UNCHANGED <<task, doubt>>
        /\ \A j \in Slots : effect'[x][j] \in {effect[x][j], "confirmed", "failed"}
    BY <1>1, <1>7
       DEF CommandStep, CommandExits, SettlementNotWritten, TypeOK, taskRows, ledger
  <2>2. task[x] \in {"running", "verifying"} => NoUnknown(x)'
    BY <1>1, <2>1 DEF TaskSound, Accounted, NoUnknown
  <2> QED
    BY <1>1, <1>2, <1>4, <2>1, <2>2, CommandSound
<1> QED
  BY <1>6, <1>7

\* Leases, shutdown and an emergency stop move no row of a task.
LEMMA NodeSteps ==
  ASSUME OwnerInv,
         \/ EmergencyStop \/ NodeCloses
         \/ \E c \in Capability : LeaseLapses(c) \/ SweepExpiredLease(c)
  PROVE  Sound'
<1>1. /\ thread = Idle /\ thread.task = NoTask /\ thread.at = "return" /\ TypeOK
      /\ UNCHANGED <<up, crashes, placed, task, doubt, evidence, effect, answered, approval, age,
                     phase, queue, live, asked>>
      /\ stopping \subseteq stopping'
      /\ thread' \in {Idle, Resume("splice")} /\ (thread' # thread => up)
  BY InHand
     DEF EmergencyStop, NodeCloses, LeaseLapses, SweepExpiredLease, taskRows, ledger,
         approvals, pool, commands, process, Idle, Ready
<1>2. CASE ~ Booting
  <2>1. up /\ \A t \in Tasks : Rest(t)
    BY <1>1, <1>2 DEF Rest, Booting
  <2> QED
    BY <1>1, <2>1, ActsOnNone
<1>3. CASE Booting
  <2>1. /\ ~ up /\ UNCHANGED <<stopping, thread>>
    BY <1>1, <1>3, InHand
       DEF EmergencyStop, NodeCloses, LeaseLapses, SweepExpiredLease, pool, Ready, Booting
  <2>2. ASSUME NEW t \in Tasks PROVE TaskSound(t)'
    <3>1. /\ NoEffects(t)' <=> NoEffects(t)
          /\ NoUnknown(t)' <=> NoUnknown(t)
          /\ NoUnsettled(t)' <=> NoUnsettled(t)
          /\ Commanded(t)' <=> Commanded(t)
          /\ Starting(t)' <=> Starting(t)
          /\ Working(t)' <=> Working(t)
          /\ Tidying(t)' <=> Tidying(t)
      BY <1>1 DEF NoEffects, NoUnknown, NoUnsettled, Commanded, Starting, Working, Tidying
    <3>2. TaskSound(t)
      BY InHand
    <3>3. Continues(t)' /\ Owned(t)' /\ Accounted(t)'
      BY <1>1, <2>1, <3>1, <3>2 DEF TaskSound, Continues, Owned, Accounted, About, Booting
    <3>4. UnderWay(t)' /\ Unapproved(t)' /\ Settled(t)' /\ Parked(t)'
      BY <1>1, <2>1, <3>1, <3>2
         DEF TaskSound, UnderWay, Here, StopForgotten, Unapproved, Settled, Parked, About,
             Booting
    <3> QED
      BY <3>3, <3>4 DEF TaskSound
  <2>3. ThreadShape'
    BY <1>1, <2>1, InHand DEF ThreadShape, Booting
  <2> QED
    BY <2>2, <2>3 DEF Sound
<1> QED
  BY <1>2, <1>3

LEMMA StutterSound ==
  ASSUME OwnerInv, UNCHANGED vars PROVE Sound'
<1>1. UNCHANGED <<up, crashes, placed, task, doubt, evidence, effect, answered, approval, age,
                  phase, queue, live, asked, stopping, thread>>
  BY DEF vars, taskRows, ledger, approvals, pool, commands, process
<1>2. Sound
  BY InHand DEF Sound
<1> QED
  BY <1>1, <1>2
     DEF Sound, ThreadShape, TaskSound, Continues, Owned, Accounted, UnderWay, Here,
         StopForgotten, Parked,
         Unapproved, Settled, About, Booting, Starting, Working, Tidying, Commanded,
         NoEffects, NoUnknown, NoUnsettled

\* Every action keeps the thread in its steps and every task sound.
LEMMA SoundKept ==
  ASSUME OwnerInv, [Next]_vars PROVE Sound'
<1>1. CASE ThreadStep
  BY <1>1, EventSound, DispatchSound, PumpRestsSound, PumpStartsSound, RequestSound,
     RetireSound, StopRunSound, SpliceSound, InterruptSound, MarkSound DEF ThreadStep
<1>2. ASSUME NEW t \in Tasks, RunStep(t) PROVE Sound'
  BY <1>2, LaunchRefusedSound, DroppedRefusedSound, LaunchFailsSound, LaunchAsksSound,
     RunSteps, ReportSound DEF RunStep
<1>3. ASSUME NEW t \in Tasks, PersonStep(t) PROVE Sound'
  BY <1>3, SubmitSound, ReadySound, StopTaskSound, DecideSound, AnswerSound DEF PersonStep
<1> QED
  BY <1>1, <1>2, <1>3, CommandSteps, CommandEnds, LapseSound, SweepApprovalSound, NodeSteps,
     CrashSound, BootSound, StutterSound DEF Next
-----------------------------------------------------------------------------
(* The pool.                                                               *)

\* How a change of a phase changes what runs.
LEMMA RunningMoves ==
  ASSUME TypeOK, IsFiniteSet(Running), NEW x \in Tasks, NEW p \in Phase,
         phase' = [phase EXCEPT ![x] = p]
  PROVE  /\ Cardinality(Running) \in Nat /\ IsFiniteSet(Running')
         /\ p # "idle" /\ phase[x] # "idle" => Running' = Running
         /\ p # "idle" => Cardinality(Running') <= Cardinality(Running) + 1
         /\ p = "idle" => Cardinality(Running') <= Cardinality(Running)
<1>1. Cardinality(Running) \in Nat
  BY FS_CardinalityType
<1>2. CASE p # "idle"
  <2>1. Running' = Running \cup {x}
    BY <1>2 DEF Running, TypeOK
  <2>2. phase[x] # "idle" => x \in Running
    BY DEF Running
  <2>3. /\ IsFiniteSet(Running \cup {x})
        /\ \/ Cardinality(Running \cup {x}) = Cardinality(Running)
           \/ Cardinality(Running \cup {x}) = Cardinality(Running) + 1
    BY FS_AddElement
  <2> QED
    BY <1>1, <1>2, <2>1, <2>2, <2>3
<1>3. CASE p = "idle"
  <2>1. Running' = Running \ {x}
    BY <1>3 DEF Running, TypeOK
  <2>2. /\ IsFiniteSet(Running \ {x})
        /\ \/ Cardinality(Running \ {x}) = Cardinality(Running)
           \/ Cardinality(Running \ {x}) = Cardinality(Running) - 1
    BY FS_RemoveElement
  <2> QED
    BY <1>1, <1>3, <2>1, <2>2
<1> QED
  BY <1>2, <1>3

\* The thread is to pump, now or as the next thing it does.
ToPump == "pump" \in {thread.at, thread.then}

\* What neither runs nor queues anything, and forgets no pump, keeps the pool.
LEMMA PoolRests ==
  ASSUME OwnerInv, Running' = Running, queue' = queue,
         thread.at # "pump", ToPump => ToPump'
  PROVE  PoolInv'
BY DEF OwnerInv, PoolInv, ToPump

\* A run leaves the pool, and the pool is pumped.
LEMMA PoolGives ==
  ASSUME OwnerInv, Ready, NEW x \in Tasks, phase' = [phase EXCEPT ![x] = "idle"],
         queue' = queue, ToPump'
  PROVE  PoolInv'
<1>1. /\ Cardinality(Running) \in Nat /\ IsFiniteSet(Running')
      /\ Cardinality(Running') <= Cardinality(Running)
      /\ Cardinality(Running') \in Nat
  BY InHand, RunningMoves, FS_CardinalityType DEF OwnerInv, PoolInv, Phase
<1>2. thread.at # "pump"
  BY InHand
<1>3. Cardinality(Running') <= MaxConcurrent
  BY <1>1, BoundsAssumption DEF OwnerInv, PoolInv
<1> QED
  BY <1>1, <1>2, <1>3 DEF OwnerInv, PoolInv, ToPump

\* A job leaves the queue and nothing else moves.
LEMMA PoolDrops ==
  ASSUME OwnerInv, Running' = Running, ~ ToPump,
         Len(queue') = Len(queue) - 1, Distinct(queue'), queue # << >>
  PROVE  PoolInv'
<1>1. Len(queue) \in Nat /\ MaxQueued \in Nat
  BY InHand, BoundsAssumption, QueueFront
<1> QED
  BY <1>1 DEF OwnerInv, PoolInv, ToPump

LEMMA PoolDispatch ==
  ASSUME OwnerInv, Dispatch PROVE PoolInv'
<1>1. thread.at = "dispatch" /\ thread.then = "return" /\ Running' = Running
      /\ thread.task \in Tasks
  <2>1. thread.at \in LastStep
    BY StepType DEF Dispatch
  <2> QED
    BY <2>1, ThreadFields, InHand
       DEF Dispatch, Running, ThreadShape, VerifyStep
<1>2. CASE closing \/ PoolIsFull
  <2>1. queue' = queue
    BY <1>2 DEF Dispatch
  <2> QED
    BY <1>1, <2>1, PoolRests DEF ToPump
<1>3. CASE ~ (closing \/ PoolIsFull)
  <2>1. queue' = Append(queue, thread.task) /\ thread' = Resume("pump")
    BY <1>3 DEF Dispatch
  <2>2. ~ Has(queue, thread.task)
    BY <1>1, InHand DEF TaskSound, Continues, About
  <2>3. Len(queue') = Len(queue) + 1 /\ Distinct(queue') /\ Len(queue) \in Nat
    BY <1>1, <2>1, <2>2, InHand, QueueJoins, QueueFront
  <2>4. Cardinality(Running) \in Nat /\ MaxConcurrent \in Nat /\ MaxQueued \in Nat
    BY FS_CardinalityType, BoundsAssumption DEF OwnerInv, PoolInv
  <2>5. thread'.at = "pump"
    BY <2>1 DEF Resume
  <2>6. Cardinality(Running) < MaxConcurrent \/ Len(queue) < MaxQueued
    BY <1>3, <2>3, <2>4 DEF PoolIsFull
  <2>7. Len(queue) <= MaxQueued
    BY <1>1 DEF OwnerInv, PoolInv
  <2> QED
    BY <1>1, <2>3, <2>4, <2>5, <2>6, <2>7 DEF OwnerInv, PoolInv
<1> QED
  BY <1>2, <1>3

LEMMA PoolPumpRests ==
  ASSUME OwnerInv, PumpRests PROVE PoolInv'
<1>1. /\ thread.at = "pump" /\ Running' = Running /\ queue' = queue
      /\ thread'.at = "return" /\ thread'.then = "return"
      /\ queue = << >> \/ Cardinality(Running) >= MaxConcurrent
  BY DEF PumpRests, Running, pool, Idle
<1>2. Cardinality(Running) \in Nat /\ MaxConcurrent \in Nat /\ MaxQueued \in Nat
  BY FS_CardinalityType, BoundsAssumption DEF OwnerInv, PoolInv
<1>3. queue = << >> => Len(queue) <= MaxQueued
  BY <1>2
<1>4. Len(queue) <= MaxQueued
  BY <1>1, <1>2, <1>3 DEF OwnerInv, PoolInv
<1>5. queue # << >> => Cardinality(Running) = MaxConcurrent
  BY <1>1, <1>2 DEF OwnerInv, PoolInv
<1> QED
  BY <1>1, <1>4, <1>5 DEF OwnerInv, PoolInv

LEMMA PoolPumpStarts ==
  ASSUME OwnerInv, PumpStarts PROVE PoolInv'
<1>1. /\ thread.at = "pump" /\ queue # << >> /\ queue' = Tail(queue)
      /\ Cardinality(Running) < MaxConcurrent
  BY DEF PumpStarts
<1>2. Cardinality(Running) \in Nat /\ MaxConcurrent \in Nat /\ MaxQueued \in Nat
      /\ IsFiniteSet(Running)
  BY FS_CardinalityType, BoundsAssumption DEF OwnerInv, PoolInv
<1>3. PICK x : x = Head(queue)
  OBVIOUS
<1>4. /\ x \in Tasks /\ task[x] \in {"running", "cancel_requested"} /\ NoEffects(x)
  BY <1>1, <1>3, FrontJob
<1>5. Len(queue') = Len(queue) - 1 /\ Distinct(queue') /\ Len(queue) \in Nat
  BY <1>1, InHand, QueueMoves, QueueFront
<1>6. Len(queue') <= MaxQueued
  BY <1>2, <1>5 DEF OwnerInv, PoolInv
<1>7. CASE Refuse(x, "pump") /\ UNCHANGED phase
  <2>1. Running' = Running
    BY <1>7 DEF Running
  <2>2. thread' = Do("verify.failed", x, "pump") \/ thread' = Resume("pump")
    BY <1>4, <1>7, InHand, RefusedJob
  <2>3. "pump" \in {thread'.at, thread'.then}
    BY <2>2 DEF Do, Resume
  <2> QED
    BY <1>5, <1>6, <2>1, <2>3 DEF OwnerInv, PoolInv
<1>8. CASE phase' = [phase EXCEPT ![x] = "launching"] /\ UNCHANGED thread
  <2>1. "launching" \in Phase
    BY DEF Phase, Unreported
  <2>2. IsFiniteSet(Running') /\ Cardinality(Running') <= Cardinality(Running) + 1
    BY <1>2, <1>4, <1>8, <2>1, InHand, RunningMoves
  <2>3. Cardinality(Running') <= MaxConcurrent
    BY <1>1, <1>2, <2>2, FS_CardinalityType
  <2> QED
    BY <1>1, <1>5, <1>6, <1>8, <2>2, <2>3 DEF PoolInv
<1> QED
  BY <1>3, <1>7, <1>8 DEF PumpStarts

LEMMA PoolStopRun ==
  ASSUME OwnerInv, StopRun PROVE PoolInv'
<1>1. thread.at = "stop_run" /\ Running' = Running /\ ~ ToPump
  <2>1. thread.then = "return"
    BY InHand DEF StopRun, ThreadShape, VerifyStep
  <2> QED
    BY <2>1 DEF StopRun, Running, ToPump
<1>2. CASE InQueue(thread.task)
  <2>1. PICK i \in 1..Len(queue) : queue' = Without(i)
    BY <1>2 DEF StopRun
  <2>2. queue' = Removed(queue, i)
    BY <2>1 DEF Without, Removed
  <2>3. Len(queue') = Len(queue) - 1 /\ Distinct(queue')
    BY <2>2, InHand, QueueLoses
  <2>4. queue # << >>
    BY <2>1
  <2> QED
    BY <1>1, <2>3, <2>4, PoolDrops
<1>3. CASE ~ InQueue(thread.task)
  <2>1. queue' = queue
    BY <1>3 DEF StopRun
  <2> QED
    BY <1>1, <2>1, PoolRests
<1> QED
  BY <1>2, <1>3

LEMMA PoolSplice ==
  ASSUME OwnerInv, SpliceQueue PROVE PoolInv'
<1>1. thread.at = "splice" /\ Running' = Running /\ ~ ToPump
  <2>1. thread.then = "return"
    BY InHand DEF SpliceQueue, ThreadShape, VerifyStep
  <2> QED
    BY <2>1 DEF SpliceQueue, Running, ToPump
<1>2. CASE queue # << >>
  <2>1. queue' = Tail(queue)
    BY <1>2 DEF SpliceQueue
  <2>2. Len(queue') = Len(queue) - 1 /\ Distinct(queue')
    BY <1>2, <2>1, InHand, QueueMoves
  <2> QED
    BY <1>1, <1>2, <2>2, PoolDrops
<1>3. CASE queue = << >>
  <2>1. queue' = queue
    BY <1>3 DEF SpliceQueue
  <2> QED
    BY <1>1, <2>1, PoolRests
<1> QED
  BY <1>2, <1>3

\* A continuation that is not a pump is not forgotten either.
LEMMA PoolThread ==
  ASSUME OwnerInv,
         ApplyTaskEvent \/ RequestApproval \/ RetireApprovals
           \/ (\E t \in Tasks : InterruptTask(t)) \/ MarkInterruptedEffectsUnknown
  PROVE  PoolInv'
<1>1. Running' = Running /\ queue' = queue
  BY DEF ApplyTaskEvent, RequestApproval, RetireApprovals, InterruptTask,
         MarkInterruptedEffectsUnknown, Running, pool
<1>2. thread.at # "pump"
  BY DEF ApplyTaskEvent, RequestApproval, RetireApprovals, InterruptTask,
         MarkInterruptedEffectsUnknown, TaskEvent
<1>3. ToPump => ToPump'
  <2>1. CASE ApplyTaskEvent
    <3>1. thread.then = "pump" => thread' = Resume(thread.then)
      <4>1. thread.then = "pump" => thread.at \in VerifyStep
        BY <2>1, InHand, ThreadFields, StepType
           DEF ApplyTaskEvent, ThreadShape, TaskEvent, LastStep, FirstStep
      <4> QED
        BY <2>1, <4>1 DEF ApplyTaskEvent, AfterEvent, VerifyStep
    <3> QED
      BY <1>2, <3>1 DEF ToPump, Resume
  <2>2. CASE RequestApproval
    BY <1>2, <2>2 DEF RequestApproval, ToPump, Resume
  <2>3. CASE RetireApprovals
    BY <1>2, <2>3, InHand DEF RetireApprovals, ToPump, ThreadShape
  <2>4. CASE (\E t \in Tasks : InterruptTask(t)) \/ MarkInterruptedEffectsUnknown
    BY <1>2, <2>4, InHand, ThreadFields, StepType
       DEF InterruptTask, MarkInterruptedEffectsUnknown, ToPump
  <2> QED
    BY <2>1, <2>2, <2>3, <2>4
<1> QED
  BY <1>1, <1>2, <1>3, PoolRests

LEMMA PoolRuns ==
  ASSUME OwnerInv, NEW x \in Tasks, RunStep(x) PROVE PoolInv'
<1>1. Ready /\ thread.at # "pump" /\ ~ ToPump
  <2>1. Ready
    BY DEF RunStep, LaunchRefused, LaunchDrops, DroppedRunRefused, LaunchFails, LaunchAsks,
           LaunchStartsWorker, WorkerEnds, RunReports, RunFreesLease, RunLeaves
  <2> QED
    BY <2>1, InHand DEF ToPump, Idle
<1>2. CASE LaunchRefused(x) \/ DroppedRunRefused(x)
  <2>1. /\ task[x] \in {"running", "cancel_requested"} /\ NoEffects(x)
        /\ phase' = [phase EXCEPT ![x] = "idle"] /\ queue' = queue /\ Refuse(x, "pump")
    BY <1>2, Launching DEF LaunchRefused, DroppedRunRefused, EndsUnstarted
  <2>2. thread' = Do("verify.failed", x, "pump") \/ thread' = Resume("pump")
    BY <2>1, InHand, RefusedJob
  <2>3. ToPump'
    BY <2>2 DEF ToPump, Do, Resume
  <2> QED
    BY <1>1, <2>1, <2>3, PoolGives
<1>3. CASE LaunchAsks(x)
  <2>1. /\ task[x] \in {"running", "cancel_requested"} /\ NoEffects(x)
        /\ phase' = [phase EXCEPT ![x] = "idle"] /\ queue' = queue
    BY <1>3, Launching DEF LaunchAsks, EndsUnstarted
  <2>2. Refuse(x, "pump") => thread' = Do("verify.failed", x, "pump") \/ thread' = Resume("pump")
    BY <2>1, InHand, RefusedJob
  <2>3. \/ thread' = Do("verify.failed", x, "pump") \/ thread' = Resume("pump")
        \/ thread' = Do("request_approval", x, "pump")
    BY <1>3, <2>2 DEF LaunchAsks
  <2>4. ToPump'
    BY <2>3 DEF ToPump, Do, Resume
  <2> QED
    BY <1>1, <2>1, <2>4, PoolGives
<1>4. CASE RunLeaves(x)
  <2>1. /\ phase' = [phase EXCEPT ![x] = "idle"] /\ queue' = queue /\ ToPump'
    BY <1>4 DEF RunLeaves, ToPump, Resume
  <2> QED
    BY <1>1, <2>1, PoolGives
<1>5. ASSUME NEW p \in Phase, phase' = [phase EXCEPT ![x] = p], p # "idle",
             phase[x] # "idle", queue' = queue
      PROVE  PoolInv'
  <2>1. Running' = Running
    BY <1>5, InHand, RunningMoves DEF OwnerInv, PoolInv
  <2> QED
    BY <1>1, <1>5, <2>1, PoolRests
<1>6. CASE LaunchStartsWorker(x)
  BY <1>5, <1>6, "working" \in Phase DEF LaunchStartsWorker, Phase, Unreported
<1>7. CASE WorkerEnds(x)
  BY <1>5, <1>7, "ending" \in Phase DEF WorkerEnds, Phase, Unreported
<1>8. ASSUME NEW report \in Verdict \cup {"none"}, RunReports(x, report) PROVE PoolInv'
  BY <1>5, <1>8, "settled" \in Phase DEF RunReports, Phase
<1>9. CASE RunFreesLease(x)
  BY <1>5, <1>9, "leaving" \in Phase DEF RunFreesLease, Phase
<1>10. CASE LaunchDrops(x)
  BY <1>5, <1>10, "dropping" \in Phase DEF LaunchDrops, Phase, Unreported
<1>11. CASE LaunchFails(x)
  BY <1>5, <1>11, "settled" \in Phase DEF LaunchFails, Phase
<1> QED
  BY <1>2, <1>3, <1>4, <1>6, <1>7, <1>8, <1>9, <1>10, <1>11 DEF RunStep

\* Every action keeps the pool.
LEMMA PoolKept ==
  ASSUME OwnerInv, [Next]_vars PROVE PoolInv'
<1>1. CASE ThreadStep
  BY <1>1, PoolDispatch, PoolPumpRests, PoolPumpStarts, PoolStopRun, PoolSplice, PoolThread
     DEF ThreadStep
<1>2. ASSUME thread = Idle, phase' = phase, queue' = queue PROVE PoolInv'
  <2>1. Running' = Running /\ thread.at # "pump" /\ ~ ToPump
    BY <1>2 DEF Running, Idle, ToPump
  <2> QED
    BY <1>2, <2>1, PoolRests
<1>3. ASSUME NEW t \in Tasks,
             \/ PersonStep(t) \/ ApprovalLapses(t) \/ SweepExpiredApproval(t)
             \/ \E o \in Operations : CommandAsked(t, o) \/ BrokerStep(t, o)
             \/ \E k \in Slots : CommandStep(t, k)
      PROVE  PoolInv'
  <2>1. thread = Idle /\ phase' = phase /\ queue' = queue
    BY <1>3
       DEF PersonStep, Submit, CapabilityBecomesReady, StopTask, DecideApproval,
           ReconcileEffect, ApprovalLapses, SweepExpiredApproval, CommandAsked, BrokerStep,
           CommandRefused, CommandOpens, Decided, CommandStep, CommandExits, CommandLost,
           SettlementNotWritten, Ready, pool
  <2> QED
    BY <1>2, <2>1
<1>4. CASE \/ EmergencyStop \/ NodeCloses
           \/ \E c \in Capability : LeaseLapses(c) \/ SweepExpiredLease(c)
  <2>1. thread = Idle /\ phase' = phase /\ queue' = queue
    BY <1>4 DEF EmergencyStop, NodeCloses, LeaseLapses, SweepExpiredLease, Ready, pool
  <2> QED
    BY <1>2, <2>1
<1>5. CASE Crash
  <2>1. Running' = {} /\ queue' = << >>
    BY <1>5 DEF Crash, Running
  <2>2. IsFiniteSet({}) /\ Cardinality({}) = 0 /\ Distinct(<< >>) /\ Len(<< >>) = 0
    BY FS_EmptySet, EmptyQueue
  <2> QED
    BY <2>1, <2>2, BoundsAssumption DEF PoolInv
<1>6. CASE Boot
  <2>1. thread = Idle /\ phase' = phase /\ queue' = queue
    BY <1>6, InHand DEF Boot, ThreadShape, pool
  <2> QED
    BY <1>2, <2>1
<1>7. CASE UNCHANGED vars
  <2>1. phase' = phase /\ queue' = queue /\ thread' = thread
    BY <1>7 DEF vars, pool
  <2>2. Running' = Running
    BY <2>1 DEF Running
  <2> QED
    BY <2>1, <2>2 DEF OwnerInv, PoolInv
<1> QED
  BY <1>1, <1>3, <1>4, <1>5, <1>6, <1>7, PoolRuns DEF Next

LEMMA OwnerStart == Init => OwnerInv
<1> SUFFICES ASSUME Init PROVE OwnerInv
  OBVIOUS
<1>1. TypeOK
  BY InitTyped
<1>2. /\ up /\ crashes = 0 /\ queue = << >> /\ thread = Idle
      /\ thread.at = "return" /\ thread.task = NoTask /\ thread.then = "return"
  BY DEF Init, Idle
<1>3. ThreadShape
  BY <1>2 DEF ThreadShape, Booting, VerifyStep, TaskEvent
<1>4. ASSUME NEW t \in Tasks PROVE TaskSound(t)
  <2>1. /\ task[t] = "absent" /\ phase[t] = "idle" /\ approval[t] = "none"
        /\ live[t] = {} /\ \A o \in Operations : asked[t][o] = 0
        /\ \A k \in Slots : effect[t][k] = "none"
    BY DEF Init
  <2>2. ~ Has(queue, t) /\ \A steps : ~ (thread.task = t /\ thread.at \in steps)
    BY <1>2, EmptyQueue, TasksAssumption
  <2>3. NoEffects(t) /\ ~ Starting(t) /\ ~ Working(t) /\ ~ Tidying(t) /\ ~ Commanded(t)
    BY <2>1, <2>2 DEF NoEffects, Starting, Working, Tidying, Commanded
  <2>4. Continues(t) /\ Owned(t) /\ Accounted(t)
    BY <2>1, <2>2, <2>3 DEF Continues, Owned, Accounted, About
  <2>5. UnderWay(t) /\ Parked(t) /\ Unapproved(t) /\ Settled(t)
    BY <2>1, <2>2, <2>3 DEF UnderWay, Here, StopForgotten, Parked, Unapproved, Settled
  <2> QED
    BY <2>4, <2>5 DEF TaskSound
<1>5. PoolInv
  <2>1. Running = {}
    BY DEF Init, Running
  <2> QED
    BY <1>2, <2>1, FS_EmptySet, EmptyQueue, BoundsAssumption DEF PoolInv
<1> QED
  BY <1>1, <1>3, <1>4, <1>5 DEF OwnerInv

\* Every action keeps the node sound.
LEMMA OwnerKept == OwnerInv /\ [Next]_vars => OwnerInv'
<1> SUFFICES ASSUME OwnerInv, [Next]_vars PROVE OwnerInv'
  OBVIOUS
<1>1. TypeOK'
  BY TypePreserved DEF OwnerInv
<1> QED
  BY <1>1, SoundKept, PoolKept DEF OwnerInv, Sound

\* Between any two transactions of a node, whatever it was asked for and
\* wherever it was stopped or crashed, every row that says a task is under way
\* is backed by a job, a run, a step of the thread that is still to come, or
\* the recovery of the next boot, which looks only at the tasks of this node:
\* what it cannot see is a stop, cut by a crash before it was confirmed, of a
\* task that was never dispatched (task-dispatch.ts, work-recovery.ts:176-184).
THEOREM OwnerSound == Spec => []OwnerInv
<1> QED
  BY OwnerStart, OwnerKept, PTL DEF Spec
-----------------------------------------------------------------------------
(* What follows from it.                                                   *)

\* The jobs of a task, and the runs that are still to report on it.
LEMMA StillToReport ==
  ASSUME NEW t \in Tasks
  PROVE  /\ InQueue(t) <=> Has(queue, t)
         /\ ReportPending(t) <=> Starting(t) \/ Working(t)
         /\ Holds(t) <=> phase[t] # "idle" \/ Has(queue, t)
BY DEF InQueue, Has, ReportPending, Holds, Starting, Working, Unreported

\* No handler that read a task and goes on to apply an event to it finds that
\* event refused: what it read is still so when it writes.  (The expiry sweep,
\* which reads nothing and ignores the refusal on purpose, is not one of them.)
THEOREM EventsLegal == Spec => []EventsAreLegal
<1>1. OwnerInv => EventsAreLegal
  BY ThreadEvents DEF EventsAreLegal
<1> QED
  BY <1>1, OwnerSound, PTL

\* Between two handlers of a running node, a task that reads as under way has
\* a job, a run, or an effect of open outcome: neither dispatch, pump, stop nor
\* splice leaves one that nothing settles, and a crash and the boot after it
\* leave only the stop of a task that was never dispatched (StopForgotten).
THEOREM OpenTasksOwned == Spec => []EveryOpenTaskHasAnOwner
<1>1. ASSUME OwnerInv, up, thread = Idle, NEW t \in Tasks
      PROVE  /\ task[t] = "running" => ReportPending(t)
             /\ /\ task[t] = "cancel_requested" /\ doubt[t] = "none"
                /\ evidence[t] = "none" /\ ~ StopForgotten(t)
                => ReportPending(t)
             /\ task[t] = "verifying" => ReportPending(t) \/ UnsettledSlots(t) # {}
             /\ task[t] # "dispatched"
  <2>1. UnderWay(t) /\ ~ Booting /\ \A steps : "return" \notin steps => ~ About(t, steps)
    BY <1>1, InHand DEF TaskSound, Ready, About
  <2>2. ~ About(t, {"dispatch"}) /\ ~ About(t, {"dispatch.acknowledged"})
        /\ ~ About(t, VerifyStep)
        /\ ~ About(t, {"retire_approvals", "cancel.confirmed"})
    BY <2>1 DEF VerifyStep
  <2> QED
    BY <2>1, <2>2, StillToReport, LedgerGrades DEF UnderWay, Here, StopForgotten
<1>2. OwnerInv => EveryOpenTaskHasAnOwner
  BY <1>1 DEF EveryOpenTaskHasAnOwner
<1> QED
  BY <1>2, OwnerSound, PTL

\* A task that has ended has no command, no worker and no job left: whatever
\* settles a task comes after all that could still act for it.
THEOREM EndsQuietly == Spec => []EndedTaskIsQuiet
<1>1. ASSUME OwnerInv, NEW t \in Tasks, task[t] \in TerminalTaskState
      PROVE  live[t] = {} /\ ~ ReportPending(t)
  <2>1. Owned(t)
    BY <1>1, InHand DEF TaskSound
  <2>2. ~ Starting(t) /\ ~ Working(t)
    BY <1>1, <2>1 DEF Owned, TerminalTaskState
  <2> QED
    BY <2>1, <2>2, StillToReport DEF Owned, Commanded
<1>2. OwnerInv => EndedTaskIsQuiet
  BY <1>1 DEF EndedTaskIsQuiet
<1> QED
  BY <1>2, OwnerSound, PTL

\* Without a crash, a parked task has a pending approval and a pending
\* approval within its deadline has a parked task, between any two handlers:
\* parking, stopping, deciding and sweeping write both.
THEOREM ParkedAnswerable == Spec => []ParkedIsAnswerable
<1>1. ASSUME OwnerInv, crashes = 0, up, thread = Idle, NEW t \in Tasks
      PROVE  /\ task[t] = "waiting_approval" => approval[t] = "pending"
             /\ approval[t] = "pending" /\ age[t] = "fresh"
                  => task[t] = "waiting_approval"
  <2>1. Parked(t) /\ thread.at = "return"
    BY <1>1, InHand DEF TaskSound, Ready
  <2>2. /\ ~ About(t, ApprovalStep \cup {"request_approval"})
        /\ ~ About(t, {"retire_approvals"})
    BY <2>1 DEF About, ApprovalStep
  <2> QED
    BY <1>1, <2>1, <2>2 DEF Parked
<1>2. OwnerInv => ParkedIsAnswerable
  BY <1>1 DEF ParkedIsAnswerable
<1> QED
  BY <1>2, OwnerSound, PTL

\* Nothing of a refused task is queued or runs, and no worker runs while its
\* approval is a question: not in a job queued before, nor after a crash.
THEOREM RefusedRunsNothing == Spec => []RefusedApprovalRunsNothing
<1>1. ASSUME OwnerInv, NEW t \in Tasks
      PROVE  /\ approval[t] \in {"denied", "expired"} => ~ Holds(t)
             /\ phase[t] \in {"working", "ending"} => approval[t] \in {"none", "granted"}
  <2>1. Unapproved(t)
    BY <1>1, InHand DEF TaskSound
  <2> QED
    BY <2>1, StillToReport DEF Unapproved
<1>2. OwnerInv => RefusedApprovalRunsNothing
  BY <1>1 DEF RefusedApprovalRunsNothing
<1> QED
  BY <1>2, OwnerSound, PTL

\* Without a crash, what a person answered for an uncertain task settles it, at
\* the answer (reconcileEffect) or at the report of the run still out.
THEOREM AnswersSettle == Spec => []AnsweredMeansSettled
<1>1. ASSUME OwnerInv, crashes = 0, NEW t \in Tasks, task[t] = "uncertain",
             doubt[t] \in {"effect", "stopping"}, answered[t] # {}
      PROVE  ReportPending(t) \/ UnsettledSlots(t) # {}
  <2>1. Settled(t)
    BY <1>1, InHand DEF TaskSound
  <2> QED
    BY <1>1, <2>1, StillToReport, LedgerGrades DEF Settled
<1>2. OwnerInv => AnsweredMeansSettled
  BY <1>1 DEF AnsweredMeansSettled
<1> QED
  BY <1>2, OwnerSound, PTL

\* A task succeeds only on verified evidence and with no effect of open
\* outcome, through every way it can be settled: a report, an answer, a retry.
THEOREM SuccessEarned == Spec => []SuccessIsEarned
<1>1. ASSUME OwnerInv, NEW t \in Tasks, task[t] = "succeeded"
      PROVE  evidence[t] = "verified" /\ \A k \in Slots : effect[t][k] \notin Unsettled
  BY <1>1, InHand DEF TaskSound, Accounted, NoUnsettled
<1>2. OwnerInv => SuccessIsEarned
  BY <1>1 DEF SuccessIsEarned
<1> QED
  BY <1>2, OwnerSound, PTL

\* The pool keeps maxConcurrent and maxQueued, holds a task once, and leaves no
\* job waiting beside a free place, however its runs start and end.
THEOREM PoolSound == Spec => []PoolIsSound
<1>1. ASSUME OwnerInv PROVE PoolIsSound
  <2>1. ASSUME NEW i \in 1..Len(queue) PROVE phase[queue[i]] = "idle"
    <3>1. queue[i] \in Tasks
      BY <1>1, QueuedType, InHand
    <3>2. Has(queue, queue[i])
      BY DEF Has
    <3> QED
      BY <1>1, <3>1, <3>2, InHand DEF TaskSound, Owned
  <2>2. thread = Idle => /\ Len(queue) <= MaxQueued
                         /\ queue # << >> => Cardinality(Running) = MaxConcurrent
    BY <1>1 DEF OwnerInv, PoolInv, Idle
  <2> QED
    BY <1>1, <2>1, <2>2 DEF OwnerInv, PoolInv, Distinct, PoolIsSound
<1>2. OwnerInv => PoolIsSound
  BY <1>1
<1> QED
  BY <1>2, OwnerSound, PTL
-----------------------------------------------------------------------------
(* The leases.                                                             *)

\* What LeaseIsKept says of one task.
LeaseStep(t) ==
  LET c == CapabilityOf[t] IN
  /\ Uses(t) /\ lease[c] = t /\ ~ lapsed[c] /\ Uses(t)' => lease'[c] = t
  /\ ~ Uses(t) /\ Uses(t)' =>
       lease'[c] = t /\ ~ lapsed'[c] /\ (lease[c] = NoTask \/ lapsed[c])

\* What writes no lease row, and gives no run its capability.
LEMMA LeaseRests ==
  ASSUME lease' = lease, NEW t \in Tasks, Uses(t)' => Uses(t)
  PROVE  LeaseStep(t)
BY DEF LeaseStep

\* A run that frees its lease frees nobody else's, and uses it no longer.
LEMMA LeaseFreed ==
  ASSUME OwnerInv, NEW x \in Tasks, FreeLease(x), ~ Uses(x)', NEW t \in Tasks,
         t # x => phase'[t] = phase[t]
  PROVE  LeaseStep(t)
<1>1. CapabilityOf[t] \in Capability /\ CapabilityOf[x] \in Capability
  BY CapabilityAssumption
<1>2. CASE t = x
  BY <1>2 DEF LeaseStep
<1>3. CASE t # x
  <2>1. Uses(t)' <=> Uses(t)
    BY <1>3 DEF Uses
  <2>2. lease[CapabilityOf[t]] = t => lease'[CapabilityOf[t]] = t
    BY <1>1, <1>3, InHand DEF FreeLease, leases, TypeOK
  <2> QED
    BY <2>1, <2>2 DEF LeaseStep
<1> QED
  BY <1>2, <1>3

\* pump gives a job the lease of nobody, or of a holder whose time was up.
LEMMA LeaseGiven ==
  ASSUME OwnerInv, PumpStarts, NEW t \in Tasks PROVE LeaseStep(t)
<1>1. PICK x : x = Head(queue)
  OBVIOUS
<1>2. x \in Tasks /\ phase[x] = "idle"
  BY <1>1, FrontJob DEF PumpStarts
<1>3. PICK c : c = CapabilityOf[x]
  OBVIOUS
<1>4. c \in Capability /\ CapabilityOf[t] \in Capability
  BY <1>2, <1>3, CapabilityAssumption
<1>5. lapsed'[c] = (lapsed[c] /\ ~ Admissible(x))
  <2>1. lapsed' = [lapsed EXCEPT ![c] = @ /\ ~ Admissible(x)]
    BY <1>1, <1>3 DEF PumpStarts
  <2> QED
    BY <1>4, <2>1, InHand DEF TypeOK
<1>6. Admissible(x) => lease[c] = NoTask \/ lapsed[c]
  BY <1>3 DEF Admissible
<1>7. CASE /\ Admissible(x) /\ lease' = [lease EXCEPT ![c] = x]
           /\ phase' = [phase EXCEPT ![x] = "launching"]
  <2>1. /\ lease'[c] = x
        /\ CapabilityOf[t] # c => lease'[CapabilityOf[t]] = lease[CapabilityOf[t]]
        /\ t # x => phase'[t] = phase[t]
    BY <1>2, <1>4, <1>7, InHand DEF TypeOK
  <2>2. ~ lapsed'[c] /\ (lease[c] = NoTask \/ lapsed[c]) /\ t # NoTask
    BY <1>5, <1>6, <1>7, TasksAssumption
  <2>3. t # x => (Uses(t)' <=> Uses(t))
    BY <2>1 DEF Uses
  <2>4. t = x => ~ Uses(t)
    BY <1>2 DEF Uses
  <2> QED
    BY <1>3, <2>1, <2>2, <2>3, <2>4 DEF LeaseStep
<1>8. CASE /\ lease' = [lease EXCEPT ![c] = IF Admissible(x) THEN NoTask ELSE @]
           /\ phase' = phase
  <2>1. /\ Admissible(x) => lease'[c] = NoTask
        /\ ~ Admissible(x) => lease'[c] = lease[c]
        /\ CapabilityOf[t] # c => lease'[CapabilityOf[t]] = lease[CapabilityOf[t]]
    BY <1>4, <1>8, InHand DEF TypeOK
  <2>2. Uses(t)' <=> Uses(t)
    BY <1>8 DEF Uses
  <2> QED
    BY <1>6, <2>1, <2>2, TasksAssumption DEF LeaseStep
<1> QED
  BY <1>1, <1>3, <1>7, <1>8 DEF PumpStarts

\* A step of a run: it frees its own lease, or moves on with it.
LEMMA LeaseOfRun ==
  ASSUME OwnerInv, NEW x \in Tasks, RunStep(x), NEW t \in Tasks PROVE LeaseStep(t)
<1>1. \A p : phase' = [phase EXCEPT ![x] = p] =>
        phase'[x] = p /\ (t # x => phase'[t] = phase[t])
  BY InHand DEF TypeOK
<1>2. ASSUME FreeLease(x), NEW p \in {"idle", "dropping", "leaving"},
             phase' = [phase EXCEPT ![x] = p]
      PROVE  LeaseStep(t)
  <2>1. ~ Uses(x)' /\ (t # x => phase'[t] = phase[t])
    BY <1>1, <1>2 DEF Uses
  <2> QED
    BY <1>2, <2>1, LeaseFreed
<1>3. ASSUME UNCHANGED leases, NEW p, phase' = [phase EXCEPT ![x] = p],
             Uses(x) \/ p = "idle"
      PROVE  LeaseStep(t)
  <2>1. Uses(t)' => Uses(t)
    BY <1>1, <1>3 DEF Uses
  <2> QED
    BY <1>3, <2>1, LeaseRests DEF leases
<1>4. CASE LaunchRefused(x) \/ LaunchAsks(x)
  BY <1>2, <1>4 DEF LaunchRefused, LaunchAsks, EndsUnstarted
<1>5. CASE LaunchDrops(x)
  BY <1>2, <1>5 DEF LaunchDrops
<1>6. CASE DroppedRunRefused(x)
  BY <1>3, <1>6 DEF DroppedRunRefused
<1>7. CASE LaunchFails(x) \/ LaunchStartsWorker(x)
  BY <1>3, <1>7 DEF LaunchFails, LaunchStartsWorker, Uses
<1>8. CASE WorkerEnds(x)
  BY <1>3, <1>8 DEF WorkerEnds, Uses
<1>9. ASSUME NEW report \in Verdict \cup {"none"}, RunReports(x, report) PROVE LeaseStep(t)
  BY <1>3, <1>9 DEF RunReports, Uses
<1>10. CASE RunFreesLease(x)
  BY <1>2, <1>10 DEF RunFreesLease
<1>11. CASE RunLeaves(x)
  BY <1>3, <1>11 DEF RunLeaves
<1> QED
  BY <1>4, <1>5, <1>6, <1>7, <1>8, <1>9, <1>10, <1>11 DEF RunStep

\* Every step keeps the lease of a run that uses it in time.
LEMMA LeaseKept ==
  ASSUME OwnerInv, [Next]_vars, NEW t \in Tasks PROVE LeaseStep(t)
<1>1. ASSUME lease' = lease, phase' = phase PROVE LeaseStep(t)
  BY <1>1, LeaseRests DEF Uses
<1>2. CASE ThreadStep
  <2>1. ThreadStep /\ ~ PumpStarts => lease' = lease /\ phase' = phase
    BY DEF ThreadStep, ApplyTaskEvent, Dispatch, PumpRests, RequestApproval,
           RetireApprovals, StopRun, SpliceQueue, InterruptTask,
           MarkInterruptedEffectsUnknown, pool, leases
  <2> QED
    BY <1>1, <1>2, <2>1, LeaseGiven
<1>3. ASSUME NEW x \in Tasks,
             \/ PersonStep(x) \/ ApprovalLapses(x) \/ SweepExpiredApproval(x)
             \/ \E o \in Operations : CommandAsked(x, o) \/ BrokerStep(x, o)
             \/ \E k \in Slots : CommandStep(x, k)
      PROVE  LeaseStep(t)
  <2>1. PersonStep(x) => lease' = lease /\ phase' = phase
    BY DEF PersonStep, Submit, CapabilityBecomesReady, StopTask, DecideApproval,
           ReconcileEffect, pool, leases
  <2>2. ApprovalLapses(x) \/ SweepExpiredApproval(x) => lease' = lease /\ phase' = phase
    BY DEF ApprovalLapses, SweepExpiredApproval, pool, leases
  <2>3. ASSUME NEW o \in Operations, CommandAsked(x, o) \/ BrokerStep(x, o)
        PROVE  lease' = lease /\ phase' = phase
    BY <2>3 DEF CommandAsked, BrokerStep, CommandRefused, CommandOpens, leases
  <2>4. ASSUME NEW k \in Slots, CommandStep(x, k)
        PROVE  lease' = lease /\ phase' = phase
    BY <2>4 DEF CommandStep, CommandExits, CommandLost, SettlementNotWritten, leases
  <2> QED
    BY <1>1, <1>3, <2>1, <2>2, <2>3, <2>4
<1>4. ASSUME NEW c \in Capability, LeaseLapses(c) PROVE LeaseStep(t)
  BY <1>1, <1>4 DEF LeaseLapses, pool
<1>5. ASSUME NEW c \in Capability, SweepExpiredLease(c) PROVE LeaseStep(t)
  <2>1. /\ phase' = phase /\ lapsed[c]
        /\ \A d \in Capability : d # c => lease'[d] = lease[d]
    BY <1>5, InHand DEF SweepExpiredLease, TypeOK, pool
  <2>2. Uses(t)' <=> Uses(t)
    BY <2>1 DEF Uses
  <2> QED
    BY <2>1, <2>2, CapabilityAssumption DEF LeaseStep
<1>6. CASE Crash
  BY <1>6, LeaseRests DEF Crash, Uses, leases
<1>7. CASE EmergencyStop \/ NodeCloses \/ Boot \/ UNCHANGED vars
  <2>1. lease' = lease /\ phase' = phase
    BY <1>7 DEF EmergencyStop, NodeCloses, Boot, vars, pool, leases
  <2> QED
    BY <1>1, <2>1
<1> QED
  BY <1>2, <1>3, <1>4, <1>5, <1>6, <1>7, LeaseOfRun DEF Next

\* A run is only ever overtaken under its capability after its lease's time is
\* up: acquireLease gives a job the lease of nobody or of a holder that is out
\* of time, and neither the release of a run that was overtaken before, nor a
\* refused job, nor the sweep, nor a crash and its boot takes it from a run
\* that is in time.  (Past that time nothing keeps two runs apart.)
THEOREM LeaseKeptHolds == Spec => LeaseIsKept
<1>1. OwnerInv /\ [Next]_vars => [\A t \in Tasks : LeaseStep(t)]_vars
  BY LeaseKept
<1> QED
  BY <1>1, OwnerSound, PTL DEF Spec, LeaseIsKept, LeaseStep
=============================================================================
