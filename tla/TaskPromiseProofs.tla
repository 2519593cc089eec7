------------------------- MODULE TaskPromiseProofs -------------------------
(* TaskDispatch implements TaskPromise: each step of a node is a step of    *)
(* the promise, or none of its business.                                    *)
EXTENDS TaskOwnerProofs

\* What still waits for its worker.
Waits(t) ==
  ~ Working(t) /\ (task[t] \in Early \/ Starting(t) \/ About(t, {"dispatch"}))

\* Work that is not over has no evidence: a verified report of an earlier run
\* never passes for one of a run that was cut.
EvidenceInv == \A t \in Tasks : Working(t) \/ Waits(t) => evidence[t] = "none"

Over == {"proved", "over"}
Answer == {"granted", "denied", "expired"}

\* What work that stands at w can become when it is given up or done.
Outcomes(w) ==
  {w} \cup (IF w = "none" THEN {"over"} ELSE IF w = "doing" THEN Over ELSE {})

\* The steps of the promise, said of one task.
Turn(s, w, c, s2, w2, c2) ==
  \/ c2 = c /\ s2 = s /\ w2 = w
  \/ c2 = c /\ s = "none" /\ s2 = "open" /\ w2 = w
  \/ c2 = c /\ s \in {"open", "stopping"} /\ w = "none" /\ c \in {"none", "granted"}
       /\ s2 = s /\ w2 = "doing"
  \/ c2 = c /\ s # "none" /\ s2 = s /\ w2 \in Outcomes(w)
  \/ c2 = c /\ s \in {"open", "uncertain"} /\ s2 = "stopping"
       /\ w2 \in {w, IF w = "none" THEN "over" ELSE w}
  \/ c2 = c /\ s \in {"open", "stopping"} /\ s2 = "uncertain" /\ w2 \in Outcomes(w)
  \/ c2 = c /\ s \in {"open", "stopping", "uncertain"} /\ s2 \in TerminalTaskState
       /\ w2 \in Outcomes(w) \cap Over
       /\ (s2 = "succeeded" => w2 = "proved" /\ s # "stopping")
  \/ s2 = s /\ w2 = w /\ s = "open" /\ w = "none" /\ c = "none" /\ c2 = "asked"
  \/ s2 = s /\ w2 = w /\ c = "asked" /\ c2 \in Answer

\* A step is no business of t: it leaves its part of the promise alone.
Same(t) ==
  /\ Said(t)' = Said(t) /\ Work(t)' = Work(t) /\ Consent(t)' = Consent(t)
  /\ evidence'[t] = evidence[t]

\* A step is a step of the promise about t.
Turned(t) ==
  /\ Turn(Said(t), Work(t), Consent(t), Said(t)', Work(t)', Consent(t)')
  /\ evidence'[t] = evidence[t] \/ Work(t)' \in Over

\* A crash cuts the work of t, if it has any to cut.
IsCut(t) ==
  /\ Said(t)' = Said(t) /\ Consent(t)' = Consent(t) /\ evidence'[t] = evidence[t]
  /\ \/ Work(t)' = Work(t)
     \/ Said(t) # "none" /\ Work(t) \in {"none", "doing"} /\ Work(t)' = "over"

\* A step of the node is one of the three.
Promised ==
  \/ \A t \in Tasks : IsCut(t)
  \/ \E x \in Tasks : Turned(x) /\ (\A t \in Tasks : t # x => Same(t))
-----------------------------------------------------------------------------
(* The mapping.                                                            *)

\* What the mapping makes of the work of a task, before a step and after it.
LEMMA WorkShown ==
  ASSUME OwnerInv, OwnerInv', NEW t \in Tasks
  PROVE  /\ Work(t) = IF Working(t) THEN "doing"
                      ELSE IF Waits(t) THEN "none"
                      ELSE IF evidence[t] = "verified" THEN "proved" ELSE "over"
         /\ Work(t)' = IF Working(t)' THEN "doing"
                       ELSE IF Waits(t)' THEN "none"
                       ELSE IF evidence'[t] = "verified" THEN "proved" ELSE "over"
<1>1. /\ AtWork(t) <=> Working(t)
      /\ Unbegun(t) <=> task[t] \in Early \/ Starting(t) \/ About(t, {"dispatch"})
  <2>1. Owned(t)
    BY InHand DEF TaskSound
  <2>2. AtWork(t) <=> Working(t)
    BY <2>1 DEF AtWork, Working, Owned, Commanded
  <2>3. InQueue(t) <=> Has(queue, t)
    BY DEF InQueue, Has
  <2>4. About(t, {"dispatch"}) <=> thread.at = "dispatch" /\ thread.task = t
    BY DEF About
  <2> QED
    BY <2>2, <2>3, <2>4 DEF Unbegun, Early, Starting
<1>2. /\ AtWork(t)' <=> Working(t)'
      /\ Unbegun(t)' <=> task'[t] \in Early \/ Starting(t)' \/ About(t, {"dispatch"})'
  <2>1. Owned(t)'
    BY DEF OwnerInv, TaskSound
  <2>2. AtWork(t)' <=> Working(t)'
    BY <2>1 DEF AtWork, Working, Owned, Commanded
  <2>3. InQueue(t)' <=> Has(queue', t)
    BY DEF InQueue, Has
  <2>4. About(t, {"dispatch"})' <=> thread'.at = "dispatch" /\ thread'.task = t
    BY DEF About
  <2> QED
    BY <2>2, <2>3, <2>4 DEF Unbegun, Early, Starting
<1> QED
  BY <1>1, <1>2 DEF Work, Waits

\* A step does nothing to t that the promise speaks of.
Still(t) ==
  /\ task'[t] = task[t] /\ evidence'[t] = evidence[t] /\ approval'[t] = approval[t]
  /\ phase'[t] = phase[t] /\ (Has(queue', t) <=> Has(queue, t))
  /\ thread.task # t \/ thread.at # "dispatch"
  /\ thread'.task # t \/ thread'.at # "dispatch"

LEMMA StillSame ==
  ASSUME OwnerInv, OwnerInv', NEW t \in Tasks, Still(t) PROVE Same(t)
<1>1. Working(t)' <=> Working(t)
  BY DEF Still, Working
<1>2. Starting(t)' <=> Starting(t)
  BY DEF Still, Starting
<1>3. ~ About(t, {"dispatch"}) /\ ~ About(t, {"dispatch"})'
  BY DEF Still, About
<1>4. Waits(t)' <=> Waits(t)
  BY <1>1, <1>2, <1>3 DEF Still, Waits
<1>5. Work(t)' = Work(t)
  BY <1>1, <1>4, WorkShown DEF Still
<1> QED
  BY <1>5 DEF Still, Same, Said, Consent

LEMMA OneTurns ==
  ASSUME OwnerInv, OwnerInv', NEW x \in Tasks, Turned(x),
         \A t \in Tasks : t # x => Still(t)
  PROVE  Promised
BY StillSame DEF Promised

LEMMA NoneTurns ==
  ASSUME OwnerInv, OwnerInv', \A t \in Tasks : Still(t) PROVE Promised
BY StillSame DEF Promised, Same, IsCut

\* The rows of x that the promise reads are as they were, and so is its work.
LEMMA NothingTurns ==
  ASSUME NEW x \in Tasks, task'[x] = task[x], approval'[x] = approval[x],
         evidence'[x] = evidence[x], Work(x)' = Work(x)
  PROVE  Turned(x)
BY DEF Turned, Turn, Said, Consent
-----------------------------------------------------------------------------
(* The steps of the thread.                                                *)

\* A job that is refused is work that is given up.
LEMMA RefusalTurns ==
  ASSUME OwnerInv, OwnerInv', NEW x \in Tasks, NEW next \in AfterStep, Refuse(x, next),
         task[x] \in {"running", "cancel_requested"}, NoEffects(x), Waits(x),
         thread.task \in {x, NoTask}, approval' = approval,
         phase'[x] \in {"idle", "settled"}, ~ Has(queue', x),
         \A t \in Tasks : t # x =>
           phase'[t] = phase[t] /\ (Has(queue', t) <=> Has(queue, t))
  PROVE  Promised
<1>1. TypeOK /\ TaskSound(x) /\ x # NoTask
  BY InHand
<1>2. /\ Others(x) /\ evidence'[x] = "not_verified"
      /\ \/ task[x] = "running" /\ task'[x] = "verifying"
            /\ thread' = Do("verify.failed", x, next)
         \/ task[x] = "cancel_requested" /\ task'[x] = "cancelled"
            /\ thread' = Resume(next)
  BY <1>1, RefusedJob
<1>3. /\ thread'.task \in {x, NoTask} /\ thread'.at \in {"verify.failed"} \cup AfterStep
  BY <1>2 DEF Do, Resume
<1>4. ~ About(x, {"dispatch"})'
  BY <1>3 DEF About, AfterStep
<1>5. ~ Working(x)' /\ ~ Starting(x)'
  BY DEF Working, Starting
<1>6. task'[x] \notin Early
  BY <1>2 DEF Early
<1>7. Work(x) = "none" /\ Work(x)' = "over"
  BY <1>2, <1>4, <1>5, <1>6, WorkShown DEF Waits
<1>8. Consent(x)' = Consent(x)
  BY DEF Consent
<1>9. \/ Said(x) = "open" /\ Said(x)' = "open"
      \/ Said(x) = "stopping" /\ Said(x)' = "cancelled"
  BY <1>2 DEF Said, TerminalTaskState
<1>10. Turned(x)
  BY <1>7, <1>8, <1>9 DEF Turned, Turn, Outcomes, Over, TerminalTaskState
<1>11. \A t \in Tasks : t # x => Still(t)
  BY <1>2, <1>3, TasksAssumption DEF Still, Others
<1> QED
  BY <1>10, <1>11, OneTurns

LEMMA DispatchTurns ==
  ASSUME OwnerInv, OwnerInv', Dispatch PROVE Promised
<1>1. PICK x \in Tasks : x = thread.task
  <2>1. thread.at \in LastStep
    BY StepType DEF Dispatch
  <2> QED
    BY <2>1, ThreadFields, InHand
<1>2. /\ thread.at = "dispatch" /\ thread.task = x /\ TaskSound(x) /\ queue \in Seq(Tasks)
      /\ UNCHANGED <<phase, approval>>
  BY <1>1, InHand DEF Dispatch, approvals
<1>3. /\ task[x] = "running" /\ phase[x] = "idle" /\ ~ Has(queue, x) /\ NoEffects(x)
      /\ Waits(x)
  BY <1>2 DEF TaskSound, Continues, About, Working, Waits
<1>4. CASE closing \/ PoolIsFull
  <2>1. Refuse(x, "return") /\ queue' = queue /\ "return" \in AfterStep
    BY <1>1, <1>4 DEF Dispatch, AfterStep
  <2> QED
    BY <1>2, <1>3, <2>1, RefusalTurns
<1>5. CASE ~ (closing \/ PoolIsFull)
  <2>1. /\ queue' = Append(queue, x) /\ thread' = Resume("pump")
        /\ UNCHANGED <<task, evidence>>
    BY <1>1, <1>5 DEF Dispatch, taskRows
  <2>2. \A t \in Tasks : Has(queue', t) <=> Has(queue, t) \/ t = x
    BY <1>2, <2>1, QueueJoins
  <2>3. thread'.at = "pump"
    BY <2>1 DEF Resume
  <2>4. ~ Working(x)' /\ Starting(x)'
    BY <1>2, <1>3, <2>2 DEF Working, Starting
  <2>5. Work(x) = "none" /\ Work(x)' = "none"
    BY <1>3, <2>4, WorkShown DEF Waits
  <2>6. Turned(x)
    BY <1>2, <2>1, <2>5, NothingTurns
  <2>7. \A t \in Tasks : t # x => Still(t)
    BY <1>2, <2>1, <2>2, <2>3 DEF Still
  <2> QED
    BY <2>6, <2>7, OneTurns
<1> QED
  BY <1>4, <1>5

LEMMA PumpTurns ==
  ASSUME OwnerInv, OwnerInv', PumpStarts PROVE Promised
<1>1. /\ thread.at = "pump" /\ thread.task = NoTask /\ queue # << >>
      /\ queue' = Tail(queue) /\ approval' = approval
  BY InHand, ThreadFields, StepType DEF PumpStarts, approvals
<1>2. PICK x : x = Head(queue)
  OBVIOUS
<1>3. /\ x \in Tasks /\ Has(queue, x) /\ TaskSound(x)
      /\ task[x] \in {"running", "cancel_requested"} /\ NoEffects(x)
      /\ phase[x] = "idle" /\ ~ Working(x) /\ ~ Has(queue', x)
      /\ \A t \in Tasks : t # x => (Has(queue', t) <=> Has(queue, t))
  BY <1>1, <1>2, FrontJob
<1>4. Waits(x)
  BY <1>3 DEF Waits, Starting
<1>5. CASE Refuse(x, "pump") /\ UNCHANGED phase
  BY <1>1, <1>3, <1>4, <1>5, RefusalTurns, "pump" \in AfterStep DEF AfterStep
<1>6. CASE phase' = [phase EXCEPT ![x] = "launching"] /\ UNCHANGED <<taskRows, thread>>
  <2>1. /\ phase'[x] = "launching" /\ \A t \in Tasks : t # x => phase'[t] = phase[t]
        /\ UNCHANGED <<task, evidence, thread>>
    BY <1>3, <1>6, InHand DEF TypeOK, taskRows
  <2>2. ~ Working(x)' /\ Starting(x)'
    BY <2>1 DEF Working, Starting
  <2>3. Work(x) = "none" /\ Work(x)' = "none"
    BY <1>3, <1>4, <2>2, WorkShown DEF Waits
  <2>4. Turned(x)
    BY <1>1, <1>3, <2>1, <2>3, NothingTurns
  <2>5. \A t \in Tasks : t # x => Still(t)
    BY <1>1, <1>3, <2>1 DEF Still
  <2> QED
    BY <1>3, <2>4, <2>5, OneTurns
<1> QED
  BY <1>2, <1>5, <1>6 DEF PumpStarts

LEMMA SpliceTurns ==
  ASSUME OwnerInv, OwnerInv', SpliceQueue PROVE Promised
<1>1. /\ thread.at = "splice" /\ thread.task = NoTask /\ UNCHANGED <<phase, approval>>
  BY InHand, ThreadFields, StepType DEF SpliceQueue, approvals
<1>2. CASE queue = << >>
  <2>1. thread'.at = "return" /\ UNCHANGED <<queue, task, evidence>>
    BY <1>2 DEF SpliceQueue, taskRows, Idle
  <2> QED
    BY <1>1, <2>1, NoneTurns DEF Still
<1>3. CASE queue # << >>
  <2>1. PICK x : x = Head(queue)
    OBVIOUS
  <2>2. queue' = Tail(queue) /\ Refuse(x, "splice") /\ "splice" \in AfterStep
    BY <1>3, <2>1 DEF SpliceQueue, AfterStep
  <2>3. /\ x \in Tasks /\ task[x] \in {"running", "cancel_requested"} /\ NoEffects(x)
        /\ phase[x] = "idle" /\ ~ Working(x) /\ Has(queue, x)
        /\ ~ Has(queue', x)
        /\ \A t \in Tasks : t # x => (Has(queue', t) <=> Has(queue, t))
    BY <1>3, <2>1, <2>2, FrontJob
  <2>4. Waits(x)
    BY <2>3 DEF Waits, Starting
  <2> QED
    BY <1>1, <2>2, <2>3, <2>4, RefusalTurns
<1> QED
  BY <1>2, <1>3

LEMMA StopRunTurns ==
  ASSUME OwnerInv, OwnerInv', StopRun PROVE Promised
<1>1. PICK x \in Tasks : x = thread.task
  <2>1. thread.at \in LastStep
    BY StepType DEF StopRun
  <2> QED
    BY <2>1, ThreadFields, InHand
<1>2. /\ thread.at = "stop_run" /\ TaskSound(x) /\ queue \in Seq(Tasks) /\ Distinct(queue)
      /\ UNCHANGED <<approval, phase>>
  BY InHand DEF StopRun, approvals
<1>3. task[x] = "cancel_requested"
  BY <1>1, <1>2 DEF TaskSound, Continues, About
<1>4. InQueue(x) <=> Has(queue, x)
  BY DEF InQueue, Has
<1>5. CASE Has(queue, x)
  <2>1. PICK i \in 1..Len(queue) : queue[i] = x /\ queue' = Without(i)
    BY <1>1, <1>4, <1>5 DEF StopRun
  <2>2. Refuse(x, "return") /\ queue' = Removed(queue, i)
    BY <1>1, <1>4, <1>5, <2>1 DEF StopRun, Without, Removed
  <2>3. ~ Has(queue', x) /\ \A t \in Tasks : t # x => (Has(queue', t) <=> Has(queue, t))
    BY <1>2, <2>1, <2>2, QueueLoses
  <2>4. NoEffects(x) /\ phase[x] = "idle" /\ Waits(x) /\ "return" \in AfterStep
    BY <1>2, <1>5 DEF TaskSound, Owned, Starting, Working, Waits, AfterStep
  <2> QED
    BY <1>1, <1>2, <1>3, <2>2, <2>3, <2>4, RefusalTurns
<1>6. CASE ~ Has(queue, x)
  <2>1. thread'.at = "return" /\ UNCHANGED <<queue, task, evidence>>
    BY <1>1, <1>4, <1>6 DEF StopRun, taskRows, Idle
  <2> QED
    BY <1>2, <2>1, NoneTurns DEF Still
<1> QED
  BY <1>5, <1>6

\* What has no worker, and none to wait for any more, is over.
LEMMA GivenUp ==
  ASSUME OwnerInv, OwnerInv', EvidenceInv, NEW x \in Tasks, evidence'[x] = evidence[x],
         ~ Working(x), ~ Working(x)', ~ Waits(x)'
  PROVE  /\ Work(x)' = (IF Work(x) = "none" THEN "over" ELSE Work(x))
         /\ Work(x)' \in Over /\ Work(x)' \in Outcomes(Work(x))
         /\ Work(x)' = "proved" <=> evidence[x] = "verified"
<1>1. Waits(x) => evidence[x] = "none"
  BY DEF EvidenceInv
<1> QED
  BY <1>1, WorkShown DEF Over, Outcomes

\* A task goes on towards its worker.
LEMMA GoesOn ==
  ASSUME OwnerInv, OwnerInv', NEW x \in Tasks, task[x] \in Early \ {"absent"},
         evidence'[x] = evidence[x], Consent(x)' = Consent(x),
         Starting(x)' <=> Starting(x), Working(x)' <=> Working(x),
         \/ task'[x] \in Early \ {"absent"}
         \/ task'[x] = "running" /\ About(x, {"dispatch"})'
  PROVE  Turned(x)
<1>1. ~ Starting(x) /\ ~ Working(x)
  BY InHand DEF TaskSound, Owned, Early
<1>2. Waits(x)
  BY <1>1 DEF Waits
<1>3. Waits(x)'
  BY <1>1 DEF Waits
<1>4. Work(x) = "none" /\ Work(x)' = "none"
  BY <1>1, <1>2, <1>3, WorkShown
<1>5. Said(x) = "open" /\ Said(x)' = "open"
  BY DEF Said, Early, TerminalTaskState
<1> QED
  BY <1>4, <1>5 DEF Turned, Turn

\* A task ends that has no worker.
LEMMA EndsSo ==
  ASSUME OwnerInv, OwnerInv', EvidenceInv, NEW x \in Tasks,
         evidence'[x] = evidence[x], Consent(x)' = Consent(x),
         ~ Working(x), ~ Working(x)', ~ Starting(x)', ~ About(x, {"dispatch"})',
         task'[x] \in TerminalTaskState, Said(x) \in {"open", "stopping", "uncertain"},
         task'[x] = "succeeded" => Said(x) # "stopping" /\ evidence[x] = "verified"
  PROVE  Turned(x)
<1>1. ~ Waits(x)'
  BY DEF Waits, Early, TerminalTaskState
<1>2. /\ Work(x)' \in Over /\ Work(x)' \in Outcomes(Work(x))
      /\ Work(x)' = "proved" <=> evidence[x] = "verified"
  BY <1>1, GivenUp
<1>3. Said(x)' = task'[x]
  BY DEF Said, TerminalTaskState
<1> QED
  BY <1>2, <1>3 DEF Turned, Turn

\* An event takes a task on towards its worker, or says how it ended.
LEMMA EventTurns ==
  ASSUME OwnerInv, OwnerInv', EvidenceInv, ApplyTaskEvent PROVE Promised
<1>1. PICK x : x = thread.task
  OBVIOUS
<1>2. /\ x \in Tasks /\ TypeOK /\ x # NoTask /\ TaskSound(x) /\ thread.task = x
      /\ thread.at \in ResolveEnd \cup VerifyStep \cup ApprovalStep
              \cup {"resolve.start", "dispatch.acknowledged", "cancel.confirmed"}
  BY <1>1, ThreadEvents, InHand DEF ApplyTaskEvent
<1>3. /\ task' = [task EXCEPT ![x] = Target(thread.at)] /\ thread' = AfterEvent
      /\ UNCHANGED <<evidence, approval, phase, queue>>
  BY <1>1 DEF ApplyTaskEvent, approvals, pool
<1>4. task'[x] = Target(thread.at) /\ \A t \in Tasks : t # x => task'[t] = task[t]
  BY <1>2, <1>3 DEF TypeOK
<1>5. (Starting(x)' <=> Starting(x)) /\ (Working(x)' <=> Working(x))
  BY <1>3 DEF Starting, Working
<1>6. thread' \in {Do(thread.then, x, "return"), Do("dispatch.acknowledged", x, "return"),
                   Do("dispatch", x, "return"), Resume(thread.then)}
  BY <1>2, <1>3 DEF AfterEvent
<1>7. thread'.task \in {x, NoTask}
  BY <1>6 DEF Do, Resume
<1>8. \A t \in Tasks : t # x => Still(t)
  <2> SUFFICES ASSUME NEW t \in Tasks, t # x PROVE Still(t)
    OBVIOUS
  <2>1. thread.task # t /\ thread'.task # t
    BY <1>2, <1>7, TasksAssumption
  <2> QED
    BY <1>3, <1>4, <2>1 DEF Still
<1>9. Consent(x)' = Consent(x) /\ evidence'[x] = evidence[x]
  BY <1>3 DEF Consent
<1> SUFFICES Turned(x)
  BY <1>2, <1>8, OneTurns
<1>10. CASE thread.at \in {"resolve.start", "resolve.ready", "resolve.need_capability",
                           "run.approval_granted"}
  <2>1. task[x] \in Early \ {"absent"}
    BY <1>2, <1>10 DEF TaskSound, Continues, About, Early, ResolveEnd, ApprovalStep
  <2>2. task'[x] \in Early \ {"absent"}
    BY <1>4, <1>10 DEF Target, Early
  <2> QED
    BY <1>2, <1>5, <1>9, <2>1, <2>2, GoesOn
<1>11. CASE thread.at = "dispatch.acknowledged"
  <2>1. thread' = Do("dispatch", x, "return")
    BY <1>2, <1>3, <1>11 DEF AfterEvent
  <2>2. About(x, {"dispatch"})'
    BY <2>1 DEF About, Do
  <2>3. task[x] \in Early \ {"absent"}
    BY <1>2, <1>11 DEF TaskSound, Continues, About, Early
  <2>4. task'[x] = "running"
    BY <1>4, <1>11 DEF Target
  <2> QED
    BY <1>2, <1>5, <1>9, <2>2, <2>3, <2>4, GoesOn
<1>12. CASE thread.at \in {"resolve.failed", "run.approval_denied", "run.approval_expired",
                           "verify.passed", "verify.failed", "cancel.confirmed"}
  <2>1. thread' = Resume(thread.then)
    BY <1>3, <1>12 DEF AfterEvent
  <2>2. ~ About(x, {"dispatch"})'
    BY <1>2, <2>1 DEF About, Resume
  <2>3. CASE thread.at \in {"resolve.failed", "run.approval_denied", "run.approval_expired"}
    <3>1. task[x] \in {"resolving", "waiting_approval"}
      BY <1>2, <2>3 DEF TaskSound, Continues, About, ResolveEnd, ApprovalStep
    <3>2. task'[x] = "failed"
      BY <1>4, <2>3 DEF Target
    <3>3. ~ Working(x) /\ ~ Starting(x)
      BY <1>2, <3>1 DEF TaskSound, Owned
    <3>4. Said(x) = "open"
      BY <3>1 DEF Said, TerminalTaskState
    <3>5. task'[x] \in TerminalTaskState /\ task'[x] # "succeeded"
      BY <3>2 DEF TerminalTaskState
    <3> QED
      BY <1>2, <1>5, <1>9, <2>2, <3>3, <3>4, <3>5, EndsSo
  <2>4. CASE thread.at \in {"verify.passed", "verify.failed"}
    <3>1. /\ task[x] = "verifying" /\ ~ Starting(x) /\ ~ Working(x)
          /\ thread.at = "verify.passed" => evidence[x] = "verified"
      BY <1>2, <2>4 DEF TaskSound, Continues, About, VerifyStep
    <3>2. task'[x] = IF thread.at = "verify.passed" THEN "succeeded" ELSE "failed"
      BY <1>4, <2>4 DEF Target
    <3>3. Said(x) = "open"
      BY <3>1 DEF Said, TerminalTaskState
    <3>4. /\ task'[x] \in TerminalTaskState
          /\ task'[x] = "succeeded" => evidence[x] = "verified"
      BY <3>1, <3>2 DEF TerminalTaskState
    <3> QED
      BY <1>2, <1>5, <1>9, <2>2, <3>1, <3>3, <3>4, EndsSo
  <2>5. CASE thread.at = "cancel.confirmed"
    <3>1. task[x] = "cancel_requested" /\ phase[x] = "idle" /\ ~ Has(queue, x)
      BY <1>2, <2>5 DEF TaskSound, Continues, About
    <3>2. ~ Working(x) /\ ~ Starting(x)
      BY <3>1 DEF Working, Starting
    <3>3. Said(x) = "stopping"
      BY <3>1 DEF Said, TerminalTaskState
    <3>4. task'[x] \in TerminalTaskState /\ task'[x] # "succeeded"
      BY <1>4, <2>5 DEF Target, TerminalTaskState
    <3> QED
      BY <1>2, <1>5, <1>9, <2>2, <3>2, <3>3, <3>4, EndsSo
  <2> QED
    BY <1>12, <2>3, <2>4, <2>5
<1> QED
  BY <1>2, <1>10, <1>11, <1>12 DEF ResolveEnd, VerifyStep, ApprovalStep

\* The person is asked while the work is not begun, and was not asked before.
LEMMA RequestTurns ==
  ASSUME OwnerInv, OwnerInv', RequestApproval PROVE Promised
<1>1. PICK x \in Tasks : x = thread.task
  <2>1. thread.at \in LastStep
    BY StepType DEF RequestApproval
  <2> QED
    BY <2>1, ThreadFields, InHand
<1>2. /\ thread.at = "request_approval" /\ TaskSound(x) /\ x # NoTask
      /\ approval' = [approval EXCEPT ![x] = "pending"]
      /\ thread' = Resume(thread.then)
      /\ UNCHANGED <<task, evidence, phase, queue>>
  BY <1>1, InHand DEF RequestApproval, taskRows, pool
<1>3. approval'[x] = "pending" /\ \A t \in Tasks : t # x => approval'[t] = approval[t]
  BY <1>2, InHand DEF TypeOK
<1>4. task[x] = "waiting_approval" /\ approval[x] = "none"
  BY <1>1, <1>2 DEF TaskSound, Continues, About
<1>5. ~ Working(x) /\ ~ Working(x)' /\ Waits(x) /\ Waits(x)'
  <2>1. ~ Working(x)
    BY <1>2, <1>4 DEF TaskSound, Owned
  <2>2. ~ Working(x)'
    BY <1>2, <2>1 DEF Working
  <2> QED
    BY <1>2, <1>4, <2>1, <2>2 DEF Waits, Early
<1>6. Work(x) = "none" /\ Work(x)' = "none"
  BY <1>5, WorkShown
<1>7. Said(x) = "open" /\ Said(x)' = "open" /\ Consent(x) = "none" /\ Consent(x)' = "asked"
  BY <1>2, <1>3, <1>4 DEF Said, Consent, TerminalTaskState
<1>8. Turned(x)
  BY <1>2, <1>6, <1>7 DEF Turned, Turn
<1>9. \A t \in Tasks : t # x => Still(t)
  BY <1>1, <1>2, <1>3, TasksAssumption DEF Still, Resume
<1> QED
  BY <1>8, <1>9, OneTurns

\* A question nobody can answer any more is answered with no.
LEMMA RetireTurns ==
  ASSUME OwnerInv, OwnerInv', RetireApprovals PROVE Promised
<1>1. thread.task \in Tasks /\ thread.then = "cancel.confirmed"
  <2>1. thread.at \in FirstStep
    BY StepType DEF RetireApprovals
  <2> QED
    BY <2>1, ThreadFields, InHand DEF ThreadShape, RetireApprovals
<1>2. PICK x \in Tasks : x = thread.task
  BY <1>1
<1>3. /\ thread.at = "retire_approvals" /\ thread.task = x /\ TaskSound(x)
      /\ approval' = [approval EXCEPT ![x] = IF @ = "pending" THEN "denied" ELSE @]
      /\ thread' = Do("cancel.confirmed", x, "return")
      /\ UNCHANGED <<task, evidence, phase, queue>>
  BY <1>1, <1>2, InHand DEF RetireApprovals, taskRows, pool
<1>4. /\ approval'[x] = IF approval[x] = "pending" THEN "denied" ELSE approval[x]
      /\ \A t \in Tasks : t # x => approval'[t] = approval[t]
  BY <1>3, InHand DEF TypeOK
<1>5. /\ Working(x)' <=> Working(x)
      /\ Waits(x)' <=> Waits(x)
  BY <1>3 DEF Working, Waits, Starting, About, Do
<1>6. Work(x)' = Work(x) /\ Said(x)' = Said(x)
  BY <1>3, <1>5, WorkShown DEF Said
<1>7. Consent(x)' = Consent(x) \/ (Consent(x) = "asked" /\ Consent(x)' = "denied")
  <2>1. CASE approval[x] = "pending"
    BY <1>4, <2>1 DEF Consent
  <2>2. CASE approval[x] # "pending"
    <3>1. approval'[x] = approval[x]
      BY <1>4, <2>2
    <3>2. Consent(x)' = Consent(x)
      BY <3>1 DEF Consent
    <3> QED
      BY <3>2
  <2> QED
    BY <2>1, <2>2
<1>8. Turned(x)
  BY <1>3, <1>6, <1>7 DEF Turned, Turn, Answer
<1>9. \A t \in Tasks : t # x => Still(t)
  BY <1>3, <1>4 DEF Still, Do
<1> QED
  BY <1>8, <1>9, OneTurns

\* What was under way when the node died is not known to have ended.
LEMMA InterruptTurns ==
  ASSUME OwnerInv, OwnerInv', EvidenceInv, NEW x \in Tasks, InterruptTask(x)
  PROVE  Promised
<1>1. /\ thread.at = "interrupt_tasks" /\ TypeOK /\ thread.task = NoTask
      /\ TaskSound(x) /\ Booting /\ x # NoTask
      /\ task[x] \in InterruptedTaskStates
      /\ task' = [task EXCEPT ![x] = "uncertain"]
      /\ UNCHANGED <<approval, phase, queue, evidence, thread>>
  BY InHand, ThreadFields, StepType
     DEF InterruptTask, Interrupted, approvals, pool, Booting, Target
<1>2. task'[x] = "uncertain" /\ \A t \in Tasks : t # x => task'[t] = task[t]
  BY <1>1 DEF TypeOK
<1>3. ~ Working(x) /\ ~ Working(x)' /\ ~ Waits(x)'
  <2>1. phase[x] = "idle" /\ ~ Has(queue, x)
    BY <1>1 DEF TaskSound, Owned
  <2>2. ~ About(x, {"dispatch"})'
    BY <1>1 DEF About
  <2> QED
    BY <1>1, <1>2, <2>1, <2>2 DEF Working, Waits, Starting, Early
<1>4. Work(x)' \in Over /\ Work(x)' \in Outcomes(Work(x))
  BY <1>1, <1>3, GivenUp
<1>5. Said(x) \in {"open", "stopping"} /\ Said(x)' = "uncertain" /\ Consent(x)' = Consent(x)
  BY <1>1, <1>2 DEF Said, Consent, InterruptedTaskStates, TerminalTaskState
<1>6. Turned(x)
  BY <1>1, <1>4, <1>5 DEF Turned, Turn
<1>7. \A t \in Tasks : t # x => Still(t)
  BY <1>1, <1>2 DEF Still
<1> QED
  BY <1>6, <1>7, OneTurns

\* Every step of the thread is a step of the promise.
LEMMA ThreadTurns ==
  ASSUME OwnerInv, OwnerInv', EvidenceInv, ThreadStep PROVE Promised
<1>1. CASE PumpRests \/ MarkInterruptedEffectsUnknown
  <2>1. /\ thread.at # "dispatch" /\ thread'.at # "dispatch"
        /\ UNCHANGED <<task, evidence, approval, phase, queue>>
    BY <1>1 DEF PumpRests, MarkInterruptedEffectsUnknown, taskRows, approvals, pool, Idle
  <2> QED
    BY <2>1, NoneTurns DEF Still
<1> QED
  BY <1>1, EventTurns, DispatchTurns, PumpTurns, RequestTurns, RetireTurns, StopRunTurns,
     SpliceTurns, InterruptTurns DEF ThreadStep
-----------------------------------------------------------------------------
(* The steps of a run.                                                     *)

LEMMA LaunchRefusedTurns ==
  ASSUME OwnerInv, OwnerInv', NEW x \in Tasks, LaunchRefused(x) PROVE Promised
<1>1. /\ thread.task = NoTask /\ EndsUnstarted(x) /\ Refuse(x, "pump")
      /\ phase[x] = "launching" /\ UNCHANGED <<approval, queue>>
  BY InHand DEF LaunchRefused, approvals
<1>2. /\ task[x] \in {"running", "cancel_requested"} /\ NoEffects(x) /\ Waits(x)
      /\ ~ Has(queue, x) /\ "pump" \in AfterStep
  BY <1>1, Launching DEF Waits, AfterStep
<1>3. phase'[x] = "idle" /\ \A t \in Tasks : t # x => phase'[t] = phase[t]
  BY <1>1, UnstartedEnds
<1> QED
  BY <1>1, <1>2, <1>3, RefusalTurns

LEMMA DroppedRefusedTurns ==
  ASSUME OwnerInv, OwnerInv', NEW x \in Tasks, DroppedRunRefused(x) PROVE Promised
<1>1. /\ thread.task = NoTask /\ Refuse(x, "pump")
      /\ phase[x] = "dropping" /\ UNCHANGED <<approval, queue>>
  BY InHand DEF DroppedRunRefused, approvals
<1>2. /\ task[x] \in {"running", "cancel_requested"} /\ NoEffects(x) /\ Waits(x)
      /\ ~ Has(queue, x) /\ "pump" \in AfterStep
  BY <1>1, Launching DEF Waits, AfterStep
<1>3. phase'[x] = "idle" /\ \A t \in Tasks : t # x => phase'[t] = phase[t]
  BY InHand DEF DroppedRunRefused, TypeOK
<1> QED
  BY <1>1, <1>2, <1>3, RefusalTurns

LEMMA LaunchFailsTurns ==
  ASSUME OwnerInv, OwnerInv', NEW x \in Tasks, LaunchFails(x) PROVE Promised
<1>1. /\ thread.task = NoTask /\ Refuse(x, "return")
      /\ phase[x] = "launching" /\ UNCHANGED <<approval, queue>>
  BY InHand DEF LaunchFails, approvals
<1>2. /\ task[x] \in {"running", "cancel_requested"} /\ NoEffects(x) /\ Waits(x)
      /\ ~ Has(queue, x) /\ "return" \in AfterStep
  BY <1>1, Launching DEF Waits, AfterStep
<1>3. phase'[x] = "settled" /\ \A t \in Tasks : t # x => phase'[t] = phase[t]
  BY InHand DEF LaunchFails, TypeOK
<1> QED
  BY <1>1, <1>2, <1>3, RefusalTurns

LEMMA LaunchAsksTurns ==
  ASSUME OwnerInv, OwnerInv', NEW x \in Tasks, LaunchAsks(x) PROVE Promised
<1>1. /\ thread.task = NoTask /\ TypeOK /\ x # NoTask
      /\ EndsUnstarted(x) /\ phase[x] = "launching" /\ UNCHANGED <<approval, queue>>
  BY InHand DEF LaunchAsks, approvals
<1>2. /\ task[x] \in {"running", "cancel_requested"} /\ NoEffects(x) /\ Waits(x)
      /\ ~ Working(x) /\ ~ Has(queue, x) /\ "pump" \in AfterStep
  BY <1>1, Launching DEF Waits, AfterStep
<1>3. phase'[x] = "idle" /\ \A t \in Tasks : t # x => phase'[t] = phase[t]
  BY <1>1, UnstartedEnds
<1>4. Legal(task[x], "run.needs_approval") <=> task[x] = "running"
  BY DEF Legal, Sources
<1>5. CASE task[x] = "cancel_requested"
  <2>1. Refuse(x, "pump")
    BY <1>4, <1>5 DEF LaunchAsks
  <2> QED
    BY <1>1, <1>2, <1>3, <2>1, RefusalTurns
<1>6. CASE task[x] = "running"
  <2>1. /\ task' = [task EXCEPT ![x] = "waiting_approval"]
        /\ thread' = Do("request_approval", x, "pump") /\ evidence' = evidence
    BY <1>4, <1>6 DEF LaunchAsks, Target
  <2>2. /\ task'[x] = "waiting_approval" /\ \A t \in Tasks : t # x => task'[t] = task[t]
        /\ thread'.at = "request_approval"
    BY <1>1, <2>1 DEF TypeOK, Do
  <2>3. ~ Working(x)' /\ Waits(x)'
    BY <1>3, <2>2 DEF Working, Waits, Early
  <2>4. Work(x) = "none" /\ Work(x)' = "none"
    BY <1>2, <2>3, WorkShown
  <2>5. Said(x) = "open" /\ Said(x)' = "open" /\ Consent(x)' = Consent(x)
    BY <1>1, <1>6, <2>2 DEF Said, Consent, TerminalTaskState
  <2>6. Turned(x)
    BY <2>1, <2>4, <2>5 DEF Turned, Turn
  <2>7. \A t \in Tasks : t # x => Still(t)
    <3>1. /\ thread.at # "dispatch" /\ thread'.at # "dispatch"
          /\ UNCHANGED <<evidence, approval, queue>>
      BY <1>1, <2>1, <2>2, InHand DEF LaunchAsks
    <3> QED
      BY <1>3, <2>2, <3>1 DEF Still
  <2> QED
    BY <2>6, <2>7, OneTurns
<1> QED
  BY <1>2, <1>5, <1>6

\* The work begins: it was not begun, and not without the consent asked for.
LEMMA WorkerStarts ==
  ASSUME OwnerInv, OwnerInv', NEW x \in Tasks, LaunchStartsWorker(x) PROVE Promised
<1>1. /\ thread.task = NoTask /\ thread' = thread /\ TypeOK
      /\ phase[x] = "launching" /\ phase' = [phase EXCEPT ![x] = "working"]
      /\ UNCHANGED <<task, evidence, approval, queue>> /\ x # NoTask
  BY InHand DEF LaunchStartsWorker, taskRows, approvals
<1>2. phase'[x] = "working" /\ \A t \in Tasks : t # x => phase'[t] = phase[t]
  BY <1>1 DEF TypeOK
<1>3. /\ task[x] \in {"running", "cancel_requested"} /\ Waits(x) /\ ~ Working(x)
      /\ approval[x] \in {"none", "granted"}
  BY <1>1, Launching DEF Waits
<1>4. Work(x) = "none" /\ Work(x)' = "doing"
  BY <1>2, <1>3, WorkShown DEF Working
<1>5. /\ Said(x) \in {"open", "stopping"} /\ Said(x)' = Said(x)
      /\ Consent(x) \in {"none", "granted"} /\ Consent(x)' = Consent(x)
  BY <1>1, <1>3 DEF Said, Consent, TerminalTaskState
<1>6. Turned(x)
  BY <1>1, <1>4, <1>5 DEF Turned, Turn
<1>7. \A t \in Tasks : t # x => Still(t)
  BY <1>1, <1>2, InHand DEF Still
<1> QED
  BY <1>6, <1>7, OneTurns

\* A launch that is given up, a worker that exits, and a run that tidies up,
\* change nothing of this.
LEMMA RunGoesOn ==
  ASSUME OwnerInv, OwnerInv', NEW x \in Tasks,
         LaunchDrops(x) \/ WorkerEnds(x) \/ RunFreesLease(x) \/ RunLeaves(x)
  PROVE  Promised
<1>1. /\ thread.task = NoTask /\ thread'.at # "dispatch" /\ thread.at # "dispatch"
      /\ UNCHANGED <<task, evidence, approval, queue>>
  BY InHand DEF LaunchDrops, WorkerEnds, RunFreesLease, RunLeaves, taskRows, approvals, Resume
<1>2. /\ Working(x)' <=> Working(x)
      /\ phase[x] \in {"launching", "dropping"} <=> phase'[x] \in {"launching", "dropping"}
      /\ \A t \in Tasks : t # x => phase'[t] = phase[t]
  BY InHand DEF LaunchDrops, WorkerEnds, RunFreesLease, RunLeaves, TypeOK, Working
<1>3. Waits(x)' <=> Waits(x)
  BY <1>1, <1>2 DEF Waits, Starting, About
<1>4. Work(x)' = Work(x)
  BY <1>1, <1>2, <1>3, WorkShown
<1>5. Turned(x)
  BY <1>1, <1>4, NothingTurns
<1>6. \A t \in Tasks : t # x => Still(t)
  BY <1>1, <1>2 DEF Still
<1> QED
  BY <1>5, <1>6, OneTurns

\* A report says what came of the work.
LEMMA ReportTurns ==
  ASSUME OwnerInv, OwnerInv', NEW x \in Tasks, NEW report \in Verdict \cup {"none"},
         RunReports(x, report)
  PROVE  Promised
<1>1. /\ thread.task = NoTask /\ TypeOK /\ x # NoTask /\ TaskSound(x)
      /\ phase[x] = "ending" /\ phase' = [phase EXCEPT ![x] = "settled"]
      /\ Settle(x, report, "return") /\ UNCHANGED <<approval, queue>>
  BY InHand DEF RunReports, approvals
<1>2. phase'[x] = "settled" /\ \A t \in Tasks : t # x => phase'[t] = phase[t]
  BY <1>1 DEF TypeOK
<1>3. /\ Working(x) /\ ~ Has(queue, x)
      /\ task[x] \in {"running", "cancel_requested", "uncertain"}
  BY <1>1 DEF TaskSound, Owned, Working
<1>4. Others(x) /\ thread'.task \in {x, NoTask} /\ thread'.at \in VerifyStep \cup {"return"}
  BY <1>1, SettlesOne
<1>5. \/ task[x] = "running" /\ task'[x] = "verifying"
      \/ task[x] = "cancel_requested" /\ task'[x] \in {"cancelled", "uncertain"}
      \/ /\ task[x] = "uncertain"
         /\ task'[x] \in {"uncertain", "cancelled", "failed", "succeeded"}
         /\ task'[x] = "succeeded" => evidence'[x] = "verified"
  BY <1>1, <1>3, ReportedRun
<1>6. ~ About(x, {"dispatch"})'
  BY <1>4 DEF About, VerifyStep
<1>7. ~ Working(x)' /\ ~ Waits(x)'
  BY <1>1, <1>2, <1>3, <1>5, <1>6 DEF Working, Waits, Starting, Early
<1>8. /\ Work(x) = "doing"
      /\ Work(x)' = IF evidence'[x] = "verified" THEN "proved" ELSE "over"
  BY <1>3, <1>7, WorkShown
<1>9. /\ Work(x)' \in Over /\ Work(x)' \in Outcomes(Work(x))
      /\ Work(x)' = "proved" <=> evidence'[x] = "verified"
  BY <1>8 DEF Over, Outcomes
<1>10. Consent(x)' = Consent(x)
  BY <1>1 DEF Consent
<1>11. \/ Said(x) = "open" /\ Said(x)' = "open"
       \/ Said(x) = "stopping" /\ Said(x)' \in {"cancelled", "uncertain"}
       \/ /\ Said(x) = "uncertain"
          /\ Said(x)' \in {"uncertain", "cancelled", "failed", "succeeded"}
          /\ Said(x)' = "succeeded" => evidence'[x] = "verified"
  BY <1>5 DEF Said, TerminalTaskState
<1>12. Turned(x)
  BY <1>9, <1>10, <1>11 DEF Turned, Turn, TerminalTaskState
<1>13. \A t \in Tasks : t # x => Still(t)
  BY <1>1, <1>2, <1>4, TasksAssumption DEF Still, Others
<1> QED
  BY <1>12, <1>13, OneTurns

LEMMA RunTurns ==
  ASSUME OwnerInv, OwnerInv', NEW x \in Tasks, RunStep(x) PROVE Promised
BY LaunchRefusedTurns, DroppedRefusedTurns, LaunchFailsTurns, LaunchAsksTurns, WorkerStarts,
   RunGoesOn, ReportTurns DEF RunStep
-----------------------------------------------------------------------------
(* What a person does, and the commands of a worker.                       *)

LEMMA SubmitTurns ==
  ASSUME OwnerInv, OwnerInv', NEW x \in Tasks, Submit(x) PROVE Promised
<1>1. /\ thread.task = NoTask /\ TypeOK /\ x # NoTask /\ TaskSound(x)
      /\ task[x] = "absent" /\ task' = [task EXCEPT ![x] = "queued"]
      /\ UNCHANGED <<evidence, approval, phase, queue>>
  BY InHand DEF Submit, approvals, pool
<1>2. task'[x] = "queued" /\ \A t \in Tasks : t # x => task'[t] = task[t]
  BY <1>1 DEF TypeOK
<1>3. thread'.task = x /\ thread'.at = "resolve.start"
  BY DEF Submit, Do
<1>4. ~ Working(x) /\ ~ Working(x)' /\ Waits(x) /\ Waits(x)'
  <2>1. ~ Working(x)
    BY <1>1 DEF TaskSound, Owned
  <2>2. ~ Working(x)'
    BY <1>1, <2>1 DEF Working
  <2> QED
    BY <1>1, <1>2, <2>1, <2>2 DEF Waits, Early
<1>5. Work(x) = "none" /\ Work(x)' = "none"
  BY <1>4, WorkShown
<1>6. Said(x) = "none" /\ Said(x)' = "open" /\ Consent(x)' = Consent(x)
  BY <1>1, <1>2 DEF Said, Consent, TerminalTaskState
<1>7. Turned(x)
  BY <1>1, <1>5, <1>6 DEF Turned, Turn
<1>8. \A t \in Tasks : t # x => Still(t)
  BY <1>1, <1>2, <1>3, InHand DEF Still
<1> QED
  BY <1>7, <1>8, OneTurns

LEMMA ReadyTurns ==
  ASSUME OwnerInv, OwnerInv', NEW x \in Tasks, CapabilityBecomesReady(x) PROVE Promised
<1>1. /\ thread.task = NoTask /\ TypeOK /\ x # NoTask
      /\ task[x] = "waiting_capability" /\ task' = [task EXCEPT ![x] = "queued"]
      /\ UNCHANGED <<evidence, approval, phase, queue>>
  BY InHand DEF CapabilityBecomesReady, Legal, Sources, Target, approvals, pool
<1>2. task'[x] = "queued" /\ \A t \in Tasks : t # x => task'[t] = task[t]
  BY <1>1 DEF TypeOK
<1>3. thread'.task = x /\ thread'.at = "resolve.start"
  BY DEF CapabilityBecomesReady, Do
<1>4. (Starting(x)' <=> Starting(x)) /\ (Working(x)' <=> Working(x))
  BY <1>1 DEF Starting, Working
<1>5. Consent(x)' = Consent(x) /\ evidence'[x] = evidence[x]
  BY <1>1 DEF Consent
<1>6. task[x] \in Early \ {"absent"} /\ task'[x] \in Early \ {"absent"}
  BY <1>1, <1>2 DEF Early
<1>7. Turned(x)
  BY <1>4, <1>5, <1>6, GoesOn
<1>8. \A t \in Tasks : t # x => Still(t)
  BY <1>1, <1>2, <1>3, InHand DEF Still
<1> QED
  BY <1>7, <1>8, OneTurns

\* A stop gives up what has not begun, unless its job or its launch still does.
LEMMA StopTurns ==
  ASSUME OwnerInv, OwnerInv', EvidenceInv, NEW x \in Tasks, StopTask(x) PROVE Promised
<1>1. /\ thread.task = NoTask /\ TypeOK /\ x # NoTask
      /\ task[x] \in Cancellable /\ task' = [task EXCEPT ![x] = "cancel_requested"]
      /\ UNCHANGED <<evidence, approval, phase, queue>>
  BY InHand DEF StopTask, Legal, Sources, Target, approvals, pool
<1>2. task'[x] = "cancel_requested" /\ \A t \in Tasks : t # x => task'[t] = task[t]
  BY <1>1 DEF TypeOK
<1>3. thread'.task = x /\ thread'.at \in {"retire_approvals", "stop_run", "cancel.confirmed"}
  BY DEF StopTask, Do
<1>4. (Starting(x)' <=> Starting(x)) /\ (Working(x)' <=> Working(x))
  BY <1>1 DEF Starting, Working
<1>5. ~ About(x, {"dispatch"})'
  BY <1>3 DEF About
<1>6. Work(x)' \in {Work(x), IF Work(x) = "none" THEN "over" ELSE Work(x)}
  <2>1. CASE Working(x)
    BY <1>4, <2>1, WorkShown
  <2>2. CASE ~ Working(x) /\ Starting(x)
    <3>1. Waits(x) /\ Waits(x)'
      BY <1>4, <2>2 DEF Waits
    <3> QED
      BY <1>4, <2>2, <3>1, WorkShown
  <2>3. CASE ~ Working(x) /\ ~ Starting(x)
    <3>1. ~ Waits(x)'
      BY <1>2, <1>4, <1>5, <2>3 DEF Waits, Early
    <3> QED
      BY <1>1, <1>4, <2>3, <3>1, GivenUp
  <2> QED
    BY <2>1, <2>2, <2>3
<1>7. /\ Said(x) \in {"open", "uncertain"} /\ Said(x)' = "stopping"
      /\ Consent(x)' = Consent(x)
  BY <1>1, <1>2 DEF Said, Consent, Cancellable, TaskState, TerminalTaskState
<1>8. Turned(x)
  BY <1>1, <1>6, <1>7 DEF Turned, Turn
<1>9. \A t \in Tasks : t # x => Still(t)
  BY <1>1, <1>2, <1>3, InHand DEF Still
<1> QED
  BY <1>8, <1>9, OneTurns

LEMMA DecideTurns ==
  ASSUME OwnerInv, OwnerInv', NEW x \in Tasks, NEW decision \in {"granted", "denied"},
         DecideApproval(x, decision)
  PROVE  Promised
<1>1. PICK d \in Answer :
        /\ approval' = [approval EXCEPT ![x] = d]
        /\ thread' = Do(DecisionEvent(d), x, "return")
  BY DEF DecideApproval, Answer
<1>2. /\ thread.task = NoTask /\ TypeOK /\ x # NoTask /\ TaskSound(x)
      /\ task[x] = "waiting_approval" /\ approval[x] = "pending"
      /\ UNCHANGED <<task, evidence, phase, queue>>
  BY InHand DEF DecideApproval, Decidable, taskRows, pool
<1>3. approval'[x] = d /\ \A t \in Tasks : t # x => approval'[t] = approval[t]
  BY <1>1, <1>2 DEF TypeOK
<1>4. thread'.task = x
  BY <1>1 DEF Do
<1>5. ~ Working(x) /\ ~ Working(x)' /\ Waits(x) /\ Waits(x)'
  <2>1. ~ Working(x)
    BY <1>2 DEF TaskSound, Owned
  <2>2. ~ Working(x)'
    BY <1>2, <2>1 DEF Working
  <2> QED
    BY <1>2, <2>1, <2>2 DEF Waits, Early
<1>6. Work(x)' = Work(x)
  BY <1>5, WorkShown
<1>7. Said(x)' = Said(x) /\ Consent(x) = "asked" /\ Consent(x)' = d
  BY <1>2, <1>3 DEF Said, Consent, Answer
<1>8. Turned(x)
  BY <1>2, <1>6, <1>7 DEF Turned, Turn
<1>9. \A t \in Tasks : t # x => Still(t)
  BY <1>2, <1>3, <1>4, InHand DEF Still
<1> QED
  BY <1>8, <1>9, OneTurns

\* An answer for an effect ends a task that was only uncertain about effects.
LEMMA AnswerTurns ==
  ASSUME OwnerInv, OwnerInv', EvidenceInv, NEW x \in Tasks, NEW k \in Slots,
         NEW outcome \in {"confirmed", "failed"}, ReconcileEffect(x, k, outcome)
  PROVE  Promised
<1>1. /\ thread.task = NoTask /\ thread' = thread /\ thread.at = "return" /\ TypeOK
      /\ TaskSound(x) /\ effect[x][k] = "unknown"
      /\ task' = IF ReportPending(x) THEN task
                 ELSE [task EXCEPT ![x] =
                         SettledState(x, effect'[x], answered'[x], evidence[x])]
      /\ UNCHANGED <<evidence, approval, phase, queue>>
  BY InHand DEF ReconcileEffect, approvals, pool
<1>2. \A t \in Tasks : t # x => task'[t] = task[t]
  BY <1>1 DEF TypeOK
<1>3. \A t \in Tasks : t # x => Still(t)
  BY <1>1, <1>2 DEF Still
<1>4. CASE task'[x] = task[x]
  <2>1. Still(x)
    BY <1>1, <1>4 DEF Still
  <2> QED
    BY <1>3, <2>1, NoneTurns
<1>5. CASE task'[x] # task[x]
  <2>1. /\ task'[x] = SettledState(x, effect'[x], answered'[x], evidence[x])
        /\ ~ ReportPending(x)
    BY <1>1, <1>5 DEF TypeOK
  <2>2. /\ task[x] = "uncertain" /\ task'[x] \in TerminalTaskState
        /\ task'[x] = "succeeded" => evidence[x] = "verified"
    BY <1>5, <2>1 DEF SettledState, TerminalTaskState
  <2>3. ~ Working(x) /\ ~ Starting(x)
    BY <1>1, <2>1, <2>2 DEF TaskSound, Owned, ReportPending, Unreported, Working
  <2>4. ~ Working(x)' /\ ~ Starting(x)' /\ ~ About(x, {"dispatch"})'
    BY <1>1, <2>3 DEF Working, Starting, About
  <2>5. Said(x) = "uncertain" /\ Consent(x)' = Consent(x)
    BY <1>1, <2>2 DEF Said, Consent, TerminalTaskState
  <2>6. Turned(x)
    BY <1>1, <2>2, <2>3, <2>4, <2>5, EndsSo
  <2> QED
    BY <1>3, <2>6, OneTurns
<1> QED
  BY <1>4, <1>5

LEMMA PersonTurns ==
  ASSUME OwnerInv, OwnerInv', EvidenceInv, NEW x \in Tasks, PersonStep(x)
  PROVE  Promised
BY SubmitTurns, ReadyTurns, StopTurns, DecideTurns, AnswerTurns DEF PersonStep

\* Nobody decides in time: a task that is still parked has failed.
LEMMA SweepTurns ==
  ASSUME OwnerInv, OwnerInv', EvidenceInv, NEW x \in Tasks, SweepExpiredApproval(x)
  PROVE  Promised
<1>1. /\ thread.task = NoTask /\ thread' = thread /\ thread.at = "return" /\ TypeOK
      /\ TaskSound(x) /\ UNCHANGED <<evidence, approval, phase, queue>>
      /\ task' = [task EXCEPT ![x] = IF task[x] = "waiting_approval" THEN "failed" ELSE @]
  BY InHand DEF SweepExpiredApproval, Legal, Sources, Target, approvals, pool
<1>2. /\ task'[x] = IF task[x] = "waiting_approval" THEN "failed" ELSE task[x]
      /\ \A t \in Tasks : t # x => task'[t] = task[t]
  BY <1>1 DEF TypeOK
<1>3. \A t \in Tasks : t # x => Still(t)
  BY <1>1, <1>2 DEF Still
<1>4. CASE task[x] # "waiting_approval"
  <2>1. Still(x)
    BY <1>1, <1>2, <1>4 DEF Still
  <2> QED
    BY <1>3, <2>1, NoneTurns
<1>5. CASE task[x] = "waiting_approval"
  <2>1. ~ Working(x) /\ ~ Starting(x)
    BY <1>1, <1>5 DEF TaskSound, Owned
  <2>2. ~ Working(x)' /\ ~ Starting(x)' /\ ~ About(x, {"dispatch"})'
    BY <1>1, <2>1 DEF Working, Starting, About
  <2>3. /\ Said(x) = "open" /\ Consent(x)' = Consent(x)
        /\ task'[x] \in TerminalTaskState /\ task'[x] # "succeeded"
    BY <1>1, <1>2, <1>5 DEF Said, Consent, TerminalTaskState
  <2>4. Turned(x)
    BY <1>1, <2>1, <2>2, <2>3, EndsSo
  <2> QED
    BY <1>3, <2>4, OneTurns
<1> QED
  BY <1>4, <1>5

\* A command whose outcome is unknown puts its task in doubt.
LEMMA CommandTurns ==
  ASSUME OwnerInv, OwnerInv', NEW x \in Tasks, NEW k \in Slots, CommandStep(x, k)
  PROVE  Promised
<1>1. /\ thread.task = NoTask /\ thread' = thread /\ thread.at = "return" /\ TypeOK
      /\ TaskSound(x) /\ k \in live[x] /\ UNCHANGED <<evidence, approval, phase, queue>>
  BY InHand
     DEF CommandStep, CommandExits, CommandLost, SettlementNotWritten, taskRows, approvals
<1>2. Working(x) /\ Working(x)'
  <2>1. Working(x)
    BY <1>1 DEF TaskSound, Owned, Commanded
  <2> QED
    BY <1>1, <2>1 DEF Working
<1>3. \/ task' = task
      \/ /\ task[x] \in {"running", "cancel_requested"}
         /\ task' = [task EXCEPT ![x] = "uncertain"]
  <2>1. task[x] \in {"running", "cancel_requested", "uncertain"}
    BY <1>1, <1>2 DEF TaskSound, Owned
  <2> QED
    BY <2>1 DEF CommandStep, CommandExits, CommandLost, SettlementNotWritten, taskRows,
                Legal, Sources, Target
<1>4. CASE task' = task
  BY <1>1, <1>4, NoneTurns DEF Still
<1>5. CASE /\ task[x] \in {"running", "cancel_requested"}
           /\ task' = [task EXCEPT ![x] = "uncertain"]
  <2>1. task'[x] = "uncertain" /\ \A t \in Tasks : t # x => task'[t] = task[t]
    BY <1>1, <1>5 DEF TypeOK
  <2>2. Work(x) = "doing" /\ Work(x)' = "doing"
    BY <1>2, WorkShown
  <2>3. /\ Said(x) \in {"open", "stopping"} /\ Said(x)' = "uncertain"
        /\ Consent(x)' = Consent(x)
    BY <1>1, <1>5, <2>1 DEF Said, Consent, TerminalTaskState
  <2>4. Turned(x)
    BY <1>1, <2>2, <2>3 DEF Turned, Turn, Outcomes
  <2>5. \A t \in Tasks : t # x => Still(t)
    BY <1>1, <2>1 DEF Still
  <2> QED
    BY <2>4, <2>5, OneTurns
<1> QED
  BY <1>3, <1>4, <1>5
-----------------------------------------------------------------------------
(* The node.                                                               *)

\* What moves no row but the ledger, the leases and the age of a question.
LEMMA NodeTurns ==
  ASSUME OwnerInv, OwnerInv',
         \/ \E t \in Tasks : \/ ApprovalLapses(t)
                             \/ \E o \in Operations : CommandAsked(t, o) \/ BrokerStep(t, o)
         \/ \E c \in Capability : LeaseLapses(c) \/ SweepExpiredLease(c)
         \/ EmergencyStop \/ NodeCloses \/ Boot
  PROVE  Promised
<1>1. UNCHANGED <<task, evidence, approval, phase, queue>>
  BY DEF ApprovalLapses, CommandAsked, BrokerStep, CommandRefused, CommandOpens, LeaseLapses,
         SweepExpiredLease, EmergencyStop, NodeCloses, Boot, taskRows, approvals, pool
<1>2. thread.at # "dispatch"
  BY InHand
     DEF ApprovalLapses, CommandAsked, BrokerStep, CommandRefused, CommandOpens, Decided,
         LeaseLapses, SweepExpiredLease, EmergencyStop, NodeCloses, Boot, ThreadShape, Idle
<1>3. thread' = thread \/ thread'.at \in {"splice", "interrupt_tasks"}
  BY DEF ApprovalLapses, CommandAsked, BrokerStep, CommandRefused, CommandOpens, LeaseLapses,
         SweepExpiredLease, EmergencyStop, NodeCloses, Boot, Resume
<1> QED
  BY <1>1, <1>2, <1>3, NoneTurns DEF Still

\* A crash cuts what was begun, and what waited in memory to begin.
LEMMA CrashTurns ==
  ASSUME OwnerInv, OwnerInv', EvidenceInv, Crash PROVE Promised
<1>1. /\ queue' = << >> /\ thread'.at = "return" /\ \A t \in Tasks : phase'[t] = "idle"
      /\ UNCHANGED <<task, evidence, approval>>
  BY DEF Crash, taskRows, approvals, Idle
<1>2. ASSUME NEW t \in Tasks PROVE IsCut(t)
  <2>1. TaskSound(t)
    BY InHand
  <2>2. ~ Has(queue', t)
    BY <1>1, EmptyQueue
  <2>3. ~ Working(t)' /\ ~ Starting(t)' /\ ~ About(t, {"dispatch"})'
    BY <1>1, <2>2 DEF Working, Starting, About
  <2>4. Said(t)' = Said(t) /\ Consent(t)' = Consent(t) /\ evidence'[t] = evidence[t]
    BY <1>1 DEF Said, Consent
  <2>5. CASE task[t] \in Early
    <3>1. ~ Working(t)
      BY <2>1, <2>5 DEF TaskSound, Owned, Early
    <3>2. Waits(t) /\ Waits(t)'
      BY <1>1, <2>3, <2>5, <3>1 DEF Waits
    <3>3. Work(t)' = Work(t)
      BY <2>3, <3>1, <3>2, WorkShown
    <3> QED
      BY <2>4, <3>3 DEF IsCut
  <2>6. CASE task[t] \notin Early
    <3>1. ~ Waits(t)'
      BY <1>1, <2>3, <2>6 DEF Waits
    <3>2. Said(t) # "none"
      BY <2>6 DEF Said, Early, TerminalTaskState
    <3>3. CASE Working(t) \/ Waits(t)
      <4>1. evidence[t] = "none"
        BY <3>3 DEF EvidenceInv
      <4>2. Work(t) \in {"none", "doing"} /\ Work(t)' = "over"
        BY <2>3, <2>4, <3>1, <3>3, <4>1, WorkShown
      <4> QED
        BY <2>4, <3>2, <4>2 DEF IsCut
    <3>4. CASE ~ (Working(t) \/ Waits(t))
      <4>1. Work(t)' = Work(t)
        BY <2>3, <2>4, <3>1, <3>4, WorkShown
      <4> QED
        BY <2>4, <4>1 DEF IsCut
    <3> QED
      BY <3>3, <3>4
  <2> QED
    BY <2>5, <2>6
<1> QED
  BY <1>2 DEF Promised

LEMMA StutterTurns ==
  ASSUME OwnerInv, OwnerInv', UNCHANGED vars PROVE Promised
<1>1. UNCHANGED <<task, evidence, approval, phase, queue, thread>>
  BY DEF vars, taskRows, approvals, pool
<1>2. ASSUME NEW t \in Tasks PROVE IsCut(t)
  <2>1. (Working(t)' <=> Working(t)) /\ (Waits(t)' <=> Waits(t))
    BY <1>1 DEF Working, Waits, Starting, About
  <2>2. Work(t)' = Work(t)
    BY <1>1, <2>1, WorkShown
  <2> QED
    BY <1>1, <2>2 DEF IsCut, Said, Consent
<1> QED
  BY <1>2 DEF Promised

\* Every step of the node is a step of the promise, or none of its business.
LEMMA StepPromised ==
  ASSUME OwnerInv, OwnerInv', EvidenceInv, [Next]_vars PROVE Promised
BY ThreadTurns, RunTurns, PersonTurns, SweepTurns, CommandTurns, NodeTurns, CrashTurns,
   StutterTurns DEF Next
-----------------------------------------------------------------------------
(* The steps of the promise itself.                                        *)

SaidHere == [t \in Tasks |-> Said(t)]
WorkHere == [t \in Tasks |-> Work(t)]
ConsentHere == [t \in Tasks |-> Consent(t)]

\* What a step about x does to the state of the promise.
LEMMA TurnShown ==
  ASSUME NEW x \in Tasks, \A t \in Tasks : t # x => Same(t)
  PROVE  /\ SaidHere' = [SaidHere EXCEPT ![x] = Said(x)']
         /\ WorkHere' = [WorkHere EXCEPT ![x] = Work(x)']
         /\ ConsentHere' = [ConsentHere EXCEPT ![x] = Consent(x)']
         /\ SaidHere[x] = Said(x) /\ WorkHere[x] = Work(x) /\ ConsentHere[x] = Consent(x)
         /\ Said(x)' = Said(x) => SaidHere' = SaidHere
         /\ Work(x)' = Work(x) => WorkHere' = WorkHere
         /\ Consent(x)' = Consent(x) => ConsentHere' = ConsentHere
BY DEF SaidHere, WorkHere, ConsentHere, Same

\* A step about a task is one of the actions of the promise.
LEMMA TurnPromised ==
  ASSUME NEW x \in Tasks, Turned(x), \A t \in Tasks : t # x => Same(t)
  PROVE  [Promise!Next]_(Promise!vars)
<1>1. PICK s, w, c, s2, w2, c2 :
        /\ s = Said(x) /\ w = Work(x) /\ c = Consent(x)
        /\ s2 = Said(x)' /\ w2 = Work(x)' /\ c2 = Consent(x)'
  OBVIOUS
<1>2. /\ SaidHere' = [SaidHere EXCEPT ![x] = s2]
      /\ WorkHere' = [WorkHere EXCEPT ![x] = w2]
      /\ ConsentHere' = [ConsentHere EXCEPT ![x] = c2]
      /\ SaidHere[x] = s /\ WorkHere[x] = w /\ ConsentHere[x] = c
      /\ s2 = s => SaidHere' = SaidHere
      /\ w2 = w => WorkHere' = WorkHere
      /\ c2 = c => ConsentHere' = ConsentHere
  BY <1>1, TurnShown
<1>3. Turn(s, w, c, s2, w2, c2)
  BY <1>1 DEF Turned
<1>4. CASE c2 = c /\ s2 = s /\ w2 = w
  BY <1>2, <1>4 DEF SaidHere, WorkHere, ConsentHere, Promise!vars
<1>5. CASE c2 = c /\ s = "none" /\ s2 = "open" /\ w2 = w
  BY <1>2, <1>5
     DEF SaidHere, WorkHere, ConsentHere, Promise!Next, Promise!Take, Promise!Says
<1>6. CASE /\ c2 = c /\ s \in {"open", "stopping"} /\ w = "none" /\ c \in {"none", "granted"}
           /\ s2 = s /\ w2 = "doing"
  BY <1>2, <1>6
     DEF SaidHere, WorkHere, ConsentHere, Promise!Next, Promise!Begin, Promise!Says
<1>7. CASE c2 = c /\ s # "none" /\ s2 = s /\ w2 \in Outcomes(w)
  BY <1>2, <1>7
     DEF SaidHere, WorkHere, ConsentHere, Promise!Next, Promise!Finish, Promise!Says,
         Promise!Outcomes, Outcomes, Promise!Over, Over
<1>8. CASE /\ c2 = c /\ s \in {"open", "uncertain"} /\ s2 = "stopping"
           /\ w2 \in {w, IF w = "none" THEN "over" ELSE w}
  BY <1>2, <1>8
     DEF SaidHere, WorkHere, ConsentHere, Promise!Next, Promise!Stop, Promise!Says
<1>9. CASE /\ c2 = c /\ s \in {"open", "stopping"} /\ s2 = "uncertain"
           /\ w2 \in Outcomes(w)
  BY <1>2, <1>9
     DEF SaidHere, WorkHere, ConsentHere, Promise!Next, Promise!Doubt, Promise!Says,
         Promise!Outcomes, Outcomes, Promise!Over, Over
<1>10. CASE /\ c2 = c /\ s \in {"open", "stopping", "uncertain"} /\ s2 \in TerminalTaskState
            /\ w2 \in Outcomes(w) \cap Over
            /\ s2 = "succeeded" => w2 = "proved" /\ s # "stopping"
  <2>1. s2 \in Promise!Ended /\ w2 \in Promise!Outcomes(w) \cap Promise!Over
    BY <1>10
       DEF Promise!Outcomes, Outcomes, Promise!Over, Over, Promise!Ended, TerminalTaskState
  <2>2. Promise!Says(x, s2, w2)
    BY <1>2, <1>10 DEF SaidHere, WorkHere, ConsentHere, Promise!Says
  <2>3. Promise!End(x)
    BY <1>2, <1>10, <2>1, <2>2 DEF SaidHere, WorkHere, Promise!End
  <2> QED
    BY <2>3 DEF Promise!Next
<1>11. CASE /\ s2 = s /\ w2 = w /\ s = "open" /\ w = "none" /\ c = "none"
            /\ c2 = "asked"
  BY <1>2, <1>11
     DEF SaidHere, WorkHere, ConsentHere, Promise!Next, Promise!Ask
<1>12. CASE s2 = s /\ w2 = w /\ c = "asked" /\ c2 \in Answer
  <2>1. ConsentHere' \in {[ConsentHere EXCEPT ![x] = d] : d \in Answer}
    BY <1>2, <1>12
  <2>2. Promise!Decide(x)
    BY <1>2, <1>12, <2>1
       DEF SaidHere, WorkHere, ConsentHere, Promise!Decide, Promise!Answer, Answer
  <2> QED
    BY <2>2 DEF Promise!Next
<1> QED
  BY <1>3, <1>4, <1>5, <1>6, <1>7, <1>8, <1>9, <1>10, <1>11, <1>12 DEF Turn

\* A crash is a cut of the tasks whose work it changes.
LEMMA CutPromised ==
  ASSUME \A t \in Tasks : IsCut(t) PROVE Promise!Next
<1>1. PICK ts \in SUBSET Tasks : ts = {t \in Tasks : Work(t)' # Work(t)}
  OBVIOUS
<1>2. SaidHere' = SaidHere /\ ConsentHere' = ConsentHere
  BY DEF SaidHere, ConsentHere, IsCut
<1>3. WorkHere' = [t \in Tasks |-> IF t \in ts THEN "over" ELSE WorkHere[t]]
  BY <1>1 DEF WorkHere, IsCut
<1>4. \A t \in ts : SaidHere[t] # "none" /\ WorkHere[t] \in {"none", "doing"}
  BY <1>1 DEF SaidHere, WorkHere, IsCut
<1> QED
  BY <1>1, <1>2, <1>3, <1>4
     DEF SaidHere, WorkHere, ConsentHere, Promise!Next, Promise!Cut

\* Work that is not over still has no evidence after a step of the promise.
LEMMA EvidenceKept ==
  ASSUME OwnerInv, OwnerInv', EvidenceInv, Promised PROVE EvidenceInv'
<1> SUFFICES ASSUME NEW t \in Tasks, (Working(t) \/ Waits(t))' PROVE evidence'[t] = "none"
  BY DEF EvidenceInv
<1>1. Work(t)' \in {"none", "doing"}
  BY WorkShown
<1>2. Same(t) \/ Turned(t) \/ IsCut(t)
  BY DEF Promised
<1>3. evidence'[t] = evidence[t] /\ Work(t) \in {"none", "doing"}
  <2>1. CASE Same(t)
    BY <1>1, <2>1 DEF Same
  <2>2. CASE Turned(t)
    BY <1>1, <2>2 DEF Turned, Turn, Outcomes, Over
  <2>3. CASE IsCut(t)
    BY <1>1, <2>3 DEF IsCut
  <2> QED
    BY <1>2, <2>1, <2>2, <2>3
<1>4. Working(t) \/ Waits(t)
  BY <1>3, WorkShown
<1> QED
  BY <1>3, <1>4 DEF EvidenceInv

\* Before anything is asked for, nothing is promised.
LEMMA PromiseStarts == Init => Promise!Init /\ EvidenceInv
<1> SUFFICES ASSUME Init PROVE Promise!Init /\ EvidenceInv
  OBVIOUS
<1>1. ASSUME NEW t \in Tasks
      PROVE  Said(t) = "none" /\ Work(t) = "none" /\ Consent(t) = "none"
  <2>1. task[t] = "absent" /\ approval[t] = "none" /\ phase[t] = "idle" /\ live[t] = {}
    BY DEF Init
  <2> QED
    BY <2>1 DEF Said, Work, AtWork, Unbegun, Consent, TerminalTaskState
<1>2. EvidenceInv
  BY DEF Init, EvidenceInv
<1> QED
  BY <1>1, <1>2 DEF Promise!Init

\* TaskPromiseKept: every step of the node is a step of the promise, or none of
\* its business; a task has a worker once at most and never without the consent
\* that was asked for, none once it was given up, and success is said of
\* verified work that nobody is stopping.
THEOREM TaskPromiseHolds == Spec => TaskPromiseKept
<1>1. OwnerInv /\ OwnerInv' /\ EvidenceInv /\ [Next]_vars => EvidenceInv'
  BY StepPromised, EvidenceKept
<1>2. OwnerInv /\ OwnerInv' /\ EvidenceInv /\ [Next]_vars => [Promise!Next]_(Promise!vars)
  BY StepPromised, TurnPromised, CutPromised DEF Promised
<1> QED
  BY <1>1, <1>2, PromiseStarts, OwnerSound, PTL DEF Spec, Promise!Spec, TaskPromiseKept
=============================================================================
