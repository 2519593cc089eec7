-------------------------- MODULE AutomationProofs --------------------------
(* Theorems about Automation, for every value of its constants.            *)
EXTENDS Automation, TLAPS

\* The steps that start one run.
Within == {"say", "notice", "reminded", "prepare", "hand"}

\* What a stretch is, whichever step it is at.
ThreadType ==
  thread \in
    [at : {"return", "timers", "signals", "runs", "confirm", "boot"} \cup
       Within,
     todo : SUBSET (Intents \cup Signals \cup Runs),
     run : Runs \cup {NoRun}]

\* Only a request with a schedule has a time to fire at.
FireTimesFit == \A i \in Intents : nextFire[i] # 0 => i \in Scheduled

\* What a stretch has still to do is of the kind its step looks through, and a
\* timer it is to fire is due.
TodoFits ==
  /\ thread.at = "timers" =>
       \A i \in thread.todo :
         i \in Scheduled /\ nextFire[i] \in Slots /\ nextFire[i] <= clock
  /\ thread.at = "signals" => thread.todo \subseteq Signals
  /\ thread.at \in {"runs", "boot"} \cup Within => thread.todo \subseteq Runs
  /\ thread.at \in {"confirm"} \cup Within => thread.run \in Runs

TypeInv == TypeOK /\ ThreadType /\ FireTimesFit /\ TodoFits

\* The runs a tick is still to start are pending; the one it starts is none of
\* them, and was not handed over before.
PendingFits ==
  /\ thread.at \in {"runs"} \cup Within =>
       \A r \in thread.todo : run[r] = "pending"
  /\ thread.at \in Within => thread.run \notin thread.todo
  /\ thread.at \in Within \ {"hand"} => run[thread.run] = "pending"
  /\ thread.at = "hand" => run[thread.run] = "started" /\ starts[thread.run] = 0

\* A run that is being started is of an active request.
ActiveFits == thread.at \in Within => intent[thread.run[1]] = "active"

\* A reminder under way was said as far as its step says, but for the words
\* that could not be written.
ReminderFits ==
  /\ thread.at \in {"notice", "reminded"} =>
       "line" \in told[thread.run] \cup missed[thread.run]
  /\ thread.at = "reminded" => "notice" \in told[thread.run] \cup missed[thread.run]

RunInv ==
  TypeInv /\ PendingFits /\ ActiveFits /\ ReminderFits /\ StartsOnce
    /\ ReminderIsMade

\* The task of r has not got as far as dispatch, or was stopped before.
NotDispatched(r) ==
  /\ task[r] \in {"none", "queued", "resolving", "waiting_capability",
                   "cancelled", "cancel_requested"}
  /\ r \notin placed

\* What is known of a task that was not handed over and that no crash cut on
\* its way: it is not dispatched, or is being taken through dispatch now.
HandInv ==
  /\ ~up => thread = Idle
  /\ thread.at = "boot" => thread.todo \subseteq placed
  /\ thread.at = "confirm" => run[thread.run] # "none"
  /\ \A r \in held : starts[r] = 1
  /\ \A r \in Runs : run[r] = "none" => task[r] = "none" /\ r \notin placed
  /\ \A r \in Runs :
       starts[r] = 0 /\ r \notin cut /\ run[r] = "pending" =>
         \/ NotDispatched(r)
         \/ thread.at = "prepare" /\ thread.run = r /\ task[r] = "dispatched"
  /\ \A r \in Runs :
       starts[r] = 0 /\ r \notin cut /\ run[r] = "started" =>
         \/ task[r] \in {"cancelled", "cancel_requested"} /\ r \notin placed
         \/ thread.at = "hand" /\ thread.run = r

\* The event of a transition, whatever it is, leads to a state of a task.
LEMMA TargetType == \A event : Target(event) \in TaskState
  BY DEF Target, TaskState

\* A time that is not zero lies in the range the clock and the bounds span.
LEMMA SlotsMember ==
  /\ Slots \subseteq Nat \ {0}
  /\ \A n \in Nat : n # 0 /\ n <= MaxTime + Step => n \in Slots
  /\ Once \in Slots
  BY BoundsAssumption DEF Slots

\* The largest multiple of a step is not beyond the number it divides.
LEMMA DivisionBound ==
  ASSUME NEW a \in Nat, NEW d \in Nat \ {0}
  PROVE  /\ a \div d \in Nat
         /\ (a \div d) * d <= a
         /\ a < (a \div d) * d + d
  BY SMTT(30)

\* The slot after one that is due is ahead of the clock, by one step at most.
LEMMA NextSlotAhead ==
  ASSUME TypeOK, NEW i \in Intents, nextFire[i] \in Slots, nextFire[i] <= clock
  PROVE  /\ NextSlot(i) \in {0} \cup Slots
         /\ NextSlot(i) = 0 \/ clock < NextSlot(i)
<1>1. CASE Schedule[i] = "every"
  <2> DEFINE behind == clock - nextFire[i]
  <2>2. Step \in Nat \ {0} /\ MaxTime \in Nat
    BY BoundsAssumption
  <2>1. /\ behind \in Nat
        /\ nextFire[i] \in Nat \ {0}
        /\ clock \in Nat
        /\ clock <= MaxTime
    <3>1. clock \in Nat /\ clock <= MaxTime
      BY <2>2 DEF TypeOK
    <3>2. nextFire[i] \in Nat \ {0}
      BY SlotsMember
    <3> QED
      BY <3>1, <3>2
  <2> HIDE DEF behind
  <2>3. /\ behind \div Step \in Nat
        /\ (behind \div Step) * Step <= behind
        /\ behind < (behind \div Step) * Step + Step
    BY <2>1, <2>2, DivisionBound
  <2>4. (behind \div Step + 1) * Step = (behind \div Step) * Step + Step
    BY <2>2, <2>3
  <2>5. NextSlot(i) = nextFire[i] + ((behind \div Step) * Step + Step)
    BY <1>1, <2>4 DEF NextSlot, behind
  <2>6. (behind \div Step) * Step \in Nat
    BY <2>2, <2>3
  <2>7. behind + nextFire[i] = clock
    BY <2>1 DEF behind, TypeOK
  <2> QED
    BY <2>1, <2>2, <2>3, <2>5, <2>6, <2>7, SlotsMember
<1>2. CASE Schedule[i] # "every"
  BY <1>2 DEF NextSlot
<1> QED
  BY <1>1, <1>2

\* The first time of a request is zero or a slot, and zero without a schedule.
LEMMA FirstFireType ==
  ASSUME TypeOK, NEW i \in Intents
  PROVE  FirstFire(i) \in {0} \cup Slots /\ (FirstFire(i) # 0 => i \in
     Scheduled)
<1>1. clock \in Nat /\ clock <= MaxTime /\ MaxTime \in Nat /\ Step \in Nat \ {0}
  BY BoundsAssumption DEF TypeOK
<1>2. clock + Step \in Slots
  BY <1>1, SlotsMember
<1> QED
  BY <1>2, SlotsMember DEF FirstFire, Scheduled

\* Every action keeps the types, the times and the kinds of what is to be done.
THEOREM TypePreserved == TypeInv /\ [Next]_vars => TypeInv'
<1> SUFFICES ASSUME TypeInv, [Next]_vars PROVE TypeInv'
  OBVIOUS
<1> USE DEF TypeInv, TypeOK, ThreadType, FireTimesFit, TodoFits, Within,
            Stretch, Idle, Ready, At, requests, deliveries, work, process,
            history
<1>1. ASSUME NEW i \in Intents, Create(i) PROVE TypeInv'
  BY <1>1, FirstFireType DEF Create
<1>2. ASSUME NEW i \in Intents,
             NEW state \in {"active", "paused", "removed"},
             Change(i, state)
      PROVE  TypeInv'
  BY <1>2, FirstFireType DEF Change, Rescheduled
<1>3. ASSUME NEW k \in Keys, Ingest(k) PROVE TypeInv'
  BY <1>3 DEF Ingest, Recorded, Signals
<1>4. CASE Tick
  BY <1>4, SlotsMember DEF Tick, DueTimers
<1>5. ASSUME NEW i \in Intents, FireTimer(i) PROVE TypeInv'
  BY <1>5, NextSlotAhead DEF FireTimer, Recorded, Signals, Done
<1>6. CASE TimersFired
  BY <1>6 DEF TimersFired, DueSignals
<1>7. ASSUME NEW x \in Signals, MatchSignal(x) PROVE TypeInv'
  BY <1>7 DEF MatchSignal, Answering, Done
<1>8. ASSUME NEW x \in Signals, MatchFails(x) PROVE TypeInv'
  BY <1>8, BoundsAssumption DEF MatchFails, AfterFailure, Done
<1>9. ASSUME NEW x \in Signals, NotDue(x) PROVE TypeInv'
  BY <1>9 DEF NotDue, Done
<1>10. CASE SignalsMatched
  BY <1>10 DEF SignalsMatched
<1>11. CASE TickEnds
  BY <1>11 DEF TickEnds
<1>12. ASSUME NEW r \in Runs, StartRun(r) PROVE TypeInv'
  BY <1>12 DEF StartRun, Settled, Go, Done
<1>13. ASSUME NEW r \in Runs, RefuseRun(r) PROVE TypeInv'
  BY <1>13 DEF RefuseRun, Settled, Done
<1>14. CASE Remind
  BY <1>14 DEF Remind, Word, AfterWord
<1>15. CASE Reminded
  BY <1>15 DEF Reminded, Settled, NextRun
<1>16. CASE CreateTask
  BY <1>16 DEF CreateTask, TaskState, Preparing
<1>17. CASE Unpark
  BY <1>17, TargetType DEF Unpark, Apply, Preparing
<1>18. CASE StaysParked
  BY <1>18 DEF StaysParked, NextRun, Preparing
<1>19. CASE BeginsToResolve
  BY <1>19, TargetType DEF BeginsToResolve, Apply, Preparing
<1>20. CASE Parks
  BY <1>20, TargetType DEF Parks, Apply, NextRun, Preparing
<1>21. CASE Resolves
  BY <1>21, TargetType DEF Resolves, Apply, Preparing
<1>22. CASE Acknowledges
  BY <1>22, TargetType DEF Acknowledges, Apply, WithAcknowledgement, Settled,
     Preparing
<1>23. CASE AlreadyStarted
  BY <1>23 DEF AlreadyStarted, Settled, NextRun, Preparing
<1>24. CASE PrepareFails
  BY <1>24 DEF PrepareFails, Settled, NextRun, Preparing
<1>25. CASE Hand
  BY <1>25 DEF Hand, NextRun, Preparing
<1>26. ASSUME NEW r \in Runs, WorkEnds(r) PROVE TypeInv'
  BY <1>26 DEF WorkEnds, TaskState
<1>27. ASSUME NEW r \in Runs, StopTask(r) PROVE TypeInv'
  BY <1>27, TargetType DEF StopTask, Apply
<1>28. CASE ConfirmStop
  BY <1>28, TargetType DEF ConfirmStop, Apply
<1>29. CASE CapabilityChanges
  BY <1>29 DEF CapabilityChanges
<1>30. CASE Pass
  BY <1>30, BoundsAssumption DEF Pass
<1>31. CASE Crash
  <2>1. crashes' \in 0..MaxCrashes
    BY <1>31, BoundsAssumption DEF Crash
  <2>2. cut' \subseteq Runs
    BY <1>31 DEF Crash
  <2> QED
    BY <1>31, <2>1, <2>2 DEF Crash
<1>32. CASE Boot
  BY <1>32 DEF Boot, Interrupted
<1>33. ASSUME NEW r \in Runs, Interrupt(r) PROVE TypeInv'
  BY <1>33, TargetType DEF Interrupt, Apply, Done
<1>34. CASE BootEnds
  BY <1>34 DEF BootEnds
<1>35. CASE UNCHANGED vars
  BY <1>35 DEF vars
<1> QED
  BY <1>1, <1>2, <1>3, <1>4, <1>5, <1>6, <1>7, <1>8, <1>9, <1>10, <1>11, <1>12,
     <1>13, <1>14, <1>15, <1>16, <1>17, <1>18, <1>19, <1>20, <1>21, <1>22,
     <1>23, <1>24, <1>25, <1>26, <1>27, <1>28, <1>29, <1>30, <1>31, <1>32,
     <1>33, <1>34, <1>35
  DEF Next, ThreadStep

\* Nothing is set up yet, and every row is empty.
LEMMA InitType == Init => TypeInv
<1> SUFFICES ASSUME Init PROVE TypeInv
  OBVIOUS
<1> USE DEF Init, Idle, Stretch, Within
<1>1. 0 \in 0..(MaxAttempts - 1) /\ 0 \in 0..MaxTime /\ 0 \in 0..MaxCrashes
  BY BoundsAssumption
<1>2. TypeOK
  BY <1>1 DEF TypeOK
<1>3. ThreadType /\ FireTimesFit /\ TodoFits
  BY DEF ThreadType, FireTimesFit, TodoFits
<1> QED
  BY <1>2, <1>3 DEF TypeInv

\* TypeOK of Automation: rows, memory, and how often a
\* signal is tried.
THEOREM TypeCorrect == Spec => []TypeOK
<1>1. TypeInv => TypeOK
  BY DEF TypeInv
<1> QED
  BY <1>1, InitType, TypePreserved, PTL DEF Spec

\* Every action keeps what is known of the runs that are to be started, and of
\* the one that is.
THEOREM RunPreserved == RunInv /\ [Next]_vars => RunInv'
<1> SUFFICES ASSUME RunInv, [Next]_vars PROVE RunInv'
  OBVIOUS
<1>0. TypeInv /\ TypeInv'
  BY TypePreserved DEF RunInv
<1> USE DEF PendingFits, ActiveFits, ReminderFits, StartsOnce, ReminderIsMade,
            Within, Stretch, Idle, Ready, At, requests, deliveries, work,
            process, history
<1> DEFINE Rest == PendingFits /\ ActiveFits /\ ReminderFits /\ StartsOnce
                     /\ ReminderIsMade
<1>1. Rest /\ TypeOK /\ ThreadType /\ TodoFits
  BY <1>0 DEF RunInv, TypeInv
<1> USE DEF TypeOK, ThreadType, TodoFits
<1>2. ASSUME NEW i \in Intents, Create(i) PROVE Rest'
  BY <1>1, <1>2 DEF Create
<1>3. ASSUME NEW i \in Intents,
             NEW state \in {"active", "paused", "removed"},
             Change(i, state)
      PROVE  Rest'
  BY <1>1, <1>3 DEF Change
<1>4. ASSUME NEW k \in Keys, Ingest(k) PROVE Rest'
  BY <1>1, <1>4 DEF Ingest
<1>5. ASSUME Tick PROVE Rest'
  BY <1>1, <1>5 DEF Tick
<1>6. ASSUME NEW i \in Intents, FireTimer(i) PROVE Rest'
  BY <1>1, <1>6 DEF FireTimer, Done
<1>7. ASSUME TimersFired PROVE Rest'
  BY <1>1, <1>7 DEF TimersFired
<1>8. ASSUME NEW x \in Signals, MatchSignal(x) PROVE Rest'
  BY <1>1, <1>8 DEF MatchSignal, Answering, Done
<1>9. ASSUME NEW x \in Signals, MatchFails(x) PROVE Rest'
  BY <1>1, <1>9 DEF MatchFails, Done
<1>10. ASSUME NEW x \in Signals, NotDue(x) PROVE Rest'
  BY <1>1, <1>10 DEF NotDue, Done
<1>11. ASSUME SignalsMatched PROVE Rest'
  BY <1>1, <1>11 DEF SignalsMatched
<1>12. ASSUME TickEnds PROVE Rest'
  BY <1>1, <1>12 DEF TickEnds
<1>13. ASSUME NEW r \in Runs, StartRun(r) PROVE Rest'
  BY <1>1, <1>13 DEF StartRun, Settled, Go, Done, Stopped
<1>14. ASSUME NEW r \in Runs, RefuseRun(r) PROVE Rest'
  BY <1>1, <1>14 DEF RefuseRun, Settled, Done
<1>15. ASSUME Remind PROVE Rest'
  BY <1>1, <1>15 DEF Remind, Word, AfterWord
<1>16. ASSUME Reminded PROVE Rest'
  BY <1>1, <1>16 DEF Reminded, Settled, NextRun
<1>17. ASSUME CreateTask PROVE Rest'
  BY <1>1, <1>17 DEF CreateTask, Preparing
<1>18. ASSUME Unpark PROVE Rest'
  BY <1>1, <1>18 DEF Unpark, Preparing
<1>19. ASSUME StaysParked PROVE Rest'
  BY <1>1, <1>19 DEF StaysParked, NextRun, Preparing
<1>20. ASSUME BeginsToResolve PROVE Rest'
  BY <1>1, <1>20 DEF BeginsToResolve, Preparing
<1>21. ASSUME Parks PROVE Rest'
  BY <1>1, <1>21 DEF Parks, NextRun, Preparing
<1>22. ASSUME Resolves PROVE Rest'
  BY <1>1, <1>22 DEF Resolves, Preparing
<1>23. ASSUME Acknowledges PROVE Rest'
  BY <1>1, <1>23 DEF Acknowledges, WithAcknowledgement, Settled, Preparing
<1>24. ASSUME AlreadyStarted PROVE Rest'
  BY <1>1, <1>24 DEF AlreadyStarted, Settled, NextRun, Preparing
<1>25. ASSUME PrepareFails PROVE Rest'
  BY <1>1, <1>25 DEF PrepareFails, Settled, NextRun, Preparing
<1>26. ASSUME Hand PROVE Rest'
  BY <1>1, <1>26 DEF Hand, NextRun
<1>27. ASSUME NEW r \in Runs, WorkEnds(r) PROVE Rest'
  BY <1>1, <1>27 DEF WorkEnds
<1>28. ASSUME NEW r \in Runs, StopTask(r) PROVE Rest'
  BY <1>1, <1>28 DEF StopTask
<1>29. ASSUME ConfirmStop PROVE Rest'
  BY <1>1, <1>29 DEF ConfirmStop
<1>30. ASSUME CapabilityChanges PROVE Rest'
  BY <1>1, <1>30 DEF CapabilityChanges
<1>31. ASSUME Pass PROVE Rest'
  BY <1>1, <1>31 DEF Pass
<1>32. ASSUME Crash PROVE Rest'
  BY <1>1, <1>32 DEF Crash
<1>33. ASSUME Boot PROVE Rest'
  BY <1>1, <1>33 DEF Boot
<1>34. ASSUME NEW r \in Runs, Interrupt(r) PROVE Rest'
  BY <1>1, <1>34 DEF Interrupt, Done
<1>35. ASSUME BootEnds PROVE Rest'
  BY <1>1, <1>35 DEF BootEnds
<1>36. ASSUME UNCHANGED vars PROVE Rest'
  BY <1>1, <1>36 DEF vars
<1> HIDE DEF Rest
<1>37. Rest'
  BY <1>2, <1>3, <1>4, <1>5, <1>6, <1>7, <1>8, <1>9, <1>10, <1>11, <1>12, <1>13,
     <1>14, <1>15, <1>16, <1>17, <1>18, <1>19, <1>20, <1>21, <1>22, <1>23,
     <1>24, <1>25, <1>26, <1>27, <1>28, <1>29, <1>30, <1>31, <1>32, <1>33,
     <1>34, <1>35, <1>36
  DEF Next, ThreadStep, RunInv
<1> QED
  BY <1>0, <1>37 DEF RunInv, Rest

\* No run is known yet.
LEMMA InitRun == Init => RunInv
<1> SUFFICES ASSUME Init PROVE RunInv
  OBVIOUS
<1>1. TypeInv
  BY InitType
<1>2. PendingFits /\ ActiveFits /\ ReminderFits /\ StartsOnce /\ ReminderIsMade
  BY DEF Init, Idle, Stretch, Within, PendingFits, ActiveFits, ReminderFits,
         StartsOnce, ReminderIsMade
<1> QED
  BY <1>1, <1>2 DEF RunInv

\* RunInv is an invariant of Automation.
LEMMA RunCorrect == Spec => []RunInv
  BY InitRun, RunPreserved, PTL DEF Spec

\* StartsOnce of Automation: one occurrence starts its work once at most, and a
\* run that is pending, or was given up on, has not started it.
THEOREM StartsOnceHolds == Spec => []StartsOnce
<1>1. RunInv => StartsOnce
  BY DEF RunInv
<1> QED
  BY <1>1, RunCorrect, PTL

\* ReminderIsMade of Automation: each word of what is marked as reminded was
\* written, or its writing failed; no crash takes one away.
THEOREM ReminderIsMadeHolds == Spec => []ReminderIsMade
<1>1. RunInv => ReminderIsMade
  BY DEF RunInv
<1> QED
  BY <1>1, RunCorrect, PTL

\* OnlyActiveActs of Automation: a step that hands a task over, or says a
\* reminder, does it for a request that is active at that moment.
THEOREM OnlyActiveActsHolds == Spec => OnlyActiveActs
<1> DEFINE Acts ==
      \A r \in Runs :
        starts'[r] # starts[r] \/ told'[r] # told[r] => intent[r[1]] = "active"
<1>1. RunInv /\ [Next]_vars => [Acts]_vars
  <2> SUFFICES ASSUME RunInv, Next PROVE Acts
    OBVIOUS
  <2>1. CASE Hand
    BY <2>1 DEF Hand, At, RunInv, TypeInv, TypeOK, TodoFits, ActiveFits, Within
  <2>2. CASE Remind
    BY <2>2 DEF Remind, Word, history, RunInv, TypeInv, TypeOK, TodoFits,
                ActiveFits, Within
  <2>3. CASE UNCHANGED <<starts, told>>
    BY <2>3
  <2> QED
    BY <2>1, <2>2, <2>3
    DEF Next, ThreadStep, history, Create, Change, Ingest, Tick, FireTimer,
        TimersFired, MatchSignal, MatchFails, NotDue, SignalsMatched, TickEnds,
        StartRun, RefuseRun, Reminded, CreateTask, Unpark, StaysParked,
        BeginsToResolve, Parks, Resolves, Acknowledges, AlreadyStarted,
        PrepareFails, WorkEnds, StopTask, ConfirmStop, CapabilityChanges, Pass,
        Crash, Boot, Interrupt, BootEnds
<1> QED
  BY <1>1, RunCorrect, PTL DEF Spec, OnlyActiveActs

\* Every action keeps what is known of the tasks that were not handed over.
THEOREM HandPreserved == RunInv /\ HandInv /\ [Next]_vars => HandInv'
<1> SUFFICES ASSUME RunInv, HandInv, [Next]_vars PROVE HandInv'
  OBVIOUS
<1>1. TypeOK /\ ThreadType /\ TodoFits /\ PendingFits /\ StartsOnce
  BY DEF RunInv, TypeInv
<1> USE <1>1
<1> USE DEF HandInv, NotDispatched, PendingFits, StartsOnce, Within, Stretch,
            Idle, Ready, At, requests, deliveries, work, process, history,
            TypeOK, ThreadType, TodoFits
<1>2. ASSUME NEW i \in Intents, Create(i) PROVE HandInv'
  BY <1>2 DEF Create
<1>3. ASSUME NEW i \in Intents,
             NEW state \in {"active", "paused", "removed"},
             Change(i, state)
      PROVE  HandInv'
  BY <1>3 DEF Change
<1>4. ASSUME NEW k \in Keys, Ingest(k) PROVE HandInv'
  BY <1>4 DEF Ingest
<1>5. ASSUME Tick PROVE HandInv'
  BY <1>5 DEF Tick
<1>6. ASSUME NEW i \in Intents, FireTimer(i) PROVE HandInv'
  BY <1>6 DEF FireTimer, Done
<1>7. ASSUME TimersFired PROVE HandInv'
  BY <1>7 DEF TimersFired
<1>8. ASSUME NEW x \in Signals, MatchSignal(x) PROVE HandInv'
  BY <1>8 DEF MatchSignal, Answering, Done
<1>9. ASSUME NEW x \in Signals, MatchFails(x) PROVE HandInv'
  BY <1>9 DEF MatchFails, Done
<1>10. ASSUME NEW x \in Signals, NotDue(x) PROVE HandInv'
  BY <1>10 DEF NotDue, Done
<1>11. ASSUME SignalsMatched PROVE HandInv'
  BY <1>11 DEF SignalsMatched
<1>12. ASSUME TickEnds PROVE HandInv'
  BY <1>12 DEF TickEnds
<1>13. ASSUME NEW r \in Runs, StartRun(r) PROVE HandInv'
  BY <1>13 DEF StartRun, Settled, Go, Done, Stopped
<1>14. ASSUME NEW r \in Runs, RefuseRun(r) PROVE HandInv'
  BY <1>14 DEF RefuseRun, Settled, Done
<1>15. ASSUME Remind PROVE HandInv'
  BY <1>15 DEF Remind, Word, AfterWord
<1>16. ASSUME Reminded PROVE HandInv'
  BY <1>16 DEF Reminded, Settled, NextRun
<1>17. ASSUME CreateTask PROVE HandInv'
  BY <1>17 DEF CreateTask, Preparing
<1>18. ASSUME Unpark PROVE HandInv'
  BY <1>18 DEF Unpark, Preparing, Apply, Target
<1>19. ASSUME StaysParked PROVE HandInv'
  BY <1>19 DEF StaysParked, NextRun, Preparing
<1>20. ASSUME BeginsToResolve PROVE HandInv'
  BY <1>20 DEF BeginsToResolve, Preparing, Apply, Target
<1>21. ASSUME Parks PROVE HandInv'
  BY <1>21 DEF Parks, NextRun, Preparing, Apply, Target
<1>22. ASSUME Resolves PROVE HandInv'
  BY <1>22 DEF Resolves, Preparing, Apply, Target
<1>23. ASSUME Acknowledges PROVE HandInv'
  BY <1>23 DEF Acknowledges, WithAcknowledgement, Settled, Preparing, Apply,
     Target
<1>24. ASSUME AlreadyStarted PROVE HandInv'
  BY <1>24 DEF AlreadyStarted, Settled, NextRun, Preparing, PastDispatch,
     TaskState
<1>25. ASSUME PrepareFails PROVE HandInv'
  BY <1>25 DEF PrepareFails, Settled, NextRun, Preparing
<1>26. ASSUME Hand PROVE HandInv'
  BY <1>26 DEF Hand, NextRun
<1>27. ASSUME NEW r \in Runs, WorkEnds(r) PROVE HandInv'
  BY <1>27 DEF WorkEnds
<1>28. ASSUME NEW r \in Runs, StopTask(r) PROVE HandInv'
  BY <1>28 DEF StopTask, Apply, Target, Legal, Sources, Cancellable, TaskState
<1>29. ASSUME ConfirmStop PROVE HandInv'
  BY <1>29 DEF ConfirmStop, Apply, Target
<1>30. ASSUME CapabilityChanges PROVE HandInv'
  BY <1>30 DEF CapabilityChanges
<1>31. ASSUME Pass PROVE HandInv'
  BY <1>31 DEF Pass
<1>32. ASSUME Crash PROVE HandInv'
  BY <1>32 DEF Crash
<1>33. ASSUME Boot PROVE HandInv'
  BY <1>33 DEF Boot, Interrupted
<1>34. ASSUME NEW r \in Runs, Interrupt(r) PROVE HandInv'
  BY <1>34 DEF Interrupt, Done, Apply, Target
<1>35. ASSUME BootEnds PROVE HandInv'
  BY <1>35 DEF BootEnds
<1>36. ASSUME UNCHANGED vars PROVE HandInv'
  BY <1>36 DEF vars
<1> QED
  BY <1>2, <1>3, <1>4, <1>5, <1>6, <1>7, <1>8, <1>9, <1>10, <1>11, <1>12, <1>13,
     <1>14, <1>15, <1>16, <1>17, <1>18, <1>19, <1>20, <1>21, <1>22, <1>23,
     <1>24, <1>25, <1>26, <1>27, <1>28, <1>29, <1>30, <1>31, <1>32, <1>33,
     <1>34, <1>35, <1>36
  DEF Next, ThreadStep

\* StartedIsHandedOver of Automation: a run that reads as started was handed to
\* the dispatcher, was stopped before it could be, or was cut by a crash.
THEOREM StartedIsHandedOverHolds == Spec => []StartedIsHandedOver
<1>1. Init => HandInv
  BY DEF Init, HandInv, NotDispatched, Idle, Stretch
<1>2. RunInv /\ HandInv => StartedIsHandedOver
  BY DEF RunInv, TypeInv, TypeOK, StartsOnce, HandInv, StartedIsHandedOver,
         Ready, Idle, Stretch
<1>3. Spec => []HandInv
  BY <1>1, HandPreserved, RunCorrect, PTL DEF Spec
<1> QED
  BY <1>2, <1>3, RunCorrect, PTL

\* A timer that fired since the clock last moved is not due again.
FiredInv ==
  \A i \in Intents :
    \/ fired[i] = 0
    \/ fired[i] = 1 /\ (nextFire[i] = 0 \/ clock < nextFire[i])

\* The first time of a request is ahead of the clock.
LEMMA FirstFireAhead ==
  ASSUME TypeOK, NEW i \in Intents
  PROVE  FirstFire(i) = 0 \/ clock < FirstFire(i)
<1>1. clock \in Nat /\ Step \in Nat \ {0} /\ Once \in Nat
  BY BoundsAssumption DEF TypeOK
<1> QED
  BY <1>1 DEF FirstFire

\* Every action keeps it: only Pass moves the clock, and it starts the count
\* again.
LEMMA FiredPreserved == TypeInv /\ FiredInv /\ [Next]_vars => FiredInv'
<1> SUFFICES ASSUME TypeInv, FiredInv, [Next]_vars PROVE FiredInv'
  OBVIOUS
<1> USE DEF FiredInv
<1>1. TypeOK /\ TodoFits
  BY DEF TypeInv
<1>2. ASSUME NEW i \in Intents, Create(i) PROVE FiredInv'
  BY <1>1, <1>2, FirstFireAhead DEF Create, TypeOK, process, history
<1>3. ASSUME NEW i \in Intents,
             NEW state \in {"active", "paused", "removed"},
             Change(i, state)
      PROVE  FiredInv'
  BY <1>1, <1>3, FirstFireAhead DEF Change, TypeOK, process, history
<1>4. ASSUME NEW i \in Intents, FireTimer(i) PROVE FiredInv'
  <2>1. nextFire[i] \in Slots /\ nextFire[i] <= clock
    BY <1>1, <1>4 DEF FireTimer, At, TodoFits
  <2>2. nextFire[i] \in Nat \ {0}
    BY <2>1, SlotsMember
  <2>3. clock \in Nat
    BY <1>1, BoundsAssumption DEF TypeOK
  <2>4. fired[i] = 0
    BY <2>1, <2>2, <2>3
  <2>5. NextSlot(i) = 0 \/ clock < NextSlot(i)
    BY <1>1, <2>1, NextSlotAhead
  <2> QED
    BY <1>1, <1>4, <2>4, <2>5 DEF FireTimer, TypeOK, process
<1>5. CASE Pass
  BY <1>5 DEF Pass
<1>6. CASE UNCHANGED <<nextFire, fired, clock>>
  BY <1>6
<1> QED
  BY <1>2, <1>3, <1>4, <1>5, <1>6
  DEF Next, ThreadStep, vars, requests, process, history, Ingest, Tick,
      TimersFired, MatchSignal, MatchFails, NotDue, SignalsMatched, TickEnds,
      StartRun, RefuseRun, Remind, Reminded, CreateTask, Unpark, StaysParked,
      BeginsToResolve, Parks, Resolves, Acknowledges, AlreadyStarted,
      PrepareFails, Hand, WorkEnds, StopTask, ConfirmStop, CapabilityChanges,
      Crash, Boot, Interrupt, BootEnds

\* NoBurst of Automation: however many slots a node slept through, whatever was
\* paused, resumed or cut by a crash, a timer fires once before the clock moves.
THEOREM NoBurstHolds == Spec => []NoBurst
<1>1. Init => FiredInv
  BY DEF Init, FiredInv
<1>2. FiredInv => NoBurst
  BY DEF FiredInv, NoBurst
<1> QED
  BY <1>1, <1>2, InitType, TypePreserved, FiredPreserved, PTL DEF Spec
=============================================================================
