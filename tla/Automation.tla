----------------------------- MODULE Automation -----------------------------
(***************************************************************************)
(* Standing requests of a node: "when X happens, do Y", "every hour do Y"  *)
(* (core automation.ts), the service that makes them happen tick by tick   *)
(* from what is written down (apps/runtime automation-service.ts), the     *)
(* signals and runs it keeps (storage signals.ts), and the boot that finds *)
(* what an earlier process left (work-recovery.ts).                        *)
(*                                                                         *)
(* A tick is one stretch of synchronous code: due timers become signals,   *)
(* signals become runs, runs are started.  thread is what the stretch      *)
(* still has to do; a crash may cut it between any two transactions.  What *)
(* the dispatcher does with a task it was handed is TaskDispatch.          *)
(***************************************************************************)
EXTENDS Naturals, TaskMachine

CONSTANTS
  Intents,      \* standing requests
  Keys,         \* signals from outside, by source and dedupe key
  Schedule,     \* what sets each off: "signal", "once" or "every"
  Action,       \* what each does: "remind" or "task"
  Step,         \* everyMinutes of the repeating ones
  Once,         \* the time of those that happen once
  MaxAttempts,  \* SIGNAL_MAX_ATTEMPTS
  Lapse,        \* how far the clock moves at a time: the node may sleep
  MaxTime,      \* bound: the clock stops here
  MaxCrashes,   \* bound: crashes of the node
  Failures      \* writes of a tick, and the words of a reminder, may fail

Scheduled == {i \in Intents : Schedule[i] # "signal"}
Slots == 1..(IF Once > MaxTime + Step THEN Once ELSE MaxTime + Step)

\* A signal is unique per source and key; a timer's key is the slot it is for.
Signals == Keys \cup (Scheduled \X Slots)

\* A run is unique per request and signal; the signals of a topic answer the
\* requests on it, and a timer answers the request that set it.
Runs == ((Intents \ Scheduled) \X Keys)
          \cup {<<i, <<i, s>>>> : i \in Scheduled, s \in Slots}

ASSUME ScheduleAssumption ==
  /\ Schedule \in [Intents -> {"signal", "once", "every"}]
  /\ Action \in [Intents -> {"remind", "task"}]
ASSUME BoundsAssumption ==
  /\ Step \in Nat \ {0}
  /\ Once \in Nat \ {0}
  /\ MaxAttempts \in Nat \ {0}
  /\ Lapse \in Nat \ {0}
  /\ MaxTime \in Nat
  /\ MaxCrashes \in Nat
  /\ Failures \in BOOLEAN

VARIABLES
  \* rows of the database: they survive a crash
  intent,    \* state of each standing request, "none" before it is set up
  nextFire,  \* nextFireAt of each, 0 for none
  signal,    \* state of each delivery
  tries,     \* failed attempts to match each
  run,       \* state of each run, "none" without a row
  task,      \* state of the task of each run, "none" without a row
  placed,    \* tasks whose execution node is this one
  told,      \* where each reminder was said: its conversation, the inbox
  \* memory, and what the node runs on
  held,      \* tasks the dispatcher holds
  thread,    \* what the current stretch of code still has to do
  usable,    \* the capability tasks need is usable here
  up,        \* the process runs
  clock,
  crashes,
  \* history
  starts,    \* how often each task was handed to the dispatcher
  fired,     \* how often each timer fired since the clock last moved
  cut,       \* runs a crash hit between their dispatch and the hand-over
  missed     \* words of each reminder that could not be written

requests == <<intent, nextFire>>
deliveries == <<signal, tries>>
work == <<task, placed>>
process == <<up, clock, crashes>>
history == <<starts, fired, cut, missed>>
vars == <<requests, deliveries, run, work, told, held, thread, usable, process,
          history>>

Stretch(at, todo, now) == [at |-> at, todo |-> todo, run |-> now]
NoRun == <<>>
Idle == Stretch("return", {}, NoRun)

Ready == up /\ thread = Idle
At(step) == up /\ thread.at = step

\* applyTaskEvent, where the machine takes the event.
Apply(r, event) == task' = [task EXCEPT ![r] = Target(event)]
-----------------------------------------------------------------------------
Init ==
  /\ intent = [i \in Intents |-> "none"]
  /\ nextFire = [i \in Intents |-> 0]
  /\ signal = [s \in Signals |-> "none"]
  /\ tries = [s \in Signals |-> 0]
  /\ run = [r \in Runs |-> "none"]
  /\ task = [r \in Runs |-> "none"]
  /\ placed = {}
  /\ told = [r \in Runs |-> {}]
  /\ held = {}
  /\ thread = Idle
  /\ usable = FALSE
  /\ up = TRUE
  /\ clock = 0
  /\ crashes = 0
  /\ starts = [r \in Runs |-> 0]
  /\ fired = [i \in Intents |-> 0]
  /\ cut = {}
  /\ missed = [r \in Runs |-> {}]
-----------------------------------------------------------------------------
(* Setting one up, pausing, resuming and removing it.                      *)

\* firstFire: 0 for a time that has passed, which is refused.
FirstFire(i) ==
  CASE Schedule[i] = "every" -> clock + Step
    [] Schedule[i] = "once"  -> IF Once <= clock THEN 0 ELSE Once
    [] OTHER                 -> 0

\* createAutomation.
Create(i) ==
  /\ Ready
  /\ intent[i] = "none"
  /\ i \in Scheduled => FirstFire(i) # 0
  /\ intent' = [intent EXCEPT ![i] = "active"]
  /\ nextFire' = [nextFire EXCEPT ![i] = FirstFire(i)]
  /\ UNCHANGED <<deliveries, run, work, told, held, thread, usable, process,
                 history>>

\* A request that is resumed after its slot passed is given a new one.
Rescheduled(i, state) ==
  /\ i \in Scheduled
  /\ state = "active"
  /\ intent[i] # "active"
  /\ nextFire[i] <= clock

\* updateAutomation.
Change(i, state) ==
  /\ Ready
  /\ intent[i] \notin {"none", "removed", state}
  /\ Rescheduled(i, state) => FirstFire(i) # 0
  /\ intent' = [intent EXCEPT ![i] = state]
  /\ nextFire' = [nextFire EXCEPT ![i] =
                    IF state = "removed" THEN 0
                    ELSE IF Rescheduled(i, state) THEN FirstFire(i) ELSE @]
  /\ UNCHANGED <<deliveries, run, work, told, held, thread, usable, process,
                 history>>

\* recordSignalDelivery: a signal that is known is not recorded again.
Recorded(s) == [signal EXCEPT ![s] = IF @ = "none" THEN "pending" ELSE @]

\* ingestSignal, for a signal from outside.
Ingest(k) ==
  /\ Ready
  /\ signal' = Recorded(k)
  /\ UNCHANGED <<requests, tries, run, work, told, held, thread, usable,
                 process, history>>
-----------------------------------------------------------------------------
(* A tick.  Each of its three passes reads its list once.                  *)

\* dueTimerIntents.
DueTimers ==
  {i \in Intents :
     intent[i] = "active" /\ nextFire[i] # 0 /\ nextFire[i] <= clock}

Tick ==
  /\ Ready
  /\ thread' = Stretch("timers", DueTimers, NoRun)
  /\ UNCHANGED <<requests, deliveries, run, work, told, held, usable, process,
                 history>>

Done(x) == thread' = [thread EXCEPT !.todo = @ \ {x}]

\* Mutant of NextSlot: every slot that was missed is made up for.
NextSlotOfAll(i) == IF Schedule[i] = "every" THEN nextFire[i] + Step ELSE 0

\* nextTimerSlot: the first slot after the one that fires which is still ahead.
NextSlot(i) ==
  IF Schedule[i] = "every"
  THEN nextFire[i] + ((clock - nextFire[i]) \div Step + 1) * Step
  ELSE 0

\* fireDueTimers, for one of them: the signal and the next slot are one write.
FireTimer(i) ==
  /\ At("timers")
  /\ i \in thread.todo
  /\ signal' = Recorded(<<i, nextFire[i]>>)
  /\ nextFire' = [nextFire EXCEPT ![i] = NextSlot(i)]
  /\ fired' = [fired EXCEPT ![i] = @ + 1]
  /\ Done(i)
  /\ UNCHANGED <<intent, tries, run, work, told, held, usable, process, starts,
                 cut, missed>>

\* Mutant of DueSignals: a signal that failed once is not looked at again.
DueSignalsOnce == {s \in Signals : signal[s] = "pending" /\ tries[s] = 0}

\* dueSignalDeliveries; whether a backoff is over is NotDue's to say.
DueSignals == {s \in Signals : signal[s] = "pending"}

TimersFired ==
  /\ At("timers")
  /\ thread.todo = {}
  /\ thread' = Stretch("signals", DueSignals, NoRun)
  /\ UNCHANGED <<requests, deliveries, run, work, told, held, usable, process,
                 history>>

\* The runs a signal is to have: one for each active request it answers.
Answering(s) == {r \in Runs : r[2] = s /\ intent[r[1]] = "active"}

\* matchDueSignals, for one signal: its runs are recorded, and it is settled,
\* in one write.
MatchSignal(s) ==
  /\ At("signals")
  /\ s \in thread.todo
  /\ run' = [r \in Runs |->
               IF r \in Answering(s) /\ run[r] = "none" THEN "pending" ELSE run[r]]
  /\ signal' = [signal EXCEPT ![s] = "processed"]
  /\ Done(s)
  /\ UNCHANGED <<requests, tries, work, told, held, usable, process, history>>

\* Mutant of AfterFailure: one attempt too many.
AfterFailureLate(s) == IF tries[s] + 1 > MaxAttempts THEN "dead" ELSE "pending"

\* What a failed attempt makes of a signal.
AfterFailure(s) == IF tries[s] + 1 >= MaxAttempts THEN "dead" ELSE "pending"

\* The write fails: the signal is tried again later, or set aside.
MatchFails(s) ==
  /\ Failures
  /\ At("signals")
  /\ s \in thread.todo
  /\ signal' = [signal EXCEPT ![s] = AfterFailure(s)]
  /\ tries' = [tries EXCEPT ![s] =
                 IF AfterFailure(s) = "dead" THEN @ ELSE @ + 1]
  /\ Done(s)
  /\ UNCHANGED <<requests, run, work, told, held, usable, process, history>>

\* A signal that failed waits out its backoff.
NotDue(s) ==
  /\ At("signals")
  /\ s \in thread.todo
  /\ tries[s] > 0
  /\ Done(s)
  /\ UNCHANGED <<requests, deliveries, run, work, told, held, usable, process,
                 history>>

SignalsMatched ==
  /\ At("signals")
  /\ thread.todo = {}
  /\ thread' = Stretch("runs", {r \in Runs : run[r] = "pending"}, NoRun)
  /\ UNCHANGED <<requests, deliveries, run, work, told, held, usable, process,
                 history>>

TickEnds ==
  /\ At("runs")
  /\ thread.todo = {}
  /\ thread' = Idle
  /\ UNCHANGED <<requests, deliveries, run, work, told, held, usable, process,
                 history>>
-----------------------------------------------------------------------------
(* Starting a run.                                                         *)

\* The stretch goes on with one run, or with the next one.
Go(at, r) == thread' = Stretch(at, thread.todo \ {r}, r)
NextRun == thread' = Stretch("runs", thread.todo, NoRun)

\* settleIntentRun.
Settled(r, state) == run' = [run EXCEPT ![r] = state]

\* Mutant of Stopped: a paused request is not.
StoppedForGood(i) == intent[i] = "removed"

\* A request that is not active any more: its runs are skipped.
Stopped(i) == intent[i] # "active"

\* start and prepareIntentRun, as far as they look at the request.
StartRun(r) ==
  /\ At("runs")
  /\ r \in thread.todo
  /\ IF Stopped(r[1]) THEN Settled(r, "failed") /\ Done(r)
     ELSE /\ Go(IF Action[r[1]] = "remind" THEN "say" ELSE "prepare", r)
          /\ UNCHANGED run
  /\ UNCHANGED <<requests, deliveries, work, told, held, usable, process,
                 history>>

\* repositoryBindingRefusal: asked once, before the task exists.
RefuseRun(r) ==
  /\ At("runs")
  /\ r \in thread.todo
  /\ ~Stopped(r[1])
  /\ Action[r[1]] = "task"
  /\ task[r] = "none"
  /\ Settled(r, "failed")
  /\ Done(r)
  /\ UNCHANGED <<requests, deliveries, work, told, held, usable, process,
                 history>>

\* Mutant of AfterWord: the run is marked before the inbox has it.
AfterWordEarly(at) == IF at = "say" THEN "reminded" ELSE "notice"

\* A reminder is said, left in the inbox, and marked, in this order.
AfterWord(at) == IF at = "say" THEN "notice" ELSE "reminded"

Word == [say |-> "line", notice |-> "notice"]

\* say, and tryRecordNodeNotice.  A word that cannot be written is reported on
\* stderr only, and the reminder goes on.
Remind ==
  /\ thread.at \in DOMAIN Word
  /\ up
  /\ \/ /\ told' = [told EXCEPT ![thread.run] = @ \cup {Word[thread.at]}]
        /\ UNCHANGED missed
     \/ /\ Failures
        /\ missed' = [missed EXCEPT ![thread.run] = @ \cup {Word[thread.at]}]
        /\ UNCHANGED told
  /\ thread' = [thread EXCEPT !.at = AfterWord(@)]
  /\ UNCHANGED <<requests, deliveries, run, work, held, usable, process, starts,
                 fired, cut>>

Reminded ==
  /\ At("reminded")
  /\ Settled(thread.run, "reminded")
  /\ NextRun
  /\ UNCHANGED <<requests, deliveries, work, told, held, usable, process,
                 history>>

\* What prepareIntentRun does next is up to the state its task is in: it may
\* be new, or as far as an earlier tick or an earlier process took it.
Preparing(states) ==
  /\ At("prepare")
  /\ task[thread.run] \in states

\* createTask, under the id the run recorded.
CreateTask ==
  /\ Preparing({"none"})
  /\ task' = [task EXCEPT ![thread.run] = "queued"]
  /\ UNCHANGED <<requests, deliveries, run, placed, told, held, thread, usable,
                 process, history>>

\* Mutant of GoesOn: a parked task is only looked at.
GoesOnNever(state) == FALSE

\* A task parked on a capability goes back once it is usable.
GoesOn(state) == state = "waiting_capability" /\ usable

Unpark ==
  /\ Preparing({"waiting_capability"})
  /\ GoesOn(task[thread.run])
  /\ Apply(thread.run, "capability.ready")
  /\ UNCHANGED <<requests, deliveries, run, placed, told, held, thread, usable,
                 process, history>>

\* Parked before, and still waiting: the run stays pending.
StaysParked ==
  /\ Preparing({"waiting_capability"})
  /\ ~GoesOn(task[thread.run])
  /\ NextRun
  /\ UNCHANGED <<requests, deliveries, run, work, told, held, usable, process,
                 history>>

BeginsToResolve ==
  /\ Preparing({"queued"})
  /\ Apply(thread.run, "resolve.start")
  /\ UNCHANGED <<requests, deliveries, run, placed, told, held, thread, usable,
                 process, history>>

\* Nothing usable: the task is parked, and its run left pending.
Parks ==
  /\ Preparing({"resolving"})
  /\ ~usable
  /\ Apply(thread.run, "resolve.need_capability")
  /\ NextRun
  /\ UNCHANGED <<requests, deliveries, run, placed, told, held, usable, process,
                 history>>

Resolves ==
  /\ Preparing({"resolving"})
  /\ usable
  /\ Apply(thread.run, "resolve.ready")
  /\ placed' = placed \cup {thread.run}
  /\ UNCHANGED <<requests, deliveries, run, told, held, thread, usable, process,
                 history>>

\* Mutant of WithAcknowledgement: the run is marked by a later tick.
WithAcknowledgementLater(r) == UNCHANGED run

\* What is written together with the acknowledgement.
WithAcknowledgement(r) == Settled(r, "started")

Acknowledges ==
  /\ Preparing({"dispatched"})
  /\ Apply(thread.run, "dispatch.acknowledged")
  /\ WithAcknowledgement(thread.run)
  /\ thread' = [thread EXCEPT !.at = "hand"]
  /\ UNCHANGED <<requests, deliveries, placed, told, held, usable, process,
                 history>>

\* Mutant of PastDispatch: a task that was dispatched is taken for started.
PastResolve == TaskState \ {"queued", "resolving", "waiting_capability"}

\* Past dispatch already, or ended: there is nothing left to start.
PastDispatch ==
  TaskState \ {"queued", "resolving", "waiting_capability", "dispatched"}

AlreadyStarted ==
  /\ Preparing(PastDispatch)
  /\ Settled(thread.run, "started")
  /\ NextRun
  /\ UNCHANGED <<requests, deliveries, work, told, held, usable, process,
                 history>>

\* A write of prepareIntentRun throws: its run is given up on.
PrepareFails ==
  /\ Failures
  /\ At("prepare")
  /\ Settled(thread.run, "failed")
  /\ NextRun
  /\ UNCHANGED <<requests, deliveries, work, told, held, usable, process,
                 history>>

\* runTask: from here the task is the dispatcher's.
Hand ==
  /\ At("hand")
  /\ held' = held \cup {thread.run}
  /\ starts' = [starts EXCEPT ![thread.run] = @ + 1]
  /\ NextRun
  /\ UNCHANGED <<requests, deliveries, run, work, told, usable, process, fired,
                 cut, missed>>
-----------------------------------------------------------------------------
(* The task outside the service.                                           *)

\* The dispatcher is done with it: it ran, was refused, or its outcome is
\* unknown.
WorkEnds(r) ==
  /\ Ready
  /\ r \in held
  /\ held' = held \ {r}
  /\ \E state \in {"uncertain"} \cup
       (IF task[r] = "cancel_requested" THEN {"cancelled"}
                                        ELSE {"succeeded", "failed"}) :
       task' = [task EXCEPT ![r] = state]
  /\ UNCHANGED <<requests, deliveries, run, placed, told, thread, usable,
                 process, history>>

\* cancelTask on the task of a run: one that nothing holds is stopped at once.
StopTask(r) ==
  /\ Ready
  /\ task[r] # "none"
  /\ Legal(task[r], "cancel.requested")
  /\ Apply(r, "cancel.requested")
  /\ thread' = IF r \in held THEN Idle ELSE Stretch("confirm", {}, r)
  /\ UNCHANGED <<requests, deliveries, run, placed, told, held, usable, process,
                 history>>

ConfirmStop ==
  /\ At("confirm")
  /\ Apply(thread.run, "cancel.confirmed")
  /\ thread' = Idle
  /\ UNCHANGED <<requests, deliveries, run, placed, told, held, usable, process,
                 history>>

\* The capability becomes usable, or stops being so.  resumeCapabilityWaiters
\* leaves the parked tasks of standing requests to the service.
CapabilityChanges ==
  /\ Ready
  /\ usable' = ~usable
  /\ UNCHANGED <<requests, deliveries, run, work, told, held, thread, process,
                 history>>

Pass ==
  /\ thread = Idle
  /\ clock + Lapse <= MaxTime
  /\ clock' = clock + Lapse
  /\ fired' = [i \in Intents |-> 0]
  /\ UNCHANGED <<requests, deliveries, run, work, told, held, thread, usable,
                 up, crashes, starts, cut, missed>>
-----------------------------------------------------------------------------
(* Crashes.                                                                *)

\* A crash anywhere; the pack that makes the capability usable is loaded again.
Crash ==
  /\ up
  /\ crashes < MaxCrashes
  /\ crashes' = crashes + 1
  /\ up' = FALSE
  /\ thread' = Idle
  /\ held' = {}
  /\ usable' = FALSE
  /\ cut' = cut \cup (IF \/ thread.at = "hand"
                         \/ thread.at = "prepare"
                              /\ task[thread.run] = "dispatched"
                      THEN {thread.run} ELSE {})
  /\ UNCHANGED <<requests, deliveries, run, work, told, clock, starts, fired,
                 missed>>

\* What the boot looks for: everything a task of this node can be in while
\* something runs for it.
Interrupted ==
  {r \in placed : task[r] \in {"dispatched", "running", "cancel_requested"}}

\* The next process recovers before its first tick.
Boot ==
  /\ ~up
  /\ up' = TRUE
  /\ thread' = Stretch("boot", Interrupted, NoRun)
  /\ UNCHANGED <<requests, deliveries, run, work, told, held, usable, clock,
                 crashes, history>>

\* interruptTasks, for one of them.
Interrupt(r) ==
  /\ At("boot")
  /\ r \in thread.todo
  /\ Apply(r, IF task[r] = "dispatched" THEN "dispatch.timed_out"
                                        ELSE "effect.unknown")
  /\ Done(r)
  /\ UNCHANGED <<requests, deliveries, run, placed, told, held, usable, process,
                 history>>

BootEnds ==
  /\ At("boot")
  /\ thread.todo = {}
  /\ thread' = Idle
  /\ UNCHANGED <<requests, deliveries, run, work, told, held, usable, process,
                 history>>
-----------------------------------------------------------------------------
ThreadStep ==
  \/ \E i \in Intents : FireTimer(i)
  \/ TimersFired
  \/ \E s \in Signals : MatchSignal(s) \/ MatchFails(s) \/ NotDue(s)
  \/ SignalsMatched
  \/ TickEnds
  \/ \E r \in Runs : StartRun(r) \/ RefuseRun(r) \/ Interrupt(r)
  \/ Remind
  \/ Reminded
  \/ CreateTask
  \/ Unpark
  \/ StaysParked
  \/ BeginsToResolve
  \/ Parks
  \/ Resolves
  \/ Acknowledges
  \/ AlreadyStarted
  \/ PrepareFails
  \/ Hand
  \/ ConfirmStop
  \/ BootEnds

Next ==
  \/ ThreadStep
  \/ Tick
  \/ \E i \in Intents :
       Create(i) \/ \E state \in {"active", "paused", "removed"} : Change(i, state)
  \/ \E k \in Keys : Ingest(k)
  \/ \E r \in Runs : WorkEnds(r) \/ StopTask(r)
  \/ CapabilityChanges
  \/ Pass
  \/ Crash
  \/ Boot

Spec == Init /\ [][Next]_vars

\* Code under way goes on, a timer of the process starts ticks, a node is
\* started again, and a backoff has an end.
Fairness ==
  /\ WF_vars(ThreadStep)
  /\ WF_vars(Tick)
  /\ WF_vars(Boot)
  /\ SF_vars(\E s \in Signals : MatchSignal(s) \/ MatchFails(s))

FairSpec == Spec /\ Fairness
-----------------------------------------------------------------------------
(* Safety.                                                                 *)

\* Every row and every piece of memory has its type; a signal is not tried more
\* often than it may be.
TypeOK ==
  /\ intent \in [Intents -> {"none", "active", "paused", "removed"}]
  /\ nextFire \in [Intents -> {0} \cup Slots]
  /\ signal \in [Signals -> {"none", "pending", "processed", "dead"}]
  /\ tries \in [Signals -> 0..(MaxAttempts - 1)]
  /\ run \in [Runs -> {"none", "pending", "started", "reminded", "failed"}]
  /\ task \in [Runs -> TaskState \cup {"none"}]
  /\ placed \subseteq Runs
  /\ told \in [Runs -> SUBSET {"line", "notice"}]
  /\ held \subseteq Runs
  /\ thread.at \in {"return", "timers", "signals", "runs", "say", "notice",
                    "reminded", "prepare", "hand", "confirm", "boot"}
  /\ thread.run \in Runs \cup {NoRun}
  /\ usable \in BOOLEAN
  /\ up \in BOOLEAN
  /\ clock \in 0..MaxTime
  /\ crashes \in 0..MaxCrashes
  /\ starts \in [Runs -> Nat]
  /\ fired \in [Intents -> Nat]
  /\ cut \subseteq Runs
  /\ missed \in [Runs -> SUBSET {"line", "notice"}]

\* One occurrence starts its work once at most, through ticks, crashes, stops
\* and capabilities that come and go; a run that is still to be started, or
\* was given up on, has not started it.
StartsOnce ==
  \A r \in Runs :
    /\ starts[r] <= 1
    /\ run[r] \in {"none", "pending", "failed"} => starts[r] = 0

\* A run that reads as started was handed over, unless its task was stopped
\* before it could be, or a crash hit it on its way from dispatch.
StartedIsHandedOver ==
  Ready =>
    \A r \in Runs :
      run[r] = "started" =>
        starts[r] = 1 \/ r \in cut \/ task[r] \in {"cancelled", "cancel_requested"}

\* A reminder that is marked as made was said and is in the inbox, but for a
\* word whose writing failed, which nobody makes up for: no crash between its
\* words, and no request changed meanwhile, takes one away.
ReminderIsMade ==
  \A r \in Runs :
    run[r] = "reminded" => told[r] \cup missed[r] = {"line", "notice"}

\* However many slots a node slept through, a timer fires once for them.
NoBurst == \A i \in Intents : fired[i] <= 1

\* Nothing happens for a request that was paused or removed, whatever was
\* matched, parked or under way for it before.
OnlyActiveActs ==
  [][\A r \in Runs :
       starts'[r] # starts[r] \/ told'[r] # told[r]
         => intent[r[1]] = "active"]_vars
-----------------------------------------------------------------------------
(* Liveness, under Fairness.                                               *)

\* A signal that was recorded is matched or set aside, also when every attempt
\* fails: none is retried for ever, and none is lost to a crash.
SignalIsSettled ==
  \A s \in Signals : signal[s] = "pending" ~> signal[s] \in {"processed", "dead"}

\* While what it needs stays usable, a run is not left pending: a task that was
\* parked, or cut by a crash, goes on by itself.
RunIsDecided ==
  <>[]usable => \A r \in Runs : run[r] = "pending" ~> run[r] # "pending"
=============================================================================
