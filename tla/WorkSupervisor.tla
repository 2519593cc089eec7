--------------------------- MODULE WorkSupervisor ---------------------------
(***************************************************************************)
(* The background lane of a node: requests a person sends to run beside the*)
(* conversation (apps/runtime/src/work-supervisor.ts), the journal of them *)
(* in the database (work-journal.ts, storage work-runs.ts), what a boot    *)
(* does with the rows an earlier process left open (work-recovery.ts), the *)
(* lines the conversation is told (routes/conversations.ts), Try again,    *)
(* the emergency stop and an orderly shutdown.                             *)
(*                                                                         *)
(* As in TaskDispatch, thread is what the current stretch of synchronous   *)
(* code still has to do.  It writes several transactions, and a crash may  *)
(* cut it anywhere between them.                                           *)
(***************************************************************************)
EXTENDS Naturals, Sequences, FiniteSets

CONSTANTS
  Works,            \* work ids a request may be given
  NoWork,           \* no work at all
  Limits,           \* settings of execution.backgroundLimit
  QueueLimit,       \* queueLimit of the supervisor
  MaxReruns,        \* MAX_RERUNS of the recovery
  MaxExits,         \* bound: crashes and shutdowns of the process
  MaxRetries,       \* bound: requests that were tried again
  ReportFailures    \* a line of a stop or of the recovery may fail

ASSUME WorksAssumption == NoWork \notin Works
ASSUME BoundsAssumption ==
  /\ Limits \subseteq Nat \ {0}
  /\ Limits # {}
  /\ QueueLimit \in Nat
  /\ MaxReruns \in Nat
  /\ MaxExits \in Nat
  /\ MaxRetries \in Nat
ASSUME FlagsAssumption == ReportFailures \in BOOLEAN

VARIABLES
  \* rows of the database, and the conversation: they survive the process
  row,        \* state of each work_runs row, "none" while there is no row
  earlier,    \* rows written under the boot id of an earlier process
  attempt,    \* how often each was re-run after a restart
  retriedAs,  \* the work a person started again from each
  limit,      \* the setting execution.backgroundLimit
  told,       \* what the conversation was told about each work, in order
  \* memory of the process
  queue,      \* requests waiting for a place
  running,    \* runs that hold a place
  aborted,    \* why the signal of each was aborted, if it was
  shutdown,   \* how far an orderly shutdown is
  listed,     \* rows the recovery has still to look at
  thread,     \* what the current stretch of code still has to do
  up,         \* the process runs
  exits,      \* number of crashes and shutdowns so far
  \* history, for the properties
  accepted,   \* works whose submission was accepted
  starts,     \* how often each was started
  cut         \* works a crash, or a failed line, hit between two writes

journal == <<row, earlier, attempt, retriedAs>>
lane    == <<queue, running, aborted>>
process == <<shutdown, listed, up, exits>>
history == <<accepted, starts, cut>>
vars == <<journal, limit, told, lane, process, thread, history>>

Open == {"queued", "running"}
Ended == {"done", "failed", "stopped", "interrupted"}
Reason == {"stopped", "deadline", "shutdown"}
\* Lines that tell how a request ended; "rerun" says that it goes on.
Outcome == {"result", "failed", "stopped", "dequeued", "lost"}
Caller == {"person", "retry", "recovery"}
-----------------------------------------------------------------------------
\* at: the next step; work: what it is about; by: who submitted it; note: the
\* work it retries, the status it ended with, or the line to write.
Step(at, work, by, note) ==
  [at |-> at, work |-> work, by |-> by, note |-> note]
Idle == Step("return", NoWork, "person", "none")

Ready == up /\ thread = Idle
At(step) == up /\ thread.at = step

\* A run may start: running.size < readLimit().
HasRoom == Cardinality(running) < limit

InQueue(w) == \E i \in 1..Len(queue) : queue[i] = w

\* journal.moved: an update of the row, if there is one.
Moved(w, state) == row' = [row EXCEPT ![w] = IF @ = "none" THEN @ ELSE state]

Tell(w, line) == told' = [told EXCEPT ![w] = Append(@, line)]

\* start: the run takes its place and its journal row says so.
StartRun(w) ==
  /\ running' = running \cup {w}
  /\ starts' = [starts EXCEPT ![w] = @ + 1]
-----------------------------------------------------------------------------
Init ==
  /\ row = [w \in Works |-> "none"]
  /\ earlier = {}
  /\ attempt = [w \in Works |-> 0]
  /\ retriedAs = [w \in Works |-> NoWork]
  /\ limit \in Limits
  /\ told = [w \in Works |-> << >>]
  /\ queue = << >>
  /\ running = {}
  /\ aborted = [w \in Works |-> "none"]
  /\ shutdown = "no"
  /\ listed = {}
  /\ thread = Idle
  /\ up = TRUE
  /\ exits = 0
  /\ accepted = {}
  /\ starts = [w \in Works |-> 0]
  /\ cut = {}
-----------------------------------------------------------------------------
(* Submission.                                                             *)

Fresh(w) == w \notin accepted /\ row[w] = "none"

\* submitBackground, refused while closing, or after a pump goes on to Admit.
EnterLane(w, by, note) ==
  thread' = IF shutdown = "draining" THEN Step("refused", w, by, note)
                                     ELSE Step("pump", w, by, note)

\* startBackgroundWork, for a person's request.
Submit(w) ==
  /\ Ready
  /\ Fresh(w)
  /\ EnterLane(w, "person", "none")
  /\ UNCHANGED <<journal, limit, told, lane, process, history>>

\* retryableBackgroundRun.
Retryable(w) == row[w] \in {"failed", "stopped", "interrupted"}

\* The bound on retries is not reached.
RetriesLeft == Cardinality({w \in Works : retriedAs[w] # NoWork}) < MaxRetries

\* retryBackgroundWork, up to the claim: v is tried again as w.
Retry(v, w) ==
  /\ Ready
  /\ Retryable(v)
  /\ retriedAs[v] = NoWork
  /\ RetriesLeft
  /\ Fresh(w)
  /\ w # v
  /\ retriedAs' = [retriedAs EXCEPT ![v] = w]
  /\ EnterLane(w, "retry", v)
  /\ UNCHANGED <<row, earlier, attempt, limit, told, lane, process, history>>

\* Mutant of PumpStarts: the last request of the queue is started.
PumpStartsNewest ==
  /\ At("pump")
  /\ shutdown # "draining"
  /\ HasRoom
  /\ queue # << >>
  /\ StartRun(queue[Len(queue)])
  /\ queue' = SubSeq(queue, 1, Len(queue) - 1)
  /\ Moved(queue[Len(queue)], "running")
  /\ UNCHANGED <<earlier, attempt, retriedAs, limit, told, aborted, process,
                 thread, accepted, cut>>

\* pump, one turn of its loop.
PumpStarts ==
  /\ At("pump")
  /\ shutdown # "draining"
  /\ HasRoom
  /\ queue # << >>
  /\ StartRun(Head(queue))
  /\ queue' = Tail(queue)
  /\ Moved(Head(queue), "running")
  /\ UNCHANGED <<earlier, attempt, retriedAs, limit, told, aborted, process,
                 thread, accepted, cut>>

\* pump has nothing to start: a submission that waits for it is admitted.
PumpRests ==
  /\ At("pump")
  /\ shutdown = "draining" \/ ~HasRoom \/ queue = << >>
  /\ thread' = IF thread.work = NoWork THEN Idle
               ELSE [thread EXCEPT !.at = "admit"]
  /\ UNCHANGED <<journal, limit, told, lane, process, history>>

\* Nothing waits and there is room: the request starts at once.
HasPlace == HasRoom /\ queue = << >>

\* Mutant of RerunAttempt: a re-run is recorded as a first attempt.
RerunAttemptForgotten(w) == 0

\* The attempt a re-run is submitted under.
RerunAttempt(w) == attempt[w] + 1

\* submitBackground, after its pump.  The row is opened, as queued, and at
\* once moved to running when there is a place.
Admit ==
  /\ At("admit")
  /\ LET w == thread.work IN
     IF ~HasPlace /\ Len(queue) >= QueueLimit
     THEN /\ thread' = [thread EXCEPT !.at = "refused"]
          /\ UNCHANGED <<journal, lane, history>>
     ELSE /\ accepted' = accepted \cup {w}
          /\ aborted' = [aborted EXCEPT ![w] = "none"]
          /\ IF HasPlace THEN StartRun(w) /\ UNCHANGED queue
                         ELSE queue' = Append(queue, w)
                              /\ UNCHANGED <<running, starts>>
          /\ row' = [row EXCEPT ![w] = IF HasPlace THEN "running" ELSE "queued"]
          /\ earlier' = earlier \ {w}
          /\ attempt' = [attempt EXCEPT ![w] =
                            IF thread.by = "recovery" THEN RerunAttempt(w) ELSE 0]
          /\ thread' = IF thread.by = "recovery"
                       THEN Step("say", w, "recovery", "rerun") ELSE Idle
          /\ UNCHANGED <<retriedAs, cut>>
  /\ UNCHANGED <<limit, told, process>>

\* Mutant of ReleaseClaim: the claim of a refused retry is kept.
ReleaseClaimNever(v) == UNCHANGED retriedAs

\* releaseWorkRunRetry.
ReleaseClaim(v) ==
  retriedAs' = [retriedAs EXCEPT ![v] = IF @ = thread.work THEN NoWork ELSE @]

\* The submission was refused: its caller takes that in.
Refused ==
  /\ At("refused")
  /\ CASE thread.by = "person"   -> UNCHANGED retriedAs /\ thread' = Idle
       [] thread.by = "retry"    -> ReleaseClaim(thread.note) /\ thread' = Idle
       [] thread.by = "recovery" ->
            /\ thread' = Step("say", thread.work, "recovery", "lost")
            /\ UNCHANGED retriedAs
  /\ UNCHANGED <<row, earlier, attempt, limit, told, lane, process, history>>

\* Mutant of RefillAfterSetting: a raised limit waits for the next request.
RefillNever == Idle

\* refill, after the setting was stored.
RefillAfterSetting == Step("pump", NoWork, "person", "none")

\* The person chooses another limit.
SetLimit(n) ==
  /\ Ready
  /\ limit # n
  /\ limit' = n
  /\ thread' = RefillAfterSetting
  /\ UNCHANGED <<journal, told, lane, process, history>>
-----------------------------------------------------------------------------
(* Runs.                                                                   *)

\* AbortController.abort: the first reason stays.
Abort(w, reason) ==
  [aborted EXCEPT ![w] = IF @ = "none" THEN reason ELSE @]

\* The deadline of a run passes.
Deadline(w) ==
  /\ Ready
  /\ w \in running
  /\ aborted[w] = "none"
  /\ aborted' = Abort(w, "deadline")
  /\ UNCHANGED <<journal, limit, told, queue, running, process, thread, history>>

\* Mutant of StatusFor: the reason is taken for the status.
StatusForVerbatim(reason) == reason

\* statusFor.
StatusFor(reason) ==
  CASE reason = "stopped"  -> "stopped"
    [] reason = "shutdown" -> "interrupted"
    [] reason = "deadline" -> "failed"

\* Mutant of EndingLine: a run the shutdown stopped is reported as failed.
EndingLineAtShutdown(status) ==
  CASE status = "done"    -> "result"
    [] status = "stopped" -> "stopped"
    [] OTHER              -> "failed"

\* What the conversation is told by a run that ends; a run the shutdown stopped
\* says nothing (backgroundEndingReply).
EndingLine(status) ==
  CASE status = "done"        -> "result"
    [] status = "stopped"     -> "stopped"
    [] status = "interrupted" -> "nothing"
    [] OTHER                  -> "failed"

\* The run resolves or rejects, and writes its line into the conversation.
RunEnds(w) ==
  /\ Ready
  /\ w \in running
  /\ \E status \in IF aborted[w] = "none" THEN {"done", "failed"}
                                          ELSE {StatusFor(aborted[w])} :
       /\ thread' = Step("settle", w, "person", status)
       /\ IF EndingLine(status) = "nothing" THEN UNCHANGED told
                                           ELSE Tell(w, EndingLine(status))
  /\ UNCHANGED <<journal, limit, lane, process, history>>

\* The rest of start's promise: the place is given back, the row is closed
\* unless the run was interrupted, and the queue is pumped.
Settle ==
  /\ At("settle")
  /\ running' = running \ {thread.work}
  /\ IF thread.note = "interrupted" THEN UNCHANGED row
     ELSE Moved(thread.work, thread.note)
  /\ thread' = Step("pump", NoWork, "person", "none")
  /\ UNCHANGED <<earlier, attempt, retriedAs, limit, told, queue, aborted,
                 process, history>>
-----------------------------------------------------------------------------
(* Stops.                                                                  *)

\* The queue without its i-th request: queue.splice(queuedAt, 1).
Without(i) == SubSeq(queue, 1, i - 1) \o SubSeq(queue, i + 1, Len(queue))

\* cancelOpen for a person: a queued request leaves the queue and its row is
\* closed; the line onDequeued writes follows.
Dequeue(i, by) ==
  /\ queue' = Without(i)
  /\ Moved(queue[i], "stopped")
  /\ thread' = Step("dequeued", queue[i], by, "none")
  /\ UNCHANGED <<running, aborted>>

\* cancel: the person stops one request, the first of the queue with its id.
Cancel(w) ==
  /\ Ready
  /\ InQueue(w) \/ w \in running
  /\ IF InQueue(w)
     THEN \E i \in 1..Len(queue) :
            /\ queue[i] = w /\ \A j \in 1..(i - 1) : queue[j] # w
            /\ Dequeue(i, "person")
     ELSE /\ aborted' = Abort(w, "stopped")
          /\ UNCHANGED <<row, queue, running, thread>>
  /\ UNCHANGED <<earlier, attempt, retriedAs, limit, told, process, history>>

\* onDequeued; a failure to write its line is caught.  The stop of everything
\* goes on with the next one.
SayDequeued ==
  /\ At("dequeued")
  /\ \/ Tell(thread.work, "dequeued") /\ UNCHANGED cut
     \/ ReportFailures /\ cut' = cut \cup {thread.work} /\ UNCHANGED told
  /\ thread' = IF thread.by = "person" THEN Idle
               ELSE Step("cancel_all", NoWork, "person", "none")
  /\ UNCHANGED <<journal, limit, lane, process, accepted, starts>>

\* performEmergencyStop, as far as the background lane goes.
EmergencyStop ==
  /\ Ready
  /\ queue # << >> \/ running # {}
  /\ thread' = Step("cancel_all", NoWork, "person", "none")
  /\ UNCHANGED <<journal, limit, told, lane, process, history>>

\* cancelBackground("stopped"): the queue first, then the runs.
CancelBackground ==
  /\ At("cancel_all")
  /\ IF queue # << >> THEN Dequeue(1, "recovery")
     ELSE /\ aborted' = [w \in Works |->
                           IF w \in running THEN Abort(w, "stopped")[w]
                                            ELSE aborted[w]]
          /\ thread' = Idle
          /\ UNCHANGED <<row, queue, running>>
  /\ UNCHANGED <<earlier, attempt, retriedAs, limit, told, process, history>>

\* cancelBackground("shutdown"): rows stay open for the next boot.
Interrupt ==
  /\ queue' = << >>
  /\ aborted' = [w \in Works |->
                   IF w \in running \/ InQueue(w) THEN Abort(w, "shutdown")[w]
                                                  ELSE aborted[w]]
  /\ UNCHANGED running

\* The shutdown's performEmergencyStop.  It awaits other stops afterwards, and
\* until the drain a new request is still admitted.
ShutdownBegins ==
  /\ Ready
  /\ shutdown = "no"
  /\ exits < MaxExits
  /\ shutdown' = "stopping"
  /\ Interrupt
  /\ UNCHANGED <<journal, limit, told, thread, listed, up, exits, history>>

\* drain: nothing is admitted any more.
Drain ==
  /\ Ready
  /\ shutdown = "stopping"
  /\ shutdown' = "draining"
  /\ Interrupt
  /\ UNCHANGED <<journal, limit, told, thread, listed, up, exits, history>>
-----------------------------------------------------------------------------
(* The end of the process and the next boot.                               *)

\* What is gone with the process.
Lost ==
  /\ up' = FALSE
  /\ exits' = exits + 1
  /\ queue' = << >>
  /\ running' = {}
  /\ aborted' = [w \in Works |-> "none"]
  /\ shutdown' = "no"
  /\ listed' = {}
  /\ thread' = Idle
  /\ earlier' = {w \in Works : row[w] # "none"}
  /\ UNCHANGED <<row, attempt, retriedAs, limit, told, accepted, starts>>

\* The drain's wait is over, or its time: the process exits between handlers.
Exit ==
  /\ Ready
  /\ shutdown = "draining"
  /\ Lost
  /\ UNCHANGED cut

\* A crash, which may come between two writes about one work.
Crash ==
  /\ up
  /\ exits < MaxExits
  /\ Lost
  /\ cut' = cut \cup
       (IF thread.at \in {"settle", "dequeued", "say"} \/ thread.by = "recovery"
        THEN {thread.work} \cap Works
        ELSE IF thread.by = "retry" THEN {thread.note} ELSE {})

\* Mutant of Unfinished: only what ran is looked for, not what was queued.
UnfinishedRunsOnly == {w \in earlier : row[w] = "running"}

\* Mutant of Unfinished: every row that is not done.
UnfinishedNotDone == {w \in earlier : row[w] \notin {"none", "done"}}

\* unfinishedWorkRuns.
Unfinished == {w \in earlier : row[w] \in Open}

\* The next process starts, and recovers before it serves anybody.
Boot ==
  /\ ~up
  /\ up' = TRUE
  /\ listed' = Unfinished
  /\ thread' = Step("recover", NoWork, "recovery", "none")
  /\ UNCHANGED <<journal, limit, told, lane, shutdown, exits, history>>

\* recoverUnfinishedWork for one row: it is closed first, then run again if
\* that is safe, or the conversation is told.  Whether the policy is autonomous
\* and the request younger than a day is a choice.
RecoverOne(w) ==
  /\ At("recover")
  /\ w \in listed
  /\ listed' = listed \ {w}
  /\ row' = [row EXCEPT ![w] = "interrupted"]
  /\ \/ attempt[w] < MaxReruns /\ EnterLane(w, "recovery", "none")
     \/ thread' = Step("say", w, "recovery", "lost")
  /\ UNCHANGED <<earlier, attempt, retriedAs, limit, told, lane, shutdown, up,
                 exits, history>>

RecoveryEnds ==
  /\ At("recover")
  /\ listed = {}
  /\ thread' = Idle
  /\ UNCHANGED <<journal, limit, told, lane, process, history>>

\* The recovery's line in the conversation; a failure to write it is caught.
Say ==
  /\ At("say")
  /\ \/ Tell(thread.work, thread.note) /\ UNCHANGED cut
     \/ ReportFailures /\ cut' = cut \cup {thread.work} /\ UNCHANGED told
  /\ thread' = Step("recover", NoWork, "recovery", "none")
  /\ UNCHANGED <<journal, limit, lane, process, accepted, starts>>
-----------------------------------------------------------------------------
ThreadStep ==
  \/ PumpStarts
  \/ PumpRests
  \/ Admit
  \/ Refused
  \/ Settle
  \/ SayDequeued
  \/ CancelBackground
  \/ \E w \in Works : RecoverOne(w)
  \/ RecoveryEnds
  \/ Say

Next ==
  \/ ThreadStep
  \/ \E w \in Works :
       \/ Submit(w)
       \/ \E v \in Works : Retry(v, w)
       \/ Deadline(w)
       \/ RunEnds(w)
       \/ Cancel(w)
  \/ \E n \in Limits : SetLimit(n)
  \/ EmergencyStop
  \/ ShutdownBegins
  \/ Drain
  \/ Exit
  \/ Crash
  \/ Boot

Spec == Init /\ [][Next]_vars

\* Code under way goes on, a node is started again, a shutdown that began
\* goes through, the deadline of a run passes and an aborted run ends.  Persons
\* are obliged to nothing.
Fairness ==
  /\ WF_vars(ThreadStep)
  /\ WF_vars(Boot)
  /\ SF_vars(Drain)
  /\ SF_vars(Exit)
  /\ \A w \in Works : SF_vars(Deadline(w)) /\ SF_vars(RunEnds(w))

FairSpec == Spec /\ Fairness
-----------------------------------------------------------------------------
(* Safety.                                                                 *)

Outcomes(w) == {i \in 1..Len(told[w]) : told[w][i] \in Outcome}
InLane(w) == w \in running \/ InQueue(w)

\* Every row and every piece of memory has its type.
TypeOK ==
  /\ row \in [Works -> Open \cup Ended \cup {"none"}]
  /\ earlier \subseteq Works
  /\ attempt \in [Works -> Nat]
  /\ retriedAs \in [Works -> Works \cup {NoWork}]
  /\ limit \in Limits
  /\ told \in [Works -> Seq(Outcome \cup {"rerun"})]
  /\ queue \in Seq(Works)
  /\ running \subseteq Works
  /\ aborted \in [Works -> Reason \cup {"none"}]
  /\ shutdown \in {"no", "stopping", "draining"}
  /\ listed \subseteq Works
  /\ thread.at \in {"return", "pump", "admit", "refused", "settle", "dequeued",
                    "cancel_all", "recover", "say"}
  /\ thread.work \in Works \cup {NoWork}
  /\ thread.by \in Caller
  /\ up \in BOOLEAN
  /\ exits \in Nat
  /\ accepted \subseteq Works
  /\ starts \in [Works -> Nat]
  /\ cut \subseteq Works

\* A request has one place in the lane, the queue is within its limit, and no
\* request waits while there is room: every way a run ends, a stop and a raised
\* limit start the next one.
LaneIsSound ==
  /\ \A i, j \in 1..Len(queue) : queue[i] = queue[j] => i = j
  /\ \A i \in 1..Len(queue) : queue[i] \notin running
  /\ Len(queue) <= QueueLimit
  /\ Ready /\ queue # << >> => ~(Cardinality(running) < limit)

\* A run starts only within the limit of the moment, and requests start in the
\* order they were accepted in (a lowered limit stops nothing that runs).
StartsAreOrderly ==
  [][/\ ~(running' \subseteq running) => Cardinality(running') <= limit
     /\ queue # << >> /\ up' => running' \ running \subseteq {queue[1]}]_vars

\* The conversation is told once how a request ended: not by its run and again
\* by the boot, not by a stop and again by the run it stopped.
ToldOnce == \A w \in Works \ cut : Cardinality(Outcomes(w)) <= 1

\* No accepted request is lost without a word: what is not in the lane has been
\* told how it ended or, while the node shuts down, is an open row the next
\* boot will find.
NothingIsLost ==
  Ready =>
    \A w \in accepted \ cut :
      \/ InLane(w)
      \/ Outcomes(w) # {}
      \/ shutdown # "no" /\ row[w] \in Open

\* Whatever fails or is cut, a restart never runs a request again more often
\* than MAX_RERUNS.
RerunIsBounded == \A w \in Works : starts[w] <= 1 + MaxReruns

\* What a person stopped, and was told so, does not run again by itself.
StopStands ==
  \A w \in Works \ cut :
    (\E i \in Outcomes(w) : told[w][i] \in {"stopped", "dequeued"})
      => ~InQueue(w) /\ (w \in running => thread.at = "settle")

\* A request that was tried again is over, and its new run was accepted: a
\* claim never keeps a person from trying again what was in fact refused.
RetryIsBacked ==
  Ready =>
    \A v \in Works \ cut :
      retriedAs[v] # NoWork => ~InLane(v) /\ retriedAs[v] \in accepted

\* work-recovery.ts:114: a row whose recovery failed is left open, and the next
\* boot tries again, so no request is unreported and closed.
UnreportedStaysOpen ==
  Ready =>
    \A w \in accepted :
      InLane(w) \/ Outcomes(w) # {} \/ row[w] \in Open
-----------------------------------------------------------------------------
(* Liveness, under Fairness.                                               *)

\* Every accepted request is answered, through deadlines, stops, shutdowns and
\* restarts.
EveryRequestIsAnswered ==
  \A w \in Works : (w \in accepted) ~> (Outcomes(w) # {} \/ w \in cut)
=============================================================================
