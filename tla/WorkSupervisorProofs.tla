------------------------ MODULE WorkSupervisorProofs ------------------------
(* Theorems about WorkSupervisor, for every value of its constants.        *)
EXTENDS WorkSupervisor, QueueLemmas, FiniteSetTheorems

Place == {"return", "pump", "admit", "refused", "settle", "dequeued",
          "cancel_all", "recover", "say"}

\* The steps of a stretch that is about no request, and those of a submission.
AboutNone == {"return", "cancel_all", "recover"}
Submission == {"pump", "admit", "refused"}

\* The lines of a conversation that tell how a request ended.
OutcomesOf(lines) == {i \in 1..Len(lines) : lines[i] \in Outcome}
Answered(w) == OutcomesOf(told[w]) # {}

\* What a step of the thread may rely on.
StretchInv ==
  /\ thread \in [at : Place, work : Works \cup {NoWork}, by : Caller,
                 note : Works \cup Ended \cup {"none", "lost", "rerun"}]
  /\ thread.at \in AboutNone => thread.work = NoWork
  /\ thread.at \in Place \ (AboutNone \cup {"pump"}) => thread.work \in Works
  /\ thread.by = "retry" => thread.at \in Submission /\ thread.note \in Works
  /\ thread.work = NoWork /\ thread.at # "recover" => thread.by = "person"
  /\ thread.at = "settle" => thread.note \in Ended /\ thread.by = "person"
  /\ thread.at \in {"recover", "say"} => thread.by = "recovery"
  /\ thread.at = "say" => thread.note \in {"lost", "rerun"}
  /\ thread.at = "return" => thread = Idle
  /\ ~ up => thread = Idle /\ queue = << >> /\ running = {}
  /\ IsFiniteSet(running)

\* A request whose submission is under way.
Pending(w) == thread.work = w /\ thread.at \in Submission

\* The request the thread is about at one step.
AtFor(step, w) == thread.at = step /\ thread.work = w

\* A recovery is under way.
Recovering == thread.by = "recovery" /\ thread.at # "dequeued"

\* Whether a request has a place in the lane or waits for one.
Placed(w) == w \in running \/ Has(queue, w)

\* What the rows say of the lane, and when its places are all taken.
LaneRows ==
  /\ \A w \in Works : row[w] = "none" <=> w \notin accepted
  /\ Distinct(queue)
  /\ \A w \in Works : Has(queue, w) => w \notin running /\ row[w] = "queued"
  /\ \A w \in running : row[w] = "running"
  /\ Len(queue) <= QueueLimit
  /\ thread.at # "pump" /\ queue # << >> => ~ HasRoom

\* What a recovery has still to look at.
LaneListed ==
  /\ \A w \in listed : row[w] \in Open /\ ~ Placed(w)
  /\ listed # {} => Recovering
  /\ ~ up => earlier = {w \in Works : row[w] # "none"}

\* A node that drains admits nothing.
LaneDrains ==
  shutdown = "draining" =>
    queue = << >> /\ (thread.work # NoWork => thread.at \notin {"pump", "admit"})

\* What the thread knows of the request it is about.
LanePending ==
  \A w \in Works : Pending(w) =>
    /\ ~ Placed(w)
    /\ thread.by = "recovery" => row[w] = "interrupted"
    /\ thread.by # "recovery" => row[w] = "none"

LaneThread ==
  \A w \in Works :
    /\ AtFor("settle", w) => w \in running
    /\ AtFor("dequeued", w) => row[w] = "stopped"
    /\ AtFor("say", w) /\ thread.note = "lost" => row[w] = "interrupted"
    /\ AtFor("say", w) /\ thread.note = "rerun" => Placed(w)

LaneInv ==
  /\ LaneRows
  /\ LaneListed
  /\ LaneDrains
  /\ LanePending
  /\ LaneThread

\* A request of which it was told how it ended is over.
TellInv ==
  /\ \A w \in Works \ accepted : told[w] = << >>
  /\ \A w \in Works \ cut :
       /\ ~ Answered(w) \/ \E i \in Nat : OutcomesOf(told[w]) = {i}
       /\ Answered(w) =>
            /\ row[w] \in Ended \/ (AtFor("settle", w) /\ thread.note # "interrupted")
            /\ ~ Pending(w) /\ ~ AtFor("dequeued", w)
            /\ ~ AtFor("say", w)

\* A request that is not over is somewhere.
KeptInv ==
  /\ shutdown = "no" => \A w \in Works : aborted[w] # "shutdown"
  /\ \A w \in Works : AtFor("settle", w) =>
       IF thread.note = "interrupted" THEN shutdown # "no" ELSE Answered(w)
  /\ \A w \in accepted \ cut :
       \/ Placed(w)
       \/ Answered(w)
       \/ row[w] \in Open /\ (shutdown # "no" \/ ~ up \/ w \in listed)
       \/ Pending(w)
       \/ AtFor("dequeued", w)
       \/ AtFor("say", w)

\* A claimed retry is of a request that is over, and was or is being submitted.
ClaimInv ==
  /\ \A v \in Works : retriedAs[v] # NoWork => Retryable(v) /\ ~ Pending(v)
  /\ thread.by = "retry" => retriedAs[thread.note] = thread.work
  /\ \A v \in Works \ cut : retriedAs[v] # NoWork =>
       \/ retriedAs[v] \in accepted
       \/ thread.by = "retry" /\ thread.note = v

\* A request starts once for its submission and once for each re-run.
RerunInv ==
  \A w \in Works :
    /\ starts[w] <= attempt[w] + 1
    /\ attempt[w] <= MaxReruns
    /\ Has(queue, w) => starts[w] <= attempt[w]
    /\ Pending(w) /\ thread.by = "recovery" => attempt[w] < MaxReruns
    /\ w \notin accepted => starts[w] = 0 /\ attempt[w] = 0

WorkInv ==
  /\ TypeOK
  /\ StretchInv
  /\ LaneInv
  /\ TellInv
  /\ KeptInv
  /\ ClaimInv
  /\ RerunInv
-----------------------------------------------------------------------------
(* Lines and the queue.                                                    *)

Line == Outcome \cup {"rerun"}

\* A line that tells how a request ended is one more such line.
LEMMA OutcomeIsTold ==
  ASSUME NEW lines \in Seq(Line), NEW line \in Outcome
  PROVE  /\ OutcomesOf(Append(lines, line)) = OutcomesOf(lines) \cup {Len(lines) + 1}
         /\ Len(lines) + 1 \in Nat
<1>1. /\ Len(lines) \in Nat
      /\ Len(Append(lines, line)) = Len(lines) + 1
      /\ \A i \in 1..Len(lines) : Append(lines, line)[i] = lines[i]
      /\ Append(lines, line)[Len(lines) + 1] = line
  BY AppendProperties DEF Line
<1>2. \A i \in 1..(Len(lines) + 1) : i \in 1..Len(lines) \/ i = Len(lines) + 1
  BY <1>1
<1> QED
  BY <1>1, <1>2 DEF OutcomesOf

\* The line that announces a re-run tells of no end.
LEMMA RerunTellsNoEnd ==
  ASSUME NEW lines \in Seq(Line)
  PROVE  OutcomesOf(Append(lines, "rerun")) = OutcomesOf(lines)
<1>1. /\ Len(lines) \in Nat
      /\ Len(Append(lines, "rerun")) = Len(lines) + 1
      /\ \A i \in 1..Len(lines) : Append(lines, "rerun")[i] = lines[i]
      /\ Append(lines, "rerun")[Len(lines) + 1] = "rerun"
  BY AppendProperties DEF Line
<1>2. \A i \in 1..(Len(lines) + 1) : i \in 1..Len(lines) \/ i = Len(lines) + 1
  BY <1>1
<1>3. "rerun" \notin Outcome
  BY DEF Outcome
<1> QED
  BY <1>1, <1>2, <1>3 DEF OutcomesOf

LEMMA NoLines == OutcomesOf(<< >>) = {}
BY DEF OutcomesOf

LEMMA InQueueIsHas == \A w : InQueue(w) <=> Has(queue, w)
BY DEF InQueue, Has

\* What the run at the front of the queue leaves behind.
LEMMA FrontStarts ==
  ASSUME TypeOK, PumpStarts
  PROVE  /\ Head(queue) \in Works /\ Has(queue, Head(queue))
         /\ queue' \in Seq(Works) /\ Len(queue') = Len(queue) - 1
         /\ \A w : Has(queue', w) => Has(queue, w)
         /\ \A w : Has(queue, w) => w = Head(queue) \/ Has(queue', w)
         /\ Distinct(queue) => Distinct(queue') /\ ~ Has(queue', Head(queue))
         /\ Len(queue) \in Nat
<1>1. queue \in Seq(Works) /\ queue # << >> /\ queue' = Tail(queue)
  BY DEF TypeOK, PumpStarts
<1> QED
  BY <1>1, QueueFront, QueueMoves

\* A request that is taken out of the queue leaves the others.
LEMMA OneLeaves ==
  ASSUME TypeOK, NEW i \in 1..Len(queue), NEW by, Dequeue(i, by)
  PROVE  /\ queue[i] \in Works /\ Has(queue, queue[i])
         /\ queue # << >>
         /\ queue' \in Seq(Works) /\ Len(queue') = Len(queue) - 1
         /\ \A w : Has(queue', w) => Has(queue, w)
         /\ \A w : Has(queue, w) => w = queue[i] \/ Has(queue', w)
         /\ Distinct(queue) => Distinct(queue') /\ ~ Has(queue', queue[i])
         /\ Len(queue) \in Nat
<1>1. queue \in Seq(Works) /\ queue' = Removed(queue, i)
  BY DEF TypeOK, Dequeue, Without, Removed
<1>2. Has(queue, queue[i]) /\ queue # << >>
  BY <1>1 DEF Has
<1> QED
  BY <1>1, <1>2, QueueLoses, QueueFront
-----------------------------------------------------------------------------
(* Types, and the thread.                                                  *)

\* The three ends of Admit: refused, started at once, or left to wait.
AdmitRefuses ==
  /\ thread' = [thread EXCEPT !.at = "refused"]
  /\ UNCHANGED <<journal, lane, history>>

AdmitTakes(w) ==
  /\ accepted' = accepted \cup {w}
  /\ aborted' = [aborted EXCEPT ![w] = "none"]
  /\ earlier' = earlier \ {w}
  /\ attempt' = [attempt EXCEPT ![w] =
                   IF thread.by = "recovery" THEN attempt[w] + 1 ELSE 0]
  /\ thread' = IF thread.by = "recovery" THEN Step("say", w, "recovery", "rerun")
                                         ELSE Idle
  /\ UNCHANGED <<retriedAs, cut>>

AdmitStarts(w) ==
  /\ AdmitTakes(w)
  /\ HasRoom
  /\ queue = << >>
  /\ queue' = queue
  /\ StartRun(w)
  /\ row' = [row EXCEPT ![w] = "running"]

AdmitWaits(w) ==
  /\ AdmitTakes(w)
  /\ ~ HasPlace
  /\ Len(queue) < QueueLimit
  /\ queue' = Append(queue, w)
  /\ UNCHANGED <<running, starts>>
  /\ row' = [row EXCEPT ![w] = "queued"]

LEMMA AdmitCases ==
  ASSUME TypeOK, StretchInv, Admit
  PROVE  /\ thread.work \in Works
         /\ thread.at = "admit"
         /\ UNCHANGED <<limit, told, process>>
         /\ AdmitRefuses \/ AdmitStarts(thread.work) \/ AdmitWaits(thread.work)
<1>1. thread.work \in Works /\ thread.at = "admit"
  BY DEF Admit, At, StretchInv, Place, AboutNone
<1>2. Len(queue) \in Nat /\ QueueLimit \in Nat
  BY BoundsAssumption DEF TypeOK
<1>3. CASE ~ HasPlace /\ Len(queue) >= QueueLimit
  BY <1>1, <1>3 DEF Admit, AdmitRefuses
<1>4. CASE ~ HasPlace /\ ~ (Len(queue) >= QueueLimit)
  BY <1>1, <1>2, <1>4 DEF Admit, RerunAttempt, AdmitTakes, AdmitWaits
<1>5. CASE HasPlace
  BY <1>1, <1>5 DEF Admit, RerunAttempt, HasPlace, AdmitTakes, AdmitStarts
<1> QED
  BY <1>1, <1>3, <1>4, <1>5 DEF Admit

\* An update of one row, one more start, one more line.
LEMMA RowMoves ==
  ASSUME TypeOK, NEW w, NEW s \in Open \cup Ended, Moved(w, s)
  PROVE  row' \in [Works -> Open \cup Ended \cup {"none"}]
BY DEF TypeOK, Moved

LEMMA RowIs ==
  ASSUME TypeOK, NEW w \in Works, NEW s, row' = [row EXCEPT ![w] = s]
  PROVE  row'[w] = s /\ \A v \in Works : v # w => row'[v] = row[v]
BY DEF TypeOK

LEMMA RunStarts ==
  ASSUME TypeOK, StretchInv, NEW w \in Works, StartRun(w)
  PROVE  /\ starts' \in [Works -> Nat]
         /\ running' \subseteq Works
         /\ IsFiniteSet(running')
         /\ Cardinality(running') <= Cardinality(running) + 1
         /\ Cardinality(running) \in Nat
<1>1. /\ starts' \in [Works -> Nat] /\ running' \subseteq Works
      /\ IsFiniteSet(running) /\ running' = running \cup {w}
  <2>1. /\ starts \in [Works -> Nat] /\ running \subseteq Works
        /\ IsFiniteSet(running)
    BY DEF TypeOK, StretchInv
  <2>2. /\ running' = running \cup {w}
        /\ starts' = [starts EXCEPT ![w] = starts[w] + 1]
    BY DEF StartRun
  <2>3. starts[w] + 1 \in Nat
    BY <2>1
  <2> QED
    BY ONLY <2>1, <2>2, <2>3
<1>2. Cardinality(running) \in Nat
  BY <1>1, FS_CardinalityType
<1>3. /\ IsFiniteSet(running')
      /\ \/ Cardinality(running') = Cardinality(running)
         \/ Cardinality(running') = Cardinality(running) + 1
  BY <1>1, FS_AddElement
<1> QED
  BY <1>1, <1>2, <1>3

LEMMA LineIsWritten ==
  ASSUME TypeOK, NEW w \in Works, NEW line \in Outcome \cup {"rerun"}, Tell(w, line)
  PROVE  /\ told' \in [Works -> Seq(Outcome \cup {"rerun"})]
         /\ told'[w] = Append(told[w], line)
         /\ \A v \in Works : v # w => told'[v] = told[v]
<1>1. told[w] \in Seq(Outcome \cup {"rerun"})
  BY DEF TypeOK
<1>2. Append(told[w], line) \in Seq(Outcome \cup {"rerun"})
  BY ONLY <1>1, line \in Outcome \cup {"rerun"}, AppendProperties
<1> QED
  BY <1>2 DEF TypeOK, Tell

LEMMA RefusedCases ==
  ASSUME StretchInv, Refused
  PROVE  \/ thread.by = "person" /\ UNCHANGED retriedAs /\ thread' = Idle
         \/ thread.by = "retry" /\ ReleaseClaim(thread.note) /\ thread' = Idle
         \/ /\ thread.by = "recovery" /\ UNCHANGED retriedAs
            /\ thread' = Step("say", thread.work, "recovery", "lost")
<1>1. thread.by \in {"person", "retry", "recovery"}
  BY DEF StretchInv, Caller
<1>2. CASE thread.by = "person"
  BY <1>2 DEF Refused
<1>3. CASE thread.by = "retry"
  BY <1>3 DEF Refused
<1>4. CASE thread.by = "recovery"
  BY <1>4 DEF Refused
<1> QED
  BY <1>1, <1>2, <1>3, <1>4

LEMMA TypesStart ==
  Init => TypeOK /\ StretchInv
<1> SUFFICES ASSUME Init PROVE TypeOK /\ StretchInv
  OBVIOUS
<1>1. TypeOK
  BY BoundsAssumption DEF Init, TypeOK, Idle, Step, Caller
<1>2. StretchInv
  BY FS_EmptySet DEF Init, StretchInv, Idle, Step, Caller, Place, AboutNone, Submission
<1> QED
  BY <1>1, <1>2

LEMMA TypesKept ==
  ASSUME TypeOK, StretchInv, [Next]_vars
  PROVE  TypeOK' /\ StretchInv'
<1> USE WorksAssumption, BoundsAssumption
<1> USE DEF TypeOK, StretchInv, Place, AboutNone, Submission, Step, Idle, At, Ready,
            Caller, journal, lane, process, history
<1>1. CASE PumpStarts
  <2>1. queue' \in Seq(Works) /\ Head(queue) \in Works
    BY <1>1, FrontStarts
  <2>2. /\ row' \in [Works -> Open \cup Ended \cup {"none"}]
        /\ starts' \in [Works -> Nat]
        /\ running' \subseteq Works /\ IsFiniteSet(running')
    BY <1>1, <2>1, RowMoves, RunStarts DEF PumpStarts, Open
  <2>3. TypeOK'
    BY <1>1, <2>1, <2>2 DEF PumpStarts
  <2>4. StretchInv'
    BY <1>1, <2>2 DEF PumpStarts
  <2> QED
    BY <2>3, <2>4
<1>2. CASE PumpRests
  BY <1>2 DEF PumpRests
<1>3. CASE Admit
  <2> DEFINE w == thread.work
  <2>1. /\ w \in Works /\ UNCHANGED <<limit, told, process>>
        /\ AdmitRefuses \/ AdmitStarts(w) \/ AdmitWaits(w)
    BY <1>3, AdmitCases
  <2>2. CASE AdmitRefuses
    <3>2. /\ thread' = Step("refused", w, thread.by, thread.note)
          /\ thread.at = "admit" /\ up /\ up'
      BY <1>3, <2>2, AdmitCases DEF AdmitRefuses, Admit
    <3>3. IsFiniteSet(running')
      BY <2>2 DEF AdmitRefuses
    <3>4. w # NoWork /\ (thread.by = "retry" => thread.note \in Works)
      BY <2>1
    <3>5. thread.by \in Caller /\ thread.note \in Works \cup Ended \cup {"none", "lost", "rerun"}
      OBVIOUS
    <3>1. StretchInv'
      BY ONLY <2>1, <3>2, <3>3, <3>4, <3>5
    <3> QED
      BY <2>1, <2>2, <3>1 DEF AdmitRefuses
  <2>3. ASSUME AdmitTakes(w)
        PROVE  /\ accepted' \subseteq Works /\ cut' \subseteq Works
               /\ aborted' \in [Works -> Reason \cup {"none"}]
               /\ earlier' \subseteq Works
               /\ attempt' \in [Works -> Nat]
               /\ retriedAs' \in [Works -> Works \cup {NoWork}]
    <3>1. /\ accepted' = accepted \cup {w} /\ cut' = cut
          /\ aborted' = [aborted EXCEPT ![w] = "none"]
          /\ earlier' = earlier \ {w} /\ retriedAs' = retriedAs
      BY <2>3 DEF AdmitTakes
    <3>2. attempt' \in [Works -> Nat]
      <4>1. attempt \in [Works -> Nat] /\ attempt[w] + 1 \in Nat
        BY <2>1
      <4>2. attempt' = [attempt EXCEPT ![w] =
                          IF thread.by = "recovery" THEN attempt[w] + 1 ELSE 0]
        BY <2>3 DEF AdmitTakes
      <4> QED
        BY ONLY <4>1, <4>2
    <3> QED
      BY <2>1, <3>1, <3>2
  <2>4. CASE AdmitStarts(w)
    <3>1. /\ starts' \in [Works -> Nat] /\ running' \subseteq Works
          /\ IsFiniteSet(running') /\ queue' \in Seq(Works)
          /\ row' \in [Works -> Open \cup Ended \cup {"none"}]
      BY <2>1, <2>4, RunStarts DEF AdmitStarts, Open
    <3>2. AdmitTakes(w)
      BY <2>4 DEF AdmitStarts
    <3>3. StretchInv'
      BY <2>1, <3>1, <3>2 DEF AdmitTakes
    <3>4. TypeOK'
      BY <2>1, <2>3, <3>1, <3>2, <3>3 DEF AdmitTakes
    <3> QED
      BY <3>3, <3>4
  <2>5. CASE AdmitWaits(w)
    <3>1. /\ starts' \in [Works -> Nat] /\ running' \subseteq Works
          /\ IsFiniteSet(running') /\ queue' \in Seq(Works)
          /\ row' \in [Works -> Open \cup Ended \cup {"none"}]
      BY <2>1, <2>5, AppendProperties DEF AdmitWaits, Open
    <3>2. AdmitTakes(w)
      BY <2>5 DEF AdmitWaits
    <3>3. StretchInv'
      BY <2>1, <3>1, <3>2 DEF AdmitTakes
    <3>4. TypeOK'
      BY <2>1, <2>3, <3>1, <3>2, <3>3 DEF AdmitTakes
    <3> QED
      BY <3>3, <3>4
  <2> QED
    BY <2>1, <2>2, <2>4, <2>5
<1>4. CASE Refused
  <2>1. \/ thread.by = "person" /\ UNCHANGED retriedAs /\ thread' = Idle
        \/ thread.by = "retry" /\ ReleaseClaim(thread.note) /\ thread' = Idle
        \/ /\ thread.by = "recovery" /\ UNCHANGED retriedAs
           /\ thread' = Step("say", thread.work, "recovery", "lost")
    BY <1>4, RefusedCases
  <2>4. retriedAs' \in [Works -> Works \cup {NoWork}]
    <3>1. retriedAs \in [Works -> Works \cup {NoWork}]
      OBVIOUS
    <3>2. \A v \in Works :
            retriedAs' = [retriedAs EXCEPT ![v] =
                            IF @ = thread.work THEN NoWork ELSE @]
              => retriedAs' \in [Works -> Works \cup {NoWork}]
      BY ONLY <3>1
    <3> QED
      BY <2>1, <3>1, <3>2 DEF ReleaseClaim
  <2>2. StretchInv'
    BY <1>4, <2>1 DEF Refused
  <2>3. TypeOK'
    BY <1>4, <2>2, <2>4 DEF Refused
  <2> QED
    BY <2>2, <2>3
<1>5. CASE Settle
  <2>1. IsFiniteSet(running')
    BY <1>5, FS_RemoveElement DEF Settle
  <2>2. row' \in [Works -> Open \cup Ended \cup {"none"}]
    BY <1>5, RowMoves DEF Settle
  <2> QED
    BY <1>5, <2>1, <2>2 DEF Settle
<1>6. CASE SayDequeued
  <2>1. thread.work \in Works /\ told' \in [Works -> Seq(Outcome \cup {"rerun"})]
    BY <1>6, LineIsWritten DEF SayDequeued, Outcome
  <2> QED
    BY <1>6, <2>1 DEF SayDequeued
<1>7. CASE CancelBackground
  <2>1. CASE queue # << >>
    <3>1. Dequeue(1, "recovery") /\ 1 \in 1..Len(queue)
      BY <1>7, <2>1, QueueFront DEF CancelBackground
    <3>2. queue[1] \in Works /\ queue' \in Seq(Works)
      BY <3>1, OneLeaves
    <3> QED
      BY <1>7, <3>1, <3>2 DEF CancelBackground, Dequeue, Moved, Ended
  <2>2. CASE queue = << >>
    BY <1>7, <2>2 DEF CancelBackground, Abort, Reason
  <2> QED
    BY <2>1, <2>2
<1>8. ASSUME NEW w \in Works, RecoverOne(w) PROVE TypeOK' /\ StretchInv'
  BY <1>8 DEF RecoverOne, EnterLane, Ended
<1>9. CASE RecoveryEnds
  BY <1>9 DEF RecoveryEnds
<1>10. CASE Say
  <2>1. thread.work \in Works
    BY <1>10 DEF Say
  <2>2. told' \in [Works -> Seq(Outcome \cup {"rerun"})]
    <3>1. CASE Tell(thread.work, thread.note)
      BY <1>10, <2>1, <3>1, LineIsWritten DEF Say, Outcome
    <3> QED
      BY <1>10, <3>1 DEF Say
  <2> QED
    BY <1>10, <2>1, <2>2 DEF Say
<1>11. ASSUME NEW w \in Works, Submit(w) PROVE TypeOK' /\ StretchInv'
  BY <1>11 DEF Submit, EnterLane
<1>12. ASSUME NEW w \in Works, NEW v \in Works, Retry(v, w) PROVE TypeOK' /\ StretchInv'
  BY <1>12 DEF Retry, EnterLane
<1>13. ASSUME NEW w \in Works, Deadline(w) PROVE TypeOK' /\ StretchInv'
  BY <1>13 DEF Deadline, Abort, Reason
<1>14. ASSUME NEW w \in Works, RunEnds(w) PROVE TypeOK' /\ StretchInv'
  <2>1. PICK status \in Ended :
          /\ thread' = Step("settle", w, "person", status)
          /\ IF EndingLine(status) = "nothing" THEN UNCHANGED told
             ELSE Tell(w, EndingLine(status))
    BY <1>14, SMTT(30) DEF RunEnds, StatusFor, Reason, Ended
  <2>2. EndingLine(status) \in Outcome \cup {"nothing"}
    BY DEF EndingLine, Outcome
  <2>3. told' \in [Works -> Seq(Outcome \cup {"rerun"})]
    BY <2>1, <2>2, LineIsWritten
  <2> QED
    BY <1>14, <2>1, <2>3 DEF RunEnds
<1>15. ASSUME NEW w \in Works, Cancel(w) PROVE TypeOK' /\ StretchInv'
  <2>1. CASE InQueue(w)
    <3>1. PICK i \in 1..Len(queue) : Dequeue(i, "person")
      BY <1>15, <2>1 DEF Cancel
    <3>2. queue[i] \in Works /\ queue' \in Seq(Works)
      BY <3>1, OneLeaves
    <3> QED
      BY <1>15, <3>1, <3>2 DEF Cancel, Dequeue, Moved, Ended
  <2>2. CASE ~ InQueue(w)
    BY <1>15, <2>2 DEF Cancel, Abort, Reason
  <2> QED
    BY <2>1, <2>2
<1>16. ASSUME NEW n \in Limits, SetLimit(n) PROVE TypeOK' /\ StretchInv'
  BY <1>16 DEF SetLimit, RefillAfterSetting
<1>17. CASE EmergencyStop
  BY <1>17 DEF EmergencyStop
<1>18. CASE ShutdownBegins \/ Drain
  <2>1. aborted' \in [Works -> Reason \cup {"none"}] /\ queue' = << >>
    BY <1>18 DEF ShutdownBegins, Drain, Interrupt, Abort, Reason
  <2> QED
    BY <1>18, <2>1 DEF ShutdownBegins, Drain, Interrupt
<1>19. CASE Exit \/ Crash
  <2>1. Lost /\ cut' \subseteq Works
    BY <1>19 DEF Exit, Crash
  <2>2. queue' \in Seq(Works) /\ IsFiniteSet(running')
    BY <2>1, FS_EmptySet DEF Lost
  <2>3. StretchInv'
    BY <2>1, <2>2 DEF Lost
  <2>4. aborted' \in [Works -> Reason \cup {"none"}] /\ exits' \in Nat
    BY <2>1 DEF Lost
  <2>5. earlier' \subseteq Works /\ listed' \subseteq Works /\ running' \subseteq Works
    BY <2>1 DEF Lost
  <2>6. TypeOK'
    BY <2>1, <2>2, <2>3, <2>4, <2>5 DEF Lost
  <2> QED
    BY <2>3, <2>6
<1>20. CASE Boot
  BY <1>20 DEF Boot, Unfinished
<1>21. CASE UNCHANGED vars
  BY <1>21 DEF vars
<1> QED
  BY <1>1, <1>2, <1>3, <1>4, <1>5, <1>6, <1>7, <1>8, <1>9, <1>10, <1>11, <1>12,
     <1>13, <1>14, <1>15, <1>16, <1>17, <1>18, <1>19, <1>20, <1>21
     DEF Next, ThreadStep
-----------------------------------------------------------------------------
(* The lane.                                                               *)

LEMMA LaneStart ==
  Init => LaneInv
BY EmptyQueue, BoundsAssumption DEF Init, LaneInv, LaneRows, LaneListed,
   LaneDrains, LanePending, LaneThread, Recovering, Pending, AtFor,
   Placed, Idle, Step, Submission

LEMMA LaneKept ==
  ASSUME TypeOK, StretchInv, LaneInv, TypeOK', StretchInv', [Next]_vars
  PROVE  LaneInv'
<1> USE WorksAssumption, BoundsAssumption
<1> USE DEF LaneInv, LaneRows, LaneListed, LaneDrains, LanePending, LaneThread, Place, AboutNone, Submission, Step, Idle, At, Ready,
            Caller, journal, lane, process, history, Pending, AtFor, Placed,
            Recovering, HasRoom
<1>1. CASE PumpStarts
  <2> DEFINE h == Head(queue)
  <2>1. /\ h \in Works /\ Has(queue, h) /\ Len(queue') <= QueueLimit
        /\ \A w : Has(queue', w) => Has(queue, w)
        /\ \A w : Has(queue, w) => w = h \/ Has(queue', w)
        /\ Distinct(queue') /\ ~ Has(queue', h)
    BY <1>1, FrontStarts
  <2>2. /\ thread.at = "pump" /\ shutdown # "draining" /\ row[h] = "queued"
        /\ row' = [row EXCEPT ![h] = "running"]
        /\ running' = running \cup {h}
        /\ UNCHANGED <<earlier, shutdown, listed, thread, up, accepted, limit>>
    BY <1>1, <2>1 DEF PumpStarts, StartRun, Moved
  <2>3. row'[h] = "running" /\ \A w \in Works : w # h => row'[w] = row[w]
    BY <2>1, <2>2, RowIs
  <2>4. running \subseteq Works /\ listed \subseteq Works
    BY DEF TypeOK
  <2> HIDE DEF h
  <2>10. LaneRows'
    BY <2>1, <2>2, <2>3, <2>4
  <2>11. LaneListed'
    BY <1>1, <2>1, <2>2, <2>3, <2>4 DEF PumpStarts
  <2>12. LaneDrains'
    BY <2>1, <2>2, <2>3, <2>4
  <2>13. LanePending'
    BY <2>1, <2>2, <2>3, <2>4
  <2>14. LaneThread'
    BY <2>1, <2>2, <2>3, <2>4, SMTT(30)
  <2> QED
    BY <2>10, <2>11, <2>12, <2>13, <2>14
<1>2. CASE PumpRests
  BY <1>2 DEF PumpRests, TypeOK, StretchInv
<1>3. CASE Admit
  <2> DEFINE w == thread.work
  <2>1. /\ w \in Works /\ thread.at = "admit" /\ UNCHANGED <<limit, told, process>>
        /\ AdmitRefuses \/ AdmitStarts(w) \/ AdmitWaits(w)
        /\ up /\ queue \in Seq(Works)
    BY <1>3, AdmitCases DEF Admit, TypeOK
  <2>2. CASE AdmitRefuses
    BY <2>1, <2>2 DEF AdmitRefuses, StretchInv
  <2>3. running \subseteq Works /\ listed \subseteq Works
    BY DEF TypeOK
  <2>4. ~ Placed(w) /\ w \notin listed /\ shutdown # "draining"
    BY <2>1 DEF Open
  <2> HIDE DEF w
  <2>5. CASE AdmitStarts(w)
    <3>1. row'[w] = "running" /\ \A v \in Works : v # w => row'[v] = row[v]
      BY <2>1, <2>5, RowIs DEF AdmitStarts
    <3>2. /\ queue' = queue /\ queue = << >> /\ running' = running \cup {w}
          /\ accepted' = accepted \cup {w}
          /\ thread' = IF thread.by = "recovery" THEN Step("say", w, "recovery", "rerun")
                                                 ELSE Idle
      BY <2>5 DEF AdmitStarts, AdmitTakes, StartRun
    <3>3. listed' = listed /\ up' = up /\ shutdown' = shutdown
      BY <2>1
    <3>4. w # NoWork
      BY <2>1
    <3>10. LaneRows'
      BY <2>1, <2>3, <2>4, <3>1, <3>2, <3>3, <3>4
    <3>11. LaneListed'
      BY <2>1, <2>3, <2>4, <3>1, <3>2, <3>3, <3>4
    <3>12. LaneDrains'
      BY <2>1, <2>3, <2>4, <3>1, <3>2, <3>3, <3>4
    <3>13. LanePending'
      BY <2>1, <2>3, <2>4, <3>1, <3>2, <3>3, <3>4
    <3>14. LaneThread'
      BY <2>1, <2>3, <2>4, <3>1, <3>2, <3>3, <3>4
    <3> QED
      BY <3>10, <3>11, <3>12, <3>13, <3>14
  <2>6. CASE AdmitWaits(w)
    <3>1. /\ Len(queue') = Len(queue) + 1 /\ Len(queue) \in Nat
          /\ \A x : Has(queue', x) <=> Has(queue, x) \/ x = w
          /\ Distinct(queue')
      BY <2>1, <2>4, <2>6, QueueJoins, QueueFront DEF AdmitWaits
    <3>2. Len(queue') <= QueueLimit
      BY <2>6, <3>1 DEF AdmitWaits
    <3>3. row'[w] = "queued" /\ \A v \in Works : v # w => row'[v] = row[v]
      BY <2>1, <2>6, RowIs DEF AdmitWaits
    <3>4. /\ running' = running /\ accepted' = accepted \cup {w}
          /\ thread' = IF thread.by = "recovery" THEN Step("say", w, "recovery", "rerun")
                                                 ELSE Idle
      BY <2>6 DEF AdmitWaits, AdmitTakes
    <3>5. listed' = listed /\ up' = up /\ shutdown' = shutdown /\ w # NoWork
      BY <2>1
    <3>6. ~ HasRoom'
      BY <2>1, <2>6, <3>4 DEF AdmitWaits, HasPlace
    <3>10. LaneRows'
      BY <2>1, <2>3, <2>4, <3>1, <3>2, <3>3, <3>4, <3>5, <3>6
    <3>11. LaneListed'
      BY <2>1, <2>3, <2>4, <3>1, <3>2, <3>3, <3>4, <3>5, <3>6
    <3>12. LaneDrains'
      BY <2>1, <2>3, <2>4, <3>1, <3>2, <3>3, <3>4, <3>5, <3>6
    <3>13. LanePending'
      BY <2>1, <2>3, <2>4, <3>1, <3>2, <3>3, <3>4, <3>5, <3>6
    <3>14. LaneThread'
      BY <2>1, <2>3, <2>4, <3>1, <3>2, <3>3, <3>4, <3>5, <3>6
    <3> QED
      BY <3>10, <3>11, <3>12, <3>13, <3>14
  <2> QED
    BY <2>1, <2>2, <2>5, <2>6
<1>4. CASE Refused
  <2>1. /\ thread.at = "refused" /\ thread.work \in Works /\ up
        /\ UNCHANGED <<row, earlier, limit, lane, process, accepted>>
    BY <1>4 DEF Refused, StretchInv
  <2>2. \/ thread.by # "recovery" /\ thread' = Idle
        \/ /\ thread.by = "recovery"
           /\ thread' = Step("say", thread.work, "recovery", "lost")
    BY <1>4, RefusedCases
  <2>10. LaneRows'
    BY <2>1, <2>2
  <2>11. LaneListed'
    BY <2>1, <2>2
  <2>12. LaneDrains'
    BY <2>1, <2>2
  <2>13. LanePending'
    BY <2>1, <2>2
  <2>14. LaneThread'
    BY <2>1, <2>2
  <2> QED
    BY <2>10, <2>11, <2>12, <2>13, <2>14
<1>5. CASE Settle
  <2>1. /\ thread.work \in running /\ thread.work \in Works /\ thread.at = "settle"
        /\ thread.note \in Ended
    BY <1>5 DEF Settle, StretchInv
  <2>2. row[thread.work] = "running"
    BY <2>1
  <2>3. \A v \in Works : v # thread.work => row'[v] = row[v]
    BY <1>5, <2>1 DEF Settle, Moved, TypeOK
  <2>4. row'[thread.work] # "none" /\ running' = running \ {thread.work}
    BY <1>5, <2>1, <2>2 DEF Settle, Moved, TypeOK, Ended
  <2>5. /\ thread' = Step("pump", NoWork, "person", "none")
        /\ UNCHANGED <<earlier, queue, process, accepted>>
    BY <1>5 DEF Settle
  <2>6. running \subseteq Works /\ listed = {} /\ up
    BY <1>5, <2>1 DEF Settle, TypeOK, StretchInv
  <2>10. LaneRows'
    BY <2>1, <2>2, <2>3, <2>4, <2>5, <2>6
  <2>11. LaneListed'
    BY <2>1, <2>2, <2>3, <2>4, <2>5, <2>6
  <2>12. LaneDrains'
    BY <2>1, <2>2, <2>3, <2>4, <2>5, <2>6
  <2>13. LanePending'
    BY <2>1, <2>2, <2>3, <2>4, <2>5, <2>6
  <2>14. LaneThread'
    BY <2>1, <2>2, <2>3, <2>4, <2>5, <2>6
  <2> QED
    BY <2>10, <2>11, <2>12, <2>13, <2>14
<1>6. CASE SayDequeued
  <2>1. listed = {} /\ up
    BY <1>6 DEF SayDequeued
  <2>10. LaneRows'
    BY <1>6 DEF SayDequeued, StretchInv
  <2>11. LaneListed'
    BY <1>6, <2>1 DEF SayDequeued
  <2>12. LaneDrains'
    BY <1>6 DEF SayDequeued, StretchInv
  <2>13. LanePending'
    BY <1>6 DEF SayDequeued, StretchInv
  <2>14. LaneThread'
    BY <1>6 DEF SayDequeued, StretchInv
  <2> QED
    BY <2>10, <2>11, <2>12, <2>13, <2>14
<1>7. CASE CancelBackground
  <2>1. CASE queue # << >>
    <3>1. Dequeue(1, "recovery") /\ 1 \in 1..Len(queue)
      BY <1>7, <2>1, QueueFront DEF CancelBackground, TypeOK
    <3> DEFINE x == queue[1]
    <3>2. /\ x \in Works /\ Has(queue, x) /\ queue # << >>
          /\ Len(queue') <= QueueLimit
          /\ \A v : Has(queue', v) => Has(queue, v)
          /\ \A v : Has(queue, v) => v = x \/ Has(queue', v)
          /\ Distinct(queue') /\ ~ Has(queue', x)
      BY <3>1, OneLeaves
    <3>3. /\ row' = [row EXCEPT ![x] = "stopped"]
          /\ thread' = Step("dequeued", x, "recovery", "none")
          /\ UNCHANGED running
      BY <3>1, <3>2 DEF Dequeue, Moved
    <3>4. row'[x] = "stopped" /\ \A v \in Works : v # x => row'[v] = row[v]
      BY <3>2, <3>3, RowIs
    <3>5. UNCHANGED <<earlier, limit, process, accepted>>
      BY <1>7 DEF CancelBackground
    <3>6. running \subseteq Works /\ listed = {} /\ up /\ thread.at # "pump"
      BY <1>7, <3>1 DEF CancelBackground, TypeOK, StretchInv
    <3> HIDE DEF x
    <3>10. LaneRows'
      BY <3>2, <3>3, <3>4, <3>5, <3>6
    <3>11. LaneListed'
      BY <3>2, <3>3, <3>4, <3>5, <3>6
    <3>12. LaneDrains'
      BY <3>2, <3>3, <3>4, <3>5, <3>6
    <3>13. LanePending'
      BY <3>2, <3>3, <3>4, <3>5, <3>6
    <3>14. LaneThread'
      BY <3>2, <3>3, <3>4, <3>5, <3>6
    <3> QED
      BY <3>10, <3>11, <3>12, <3>13, <3>14
  <2>2. CASE queue = << >>
    BY <1>7, <2>2 DEF CancelBackground, StretchInv
  <2> QED
    BY <2>1, <2>2
<1>8. ASSUME NEW w \in Works, RecoverOne(w) PROVE LaneInv'
  <2>1. /\ up /\ thread.at = "recover" /\ listed' = listed \ {w}
        /\ row[w] # "none" /\ ~ Placed(w) /\ listed \subseteq Works
        /\ \/ /\ shutdown # "draining"
              /\ thread' = Step("pump", w, "recovery", "none")
           \/ thread' = Step("refused", w, "recovery", "none")
           \/ thread' = Step("say", w, "recovery", "lost")
    BY <1>8 DEF RecoverOne, EnterLane, Open, TypeOK
  <2>2. row'[w] = "interrupted" /\ \A v \in Works : v # w => row'[v] = row[v]
    BY <1>8, RowIs DEF RecoverOne
  <2>3. /\ UNCHANGED <<earlier, limit, lane, shutdown, up, accepted>>
        /\ running \subseteq Works
    BY <1>8 DEF RecoverOne, TypeOK
  <2>10. LaneRows'
    BY <2>1, <2>2, <2>3
  <2>11. LaneListed'
    BY <2>1, <2>2, <2>3
  <2>12. LaneDrains'
    BY <2>1, <2>2, <2>3
  <2>13. LanePending'
    BY <2>1, <2>2, <2>3
  <2>14. LaneThread'
    BY <2>1, <2>2, <2>3
  <2> QED
    BY <2>10, <2>11, <2>12, <2>13, <2>14
<1>9. CASE RecoveryEnds
  BY <1>9 DEF RecoveryEnds, StretchInv
<1>10. CASE Say
  BY <1>10 DEF Say, StretchInv
<1>11. ASSUME NEW w \in Works, Submit(w) PROVE LaneInv'
  BY <1>11 DEF Submit, EnterLane, Fresh, StretchInv
<1>12. ASSUME NEW w \in Works, NEW v \in Works, Retry(v, w) PROVE LaneInv'
  BY <1>12 DEF Retry, EnterLane, Fresh, StretchInv
<1>13. ASSUME NEW w \in Works, Deadline(w) PROVE LaneInv'
  BY <1>13 DEF Deadline, StretchInv
<1>14. ASSUME NEW w \in Works, RunEnds(w) PROVE LaneInv'
  BY <1>14 DEF RunEnds, StretchInv
<1>15. ASSUME NEW w \in Works, Cancel(w) PROVE LaneInv'
  <2>1. CASE InQueue(w)
    <3>1. PICK i \in 1..Len(queue) : Dequeue(i, "person")
      BY <1>15, <2>1 DEF Cancel
    <3> DEFINE x == queue[i]
    <3>2. /\ x \in Works /\ Has(queue, x) /\ queue # << >>
          /\ Len(queue') <= QueueLimit
          /\ \A v : Has(queue', v) => Has(queue, v)
          /\ \A v : Has(queue, v) => v = x \/ Has(queue', v)
          /\ Distinct(queue') /\ ~ Has(queue', x)
      BY <3>1, OneLeaves
    <3>3. /\ row' = [row EXCEPT ![x] = "stopped"]
          /\ thread' = Step("dequeued", x, "person", "none")
          /\ UNCHANGED running
      BY <3>1, <3>2 DEF Dequeue, Moved
    <3>4. row'[x] = "stopped" /\ \A v \in Works : v # x => row'[v] = row[v]
      BY <3>2, <3>3, RowIs
    <3>5. UNCHANGED <<earlier, limit, process, accepted>>
      BY <1>15 DEF Cancel
    <3>6. running \subseteq Works /\ listed = {} /\ up /\ thread.at # "pump"
      BY <1>15, <3>1 DEF Cancel, TypeOK, StretchInv
    <3> HIDE DEF x
    <3>10. LaneRows'
      BY <3>2, <3>3, <3>4, <3>5, <3>6
    <3>11. LaneListed'
      BY <3>2, <3>3, <3>4, <3>5, <3>6
    <3>12. LaneDrains'
      BY <3>2, <3>3, <3>4, <3>5, <3>6
    <3>13. LanePending'
      BY <3>2, <3>3, <3>4, <3>5, <3>6
    <3>14. LaneThread'
      BY <3>2, <3>3, <3>4, <3>5, <3>6
    <3> QED
      BY <3>10, <3>11, <3>12, <3>13, <3>14
  <2>2. CASE ~ InQueue(w)
    BY <1>15, <2>2 DEF Cancel, StretchInv
  <2> QED
    BY <2>1, <2>2
<1>16. ASSUME NEW n \in Limits, SetLimit(n) PROVE LaneInv'
  BY <1>16 DEF SetLimit, RefillAfterSetting, StretchInv
<1>17. CASE EmergencyStop
  BY <1>17 DEF EmergencyStop, StretchInv
<1>18. CASE ShutdownBegins \/ Drain
  BY <1>18, EmptyQueue DEF ShutdownBegins, Drain, Interrupt, StretchInv
<1>19. CASE Exit \/ Crash
  BY <1>19, EmptyQueue DEF Exit, Crash, Lost, StretchInv
<1>20. CASE Boot
  BY <1>20, EmptyQueue DEF Boot, Unfinished, StretchInv
<1>21. CASE UNCHANGED vars
  BY <1>21 DEF vars
<1> QED
  BY <1>1, <1>2, <1>3, <1>4, <1>5, <1>6, <1>7, <1>8, <1>9, <1>10, <1>11, <1>12,
     <1>13, <1>14, <1>15, <1>16, <1>17, <1>18, <1>19, <1>20, <1>21
     DEF Next, ThreadStep
-----------------------------------------------------------------------------
(* What the conversation is told.                                          *)

LEMMA TellStart ==
  Init => TellInv
BY NoLines DEF Init, TellInv, Answered

\* The last word on a request is the only one.
LEMMA LastWord ==
  ASSUME TypeOK, NEW w \in Works, NEW line \in Outcome, Tell(w, line)
  PROVE  /\ \A v \in Works : v # w => told'[v] = told[v]
         /\ Answered(w)' /\ ~ Answered(w)
              => \E i \in Nat : OutcomesOf(told'[w]) = {i}
         /\ Answered(w)'
<1>1. /\ told'[w] = Append(told[w], line)
      /\ \A v \in Works : v # w => told'[v] = told[v]
  BY LineIsWritten
<1>2. told[w] \in Seq(Line)
  BY DEF TypeOK, Line
<1>3. /\ OutcomesOf(told'[w]) = OutcomesOf(told[w]) \cup {Len(told[w]) + 1}
      /\ Len(told[w]) + 1 \in Nat
  BY <1>1, <1>2, OutcomeIsTold DEF Answered
<1> QED
  BY <1>1, <1>3 DEF Answered

LEMMA TellKept ==
  ASSUME TypeOK, StretchInv, LaneInv, TellInv, LaneInv', [Next]_vars
  PROVE  TellInv'
<1> USE WorksAssumption
<1> USE DEF TellInv, Place, AboutNone, Submission, Step, Idle, At, Ready,
            Caller, journal, lane, process, history, Pending, AtFor
<1>0. /\ \A w \in Works : row[w] = "none" <=> w \notin accepted
      /\ \A w \in running : row[w] = "running"
      /\ \A w \in Works : row[w] = "queued" => row[w] \notin Ended /\ row[w] # "none"
      /\ \A w \in Works : row[w] = "running" => row[w] \notin Ended /\ row[w] # "none"
      /\ "none" \notin Ended
  BY DEF LaneInv, LaneRows, Ended
<1>a. ASSUME UNCHANGED <<told, row, accepted, cut>>, thread.at # "settle",
             \/ thread'.work = NoWork
             \/ /\ thread'.work = thread.work /\ thread.at \in Submission
                /\ thread'.at # "settle"
      PROVE  TellInv'
  BY <1>a DEF Answered
<1>1. CASE PumpStarts
  <2> DEFINE h == Head(queue)
  <2>1. h \in Works /\ row[h] = "queued" /\ thread.at = "pump"
    BY <1>1, FrontStarts DEF PumpStarts, LaneInv, LaneRows
  <2>2. \A w \in Works : w # h => row'[w] = row[w]
    BY <1>1, <2>1, RowIs DEF PumpStarts, Moved
  <2>3. UNCHANGED <<told, thread, accepted, cut>>
    BY <1>1 DEF PumpStarts
  <2> HIDE DEF h
  <2> QED
    BY <1>0, <2>1, <2>2, <2>3 DEF Answered
<1>2. CASE PumpRests
  <2>1. /\ thread.at = "pump" /\ UNCHANGED <<told, row, accepted, cut>>
        /\ thread' = Idle \/ thread' = [thread EXCEPT !.at = "admit"]
    BY <1>2 DEF PumpRests
  <2>2. \/ thread'.work = NoWork
        \/ thread'.work = thread.work /\ thread'.at = "admit"
    BY <2>1 DEF StretchInv
  <2> QED
    BY <1>a, <2>1, <2>2
<1>3. CASE Admit
  <2> DEFINE w == thread.work
  <2>1. /\ w \in Works /\ thread.at = "admit" /\ UNCHANGED told
        /\ AdmitRefuses \/ AdmitStarts(w) \/ AdmitWaits(w)
    BY <1>3, AdmitCases
  <2>2. CASE AdmitRefuses
    <3>1. thread'.work = thread.work /\ thread'.at = "refused"
      BY <2>2 DEF AdmitRefuses, StretchInv
    <3> QED
      BY <1>a, <2>1, <2>2, <3>1 DEF AdmitRefuses
  <2>3. CASE AdmitStarts(w) \/ AdmitWaits(w)
    <3>1. \A v \in Works : v # w => row'[v] = row[v]
      BY <2>1, <2>3, RowIs DEF AdmitStarts, AdmitWaits
    <3>2. /\ accepted' = accepted \cup {w} /\ cut' = cut
          /\ thread' = IF thread.by = "recovery" THEN Step("say", w, "recovery", "rerun")
                                                 ELSE Idle
      BY <2>3 DEF AdmitStarts, AdmitWaits, AdmitTakes
    <3>3. w \notin cut => ~ Answered(w)
      BY <2>1
    <3> HIDE DEF w
    <3> QED
      BY <2>1, <3>1, <3>2, <3>3 DEF Answered
  <2> QED
    BY <2>1, <2>2, <2>3
<1>4. CASE Refused
  <2>1. /\ thread.at = "refused" /\ thread.work \in Works
        /\ UNCHANGED <<row, told, accepted, cut>>
    BY <1>4 DEF Refused, StretchInv
  <2>2. thread' = Idle \/ thread' = Step("say", thread.work, "recovery", "lost")
    BY <1>4, RefusedCases
  <2>3. \/ thread'.work = NoWork
        \/ thread'.work = thread.work /\ thread'.at # "settle"
    BY <2>2
  <2> QED
    BY <1>a, <2>1, <2>3
<1>5. CASE Settle
  <2> DEFINE w == thread.work
  <2>1. /\ w \in running /\ w \in Works /\ thread.at = "settle"
        /\ thread.note \in Ended
    BY <1>5 DEF Settle, StretchInv, LaneInv, LaneThread
  <2>2. /\ \A v \in Works : v # w => row'[v] = row[v]
        /\ thread.note # "interrupted" => row'[w] = thread.note
        /\ thread.note = "interrupted" => row'[w] = row[w]
    BY <1>0, <1>5, <2>1 DEF Settle, Moved, TypeOK
  <2>3. /\ thread' = Step("pump", NoWork, "person", "none")
        /\ UNCHANGED <<told, accepted, cut>>
    BY <1>5 DEF Settle
  <2> QED
    BY <2>1, <2>2, <2>3 DEF Answered
<1>6. CASE SayDequeued
  <2> DEFINE w == thread.work
  <2>1. /\ w \in Works /\ thread.at = "dequeued" /\ row[w] = "stopped"
        /\ \/ Tell(w, "dequeued") /\ UNCHANGED cut
           \/ cut' = cut \cup {w} /\ UNCHANGED told
        /\ thread' \in {Idle, Step("cancel_all", NoWork, "person", "none")}
        /\ UNCHANGED <<row, accepted>>
    BY <1>6 DEF SayDequeued, StretchInv, LaneInv, LaneThread
  <2>7. CASE cut' = cut \cup {w} /\ UNCHANGED told
    <3>1. thread'.work = NoWork /\ UNCHANGED <<row, accepted, told>>
      BY <2>1, <2>7
    <3> QED
      BY <1>0, <2>7, <3>1 DEF Answered
  <2> SUFFICES ASSUME Tell(w, "dequeued"), UNCHANGED cut PROVE TellInv'
    BY <2>1, <2>7
  <2>2. /\ \A v \in Works : v # w => told'[v] = told[v]
        /\ ~ Answered(w) => \E i \in Nat : OutcomesOf(told'[w]) = {i}
    BY <2>1, LastWord DEF Outcome
  <2>3. /\ w \in accepted /\ row[w] \in Ended
        /\ w \notin cut => ~ Answered(w)
    BY <1>0, <2>1 DEF Ended
  <2>4. /\ thread'.work = NoWork /\ thread.at # "settle" /\ w # NoWork
        /\ UNCHANGED <<row, accepted, cut>>
    BY <2>1
  <2> HIDE DEF w
  <2>5. ASSUME NEW v \in Works \ cut, v # w, Answered(v)'
        PROVE  /\ \E i \in Nat : OutcomesOf(told'[v]) = {i}
               /\ row'[v] \in Ended
    BY <2>2, <2>4, <2>5 DEF Answered
  <2> QED
    BY <2>1, <2>2, <2>3, <2>4, <2>5
<1>7. ASSUME NEW i \in 1..Len(queue), NEW by, Dequeue(i, by), Ready \/ At("cancel_all"),
             UNCHANGED <<told, accepted, cut>>
      PROVE  TellInv'
  <2> DEFINE x == queue[i]
  <2>1. x \in Works /\ row[x] = "queued"
    BY <1>7, OneLeaves DEF LaneInv, LaneRows
  <2>2. \A v \in Works : v # x => row'[v] = row[v]
    BY <1>0, <1>7, <2>1, RowIs DEF Dequeue, Moved
  <2>3. thread' = Step("dequeued", x, by, "none")
    BY <1>7 DEF Dequeue
  <2>4. thread.at # "settle"
    BY <1>7
  <2> HIDE DEF x
  <2> QED
    BY <1>0, <1>7, <2>1, <2>2, <2>3, <2>4 DEF Answered
<1>8. CASE CancelBackground
  <2>1. CASE queue # << >>
    BY <1>7, <1>8, <2>1, QueueFront DEF CancelBackground, TypeOK
  <2>2. CASE queue = << >>
    <3>1. thread.at # "settle" /\ thread'.work = NoWork
          /\ UNCHANGED <<told, row, accepted, cut>>
      BY <1>8, <2>2 DEF CancelBackground
    <3> QED
      BY <1>a, <3>1
  <2> QED
    BY <2>1, <2>2
<1>9. ASSUME NEW w \in Works, RecoverOne(w) PROVE TellInv'
  <2>1. /\ thread.at = "recover" /\ w \in accepted /\ row[w] \notin Ended
        /\ \/ thread' = Step("pump", w, "recovery", "none")
           \/ thread' = Step("refused", w, "recovery", "none")
           \/ thread' = Step("say", w, "recovery", "lost")
    BY <1>0, <1>9 DEF RecoverOne, EnterLane, LaneInv, LaneListed, Open
  <2>2. \A v \in Works : v # w => row'[v] = row[v]
    BY <1>9, RowIs DEF RecoverOne
  <2>3. UNCHANGED <<told, accepted, cut>>
    BY <1>9 DEF RecoverOne
  <2>4. /\ w # NoWork /\ thread'.work = w /\ thread'.at # "settle"
        /\ thread'.at \in {"pump", "refused", "say"}
        /\ w \notin cut => ~ Answered(w)
    BY <2>1
  <2>5. ASSUME NEW v \in Works \ cut, Answered(v)
        PROVE  v # w /\ row'[v] \in Ended
    BY <2>1, <2>2, <2>4, <2>5
  <2> QED
    BY <2>1, <2>3, <2>4, <2>5 DEF Answered
<1>10. CASE RecoveryEnds
  BY <1>10 DEF RecoveryEnds, Answered
<1>11. CASE Say
  <2> DEFINE w == thread.work
  <2>1. /\ w \in Works /\ thread.at = "say" /\ thread.note \in {"lost", "rerun"}
        /\ thread' = Step("recover", NoWork, "recovery", "none")
        /\ UNCHANGED <<row, accepted>>
    BY <1>11 DEF Say, StretchInv
  <2>2. /\ w \in accepted
        /\ thread.note = "lost" => row[w] = "interrupted"
        /\ w \notin cut => ~ Answered(w)
    <3>1. row[w] # "none"
      BY <1>0, <2>1 DEF LaneInv, LaneThread, LaneRows, Placed
    <3> QED
      BY <1>0, <2>1, <3>1 DEF LaneInv, LaneThread
  <2>3. CASE Tell(w, "lost") /\ thread.note = "lost" /\ UNCHANGED cut
    <3>1. /\ \A v \in Works : v # w => told'[v] = told[v]
          /\ ~ Answered(w) => \E i \in Nat : OutcomesOf(told'[w]) = {i}
      BY <2>1, <2>3, LastWord DEF Outcome
    <3>2. w \in accepted /\ row[w] \in Ended
      BY <2>2, <2>3 DEF Ended
    <3>3. /\ thread'.work = NoWork /\ thread.at # "settle" /\ w # NoWork
          /\ UNCHANGED <<row, accepted, cut>>
      BY <2>1, <2>3
    <3> HIDE DEF w
    <3>4. ASSUME NEW v \in Works \ cut, v # w, Answered(v)'
          PROVE  /\ \E i \in Nat : OutcomesOf(told'[v]) = {i}
                 /\ row'[v] \in Ended
      BY <3>1, <3>3, <3>4 DEF Answered
    <3> QED
      BY <2>1, <2>2, <3>1, <3>2, <3>3, <3>4
  <2>4. CASE Tell(w, "rerun") /\ UNCHANGED cut
    <3>1. /\ told'[w] = Append(told[w], "rerun")
          /\ \A v \in Works : v # w => told'[v] = told[v]
      BY <2>1, <2>4, LineIsWritten
    <3>2. OutcomesOf(told'[w]) = OutcomesOf(told[w])
      BY <2>1, <3>1, RerunTellsNoEnd DEF TypeOK, Line
    <3>3. thread'.work = NoWork /\ UNCHANGED <<row, accepted, cut>>
      BY <2>1, <2>4
    <3> HIDE DEF w
    <3>4. ASSUME NEW v \in Works \ cut, v # w
          PROVE  told'[v] = told[v]
      BY <3>1, <3>4
    <3>5. ASSUME NEW v \in Works \ cut, Answered(v)'
          PROVE  Answered(v) /\ v # w
      BY <2>2, <3>2, <3>3, <3>4, <3>5 DEF Answered
    <3>6. ASSUME NEW v \in Works \ accepted PROVE told'[v] = << >>
      BY <2>2, <3>1, <3>3, <3>6
    <3>7. ASSUME NEW v \in Works \ cut
          PROVE  /\ ~ Answered(v)' \/ \E i \in Nat : OutcomesOf(told'[v]) = {i}
                 /\ Answered(v)' => row'[v] \in Ended
      BY <2>1, <3>3, <3>4, <3>5, <3>7
    <3> QED
      BY <2>1, <3>3, <3>6, <3>7
  <2>5. CASE cut' = cut \cup {w} /\ UNCHANGED told
    BY <2>1, <2>2, <2>5 DEF Answered
  <2> QED
    BY <1>11, <2>1, <2>3, <2>4, <2>5 DEF Say
<1>12. ASSUME NEW w \in Works, Submit(w) PROVE TellInv'
  BY <1>12, NoLines DEF Submit, EnterLane, Fresh, Answered
<1>13. ASSUME NEW w \in Works, NEW v \in Works, Retry(v, w) PROVE TellInv'
  BY <1>13, NoLines DEF Retry, EnterLane, Fresh, Answered
<1>14. ASSUME NEW w \in Works, Deadline(w) PROVE TellInv'
  BY <1>14 DEF Deadline, Answered
<1>15. ASSUME NEW w \in Works, RunEnds(w) PROVE TellInv'
  <2>1. PICK status \in Ended :
          /\ thread' = Step("settle", w, "person", status)
          /\ IF EndingLine(status) = "nothing" THEN UNCHANGED told
             ELSE Tell(w, EndingLine(status))
    BY <1>15 DEF RunEnds, StatusFor, Reason, Ended, TypeOK
  <2>2. /\ EndingLine(status) \in Outcome \cup {"nothing"}
        /\ EndingLine(status) = "nothing" <=> status = "interrupted"
    BY DEF EndingLine, Outcome, Ended
  <2>3. /\ w \in accepted /\ thread.at = "return"
        /\ w \notin cut => ~ Answered(w)
        /\ UNCHANGED <<row, accepted, cut>>
    BY <1>0, <1>15 DEF RunEnds
  <2>4. CASE status = "interrupted"
    BY <2>1, <2>2, <2>3, <2>4 DEF Answered
  <2>5. CASE status # "interrupted"
    <3>1. /\ \A v \in Works : v # w => told'[v] = told[v]
          /\ ~ Answered(w) => \E i \in Nat : OutcomesOf(told'[w]) = {i}
      BY <2>1, <2>2, <2>5, LastWord
    <3> QED
      BY <2>1, <2>3, <2>5, <3>1 DEF Answered
  <2> QED
    BY <2>4, <2>5
<1>16. ASSUME NEW w \in Works, Cancel(w) PROVE TellInv'
  <2>1. CASE InQueue(w)
    <3>1. PICK i \in 1..Len(queue) : Dequeue(i, "person")
      BY <1>16, <2>1 DEF Cancel
    <3> QED
      BY <1>7, <1>16, <3>1 DEF Cancel
  <2>2. CASE ~ InQueue(w)
    BY <1>16, <2>2 DEF Cancel, Answered
  <2> QED
    BY <2>1, <2>2
<1>17. ASSUME NEW n \in Limits, SetLimit(n) PROVE TellInv'
  BY <1>17 DEF SetLimit, RefillAfterSetting, Answered, StretchInv
<1>18. CASE EmergencyStop \/ ShutdownBegins \/ Drain \/ Boot
  <2>1. /\ UNCHANGED <<told, row, accepted, cut>>
        /\ thread.at = "return" /\ thread'.work = NoWork
    BY <1>18 DEF EmergencyStop, ShutdownBegins, Drain, Boot, StretchInv
  <2> QED
    BY <1>a, <2>1
<1>19. CASE Exit \/ Crash
  <2>1. /\ UNCHANGED <<row, told, accepted>> /\ thread' = Idle
        /\ cut \subseteq cut'
        /\ thread.at = "settle" => thread.work \in cut'
    BY <1>19 DEF Exit, Crash, Lost, StretchInv
  <2> QED
    BY <2>1 DEF Answered
<1>20. CASE UNCHANGED vars
  BY <1>20 DEF vars, Answered
<1> QED
  BY <1>1, <1>2, <1>3, <1>4, <1>5, <1>6, <1>8, <1>9, <1>10, <1>11, <1>12,
     <1>13, <1>14, <1>15, <1>16, <1>17, <1>18, <1>19, <1>20
     DEF Next, ThreadStep
-----------------------------------------------------------------------------
(* What is accepted is kept.                                               *)

LEMMA KeptStart ==
  Init => KeptInv
BY DEF Init, KeptInv, AtFor, Idle, Step

LEMMA KeptKept ==
  ASSUME TypeOK, StretchInv, LaneInv, TellInv, KeptInv, StretchInv', [Next]_vars
  PROVE  KeptInv'
<1> USE WorksAssumption
<1> USE DEF KeptInv, Place, AboutNone, Submission, Step, Idle, At, Ready,
            Caller, journal, lane, process, history, Pending, AtFor
<1>0. /\ \A w \in Works : row[w] = "none" <=> w \notin accepted
      /\ \A w \in running : row[w] = "running"
      /\ \A w \in Works : Has(queue, w) => row[w] = "queued"
      /\ \A w \in Works : Placed(w) => row[w] \in Open
      /\ "none" \notin Ended
  BY DEF LaneInv, LaneRows, Ended, Placed, Open
<1>a. ASSUME UNCHANGED <<told, row, accepted, running, queue, shutdown, up, listed>>,
             cut \subseteq cut',
             aborted' = aborted \/ shutdown # "no",
             thread'.at # "settle",
             \A w \in accepted \ cut' :
               Pending(w) \/ AtFor("dequeued", w) \/ AtFor("say", w)
                 => Pending(w)' \/ AtFor("say", w)' \/ Placed(w)
      PROVE  KeptInv'
  <2>1. \A w : (Placed(w)' <=> Placed(w)) /\ (Answered(w)' <=> Answered(w))
    BY <1>a DEF Placed, Answered
  <2> QED
    BY <1>a, <2>1
<1>1. CASE PumpStarts
  <2>0. PICK h : h = Head(queue)
    OBVIOUS
  <2>1. /\ h \in Works
        /\ \A w : Has(queue, w) => w = h \/ Has(queue', w)
    BY <1>1, <2>0, FrontStarts
  <2>2. /\ \A w \in Works : w # h => row'[w] = row[w]
        /\ running' = running \cup {h}
    BY <1>1, <2>0, <2>1, RowIs DEF PumpStarts, Moved, StartRun
  <2>3. /\ UNCHANGED <<told, thread, accepted, cut, shutdown, up, listed, aborted>>
        /\ thread.at = "pump"
    BY <1>1 DEF PumpStarts
  <2>4. Placed(h)' /\ \A w : Placed(w) => Placed(w)'
    BY <2>1, <2>2 DEF Placed
  <2>5. \A w : Answered(w)' <=> Answered(w)
    BY <2>3 DEF Answered
  <2>6. \A w : (Pending(w)' <=> Pending(w)) /\ thread'.at = "pump"
                /\ ~ AtFor("dequeued", w) /\ ~ AtFor("say", w)
    BY <2>3
  <2> QED
    BY <2>1, <2>2, <2>3, <2>4, <2>5, <2>6 DEF TypeOK
<1>2. CASE PumpRests
  <2>1. /\ thread.at = "pump" /\ cut' = cut /\ aborted' = aborted
        /\ UNCHANGED <<told, row, accepted, running, queue, shutdown, up, listed>>
        /\ \/ thread.work = NoWork /\ thread' = Idle
           \/ thread' = [thread EXCEPT !.at = "admit"]
    BY <1>2 DEF PumpRests
  <2>2. \/ thread.work = NoWork /\ thread'.at = "return"
        \/ thread'.work = thread.work /\ thread'.at = "admit"
    BY <2>1 DEF StretchInv
  <2>3. \A w \in accepted : Pending(w) => Pending(w)'
    BY <2>1, <2>2 DEF TypeOK
  <2> QED
    BY <1>a, <2>1, <2>2, <2>3
<1>3. CASE Admit
  <2>0. PICK w : w = thread.work
    OBVIOUS
  <2>1. /\ w \in Works /\ thread.at = "admit"
        /\ UNCHANGED <<told, shutdown, up, listed>>
        /\ AdmitRefuses \/ AdmitStarts(w) \/ AdmitWaits(w)
    BY <1>3, <2>0, AdmitCases
  <2>2. CASE AdmitRefuses
    <3>1. thread'.work = thread.work /\ thread'.at = "refused"
      BY <2>2 DEF AdmitRefuses, StretchInv
    <3> QED
      BY <1>a, <2>0, <2>1, <2>2, <3>1 DEF AdmitRefuses
  <2>3. CASE AdmitStarts(w) \/ AdmitWaits(w)
    <3>1. \A v \in Works : v # w => row'[v] = row[v]
      BY <2>1, <2>3, RowIs DEF AdmitStarts, AdmitWaits
    <3>2. /\ accepted' = accepted \cup {w} /\ cut' = cut
          /\ thread' = IF thread.by = "recovery" THEN Step("say", w, "recovery", "rerun")
                                                 ELSE Idle
          /\ \A v \in Works : aborted'[v] = "none" \/ aborted'[v] = aborted[v]
      BY <2>1, <2>3 DEF AdmitStarts, AdmitWaits, AdmitTakes, TypeOK
    <3>3. Placed(w)' /\ \A v : Placed(v) => Placed(v)'
      <4>1. CASE AdmitStarts(w)
        <5>1. running' = running \cup {w} /\ queue' = queue
          BY <4>1 DEF AdmitStarts, StartRun
        <5> QED
          BY <5>1 DEF Placed
      <4>2. CASE AdmitWaits(w)
        <5>1. queue' = Append(queue, w) /\ running' = running
          BY <4>2 DEF AdmitWaits
        <5>2. \A x : Has(queue', x) <=> Has(queue, x) \/ x = w
          BY <2>1, <5>1, QueueJoins DEF TypeOK
        <5> QED
          BY <5>1, <5>2 DEF Placed
      <4> QED
        BY <2>3, <4>1, <4>2
    <3>4. \A v : Answered(v)' <=> Answered(v)
      BY <2>1 DEF Answered
    <3>5. thread'.at # "settle"
      BY <3>2
    <3>6. ASSUME NEW v \in Works, v # w
          PROVE  ~ Pending(v) /\ ~ AtFor("dequeued", v) /\ ~ AtFor("say", v)
      BY <2>0, <2>1, <3>6
    <3> QED
      BY <2>1, <3>1, <3>2, <3>3, <3>4, <3>5, <3>6 DEF TypeOK
  <2> QED
    BY <2>1, <2>2, <2>3
<1>4. CASE Refused
  <2>1. /\ thread.at = "refused" /\ thread.work \in Works /\ cut' = cut
        /\ aborted' = aborted
        /\ UNCHANGED <<told, row, accepted, running, queue, shutdown, up, listed>>
    BY <1>4 DEF Refused, StretchInv
  <2>2. /\ thread'.at # "settle"
        /\ \/ thread.by # "recovery"
           \/ thread'.at = "say" /\ thread'.work = thread.work
    BY <1>4, RefusedCases
  <2>3. thread.by # "recovery" => thread.work \notin accepted
    BY <1>0, <2>1 DEF LaneInv, LanePending
  <2> QED
    BY <1>a, <2>1, <2>2, <2>3
<1>5. CASE Settle
  <2>0. PICK w : w = thread.work
    OBVIOUS
  <2>1. /\ w \in running /\ w \in Works /\ thread.at = "settle"
        /\ row[w] = "running"
    BY <1>0, <1>5, <2>0 DEF Settle, StretchInv, LaneInv, LaneThread
  <2>2. /\ \A v \in Works : v # w => row'[v] = row[v]
        /\ thread.note = "interrupted" => row'[w] \in Open /\ shutdown # "no"
        /\ thread.note # "interrupted" => Answered(w)
    BY <1>5, <2>0, <2>1 DEF Settle, Moved, TypeOK, Open
  <2>3. /\ thread' = Step("pump", NoWork, "person", "none")
        /\ UNCHANGED <<told, accepted, cut, shutdown, up, listed, aborted>>
        /\ running' = running \ {w} /\ queue' = queue
    BY <1>5, <2>0 DEF Settle
  <2>6. /\ \A v : v # w /\ Placed(v) => Placed(v)'
        /\ \A v : Answered(v)' <=> Answered(v)
    BY <2>3 DEF Placed, Answered
  <2>4. thread'.at = "pump"
    BY <2>3
  <2>5. ASSUME NEW v \in Works, v # w
        PROVE  ~ AtFor("settle", v) /\ ~ Pending(v) /\ ~ AtFor("dequeued", v)
               /\ ~ AtFor("say", v)
    BY <2>0, <2>1, <2>5
  <2> QED
    BY <2>1, <2>2, <2>3, <2>4, <2>5, <2>6 DEF TypeOK
<1>6. CASE SayDequeued
  <2>0. PICK w : w = thread.work
    OBVIOUS
  <2>1. /\ w \in Works /\ thread.at = "dequeued"
        /\ \/ Tell(w, "dequeued") /\ UNCHANGED cut
           \/ cut' = cut \cup {w} /\ UNCHANGED told
        /\ thread'.at \in {"return", "cancel_all"}
        /\ UNCHANGED <<row, running, queue, shutdown, up, listed, aborted, accepted>>
    BY <1>6, <2>0 DEF SayDequeued, StretchInv
  <2>6. \A v \in Works : v # w => ~ Pending(v) /\ ~ AtFor("dequeued", v) /\ ~ AtFor("say", v)
    BY <2>0, <2>1
  <2>7. CASE cut' = cut \cup {w} /\ UNCHANGED told
    <3>1. \A v : (Placed(v)' <=> Placed(v)) /\ (Answered(v)' <=> Answered(v))
      BY <2>1, <2>7 DEF Placed, Answered
    <3> QED
      BY <1>a, <2>0, <2>1, <2>6, <2>7, <3>1
  <2> SUFFICES ASSUME Tell(w, "dequeued"), UNCHANGED cut PROVE KeptInv'
    BY <2>1, <2>7
  <2>2. Answered(w)' /\ \A v \in Works : v # w => told'[v] = told[v]
    BY <2>1, LastWord DEF Outcome
  <2>5. \A v \in Works : v # w => (Answered(v)' <=> Answered(v))
    BY <2>2 DEF Answered
  <2>3. \A v : Placed(v)' <=> Placed(v)
    BY <2>1 DEF Placed
  <2> QED
    BY <2>1, <2>2, <2>3, <2>5, <2>6 DEF TypeOK
<1>7. ASSUME NEW i \in 1..Len(queue), NEW by, Dequeue(i, by), Ready \/ At("cancel_all"),
             UNCHANGED <<told, accepted, cut, shutdown, up, listed>>
      PROVE  KeptInv'
  <2> DEFINE x == queue[i]
  <2>1. /\ x \in Works /\ row[x] = "queued"
        /\ \A w : Has(queue, w) => w = x \/ Has(queue', w)
    BY <1>0, <1>7, OneLeaves
  <2>2. \A v \in Works : v # x => row'[v] = row[v]
    BY <1>0, <1>7, <2>1, RowIs DEF Dequeue, Moved
  <2>3. thread' = Step("dequeued", x, by, "none") /\ UNCHANGED <<running, aborted>>
    BY <1>7 DEF Dequeue
  <2>4. /\ \A v : v # x /\ Placed(v) => Placed(v)'
        /\ \A v : Answered(v)' <=> Answered(v)
    BY <1>7, <2>1, <2>3 DEF Placed, Answered
  <2>5. \A v : ~ Pending(v) /\ ~ AtFor("dequeued", v) /\ ~ AtFor("say", v)
    BY <1>7
  <2>6. thread'.at = "dequeued" /\ thread'.work = x
    BY <2>3
  <2> HIDE DEF x
  <2> QED
    BY <1>7, <2>1, <2>2, <2>3, <2>4, <2>5, <2>6 DEF TypeOK
<1>8. CASE CancelBackground
  <2>1. CASE queue # << >>
    BY <1>7, <1>8, <2>1, QueueFront DEF CancelBackground, TypeOK
  <2>2. CASE queue = << >>
    <3>1. /\ thread' = Idle /\ thread.at = "cancel_all"
          /\ UNCHANGED <<told, row, running, queue, shutdown, up, listed, accepted, cut>>
          /\ \A w \in Works : aborted'[w] = "shutdown" => aborted[w] = "shutdown"
      BY <1>8, <2>2 DEF CancelBackground, Abort, TypeOK
    <3>2. \A v : (Placed(v)' <=> Placed(v)) /\ (Answered(v)' <=> Answered(v))
      BY <3>1 DEF Placed, Answered
    <3> QED
      BY <3>1, <3>2
  <2> QED
    BY <2>1, <2>2
<1>9. ASSUME NEW w \in Works, RecoverOne(w) PROVE KeptInv'
  <2>1. /\ thread.at = "recover"
        /\ thread'.work = w /\ thread'.at \in {"pump", "refused", "say"}
        /\ UNCHANGED <<told, accepted, cut, shutdown, up, aborted, running, queue>>
        /\ listed' = listed \ {w}
    BY <1>9 DEF RecoverOne, EnterLane
  <2>2. \A v \in Works : v # w => row'[v] = row[v]
    BY <1>9, RowIs DEF RecoverOne
  <2>3. \A v : (Placed(v)' <=> Placed(v)) /\ (Answered(v)' <=> Answered(v))
    BY <2>1 DEF Placed, Answered
  <2> QED
    BY <2>1, <2>2, <2>3 DEF TypeOK
<1>10. CASE RecoveryEnds \/ EmergencyStop
  <2>1. /\ thread.at \in {"recover", "return"} /\ thread'.at \in {"return", "cancel_all"}
        /\ UNCHANGED <<told, row, running, queue, shutdown, up, listed, accepted, cut, aborted>>
    BY <1>10 DEF RecoveryEnds, EmergencyStop
  <2> QED
    BY <1>a, <2>1
<1>11. CASE Say
  <2>0. PICK w : w = thread.work
    OBVIOUS
  <2>1. /\ w \in Works /\ thread.at = "say" /\ thread.note \in {"lost", "rerun"}
        /\ thread'.at = "recover"
        /\ UNCHANGED <<row, accepted, running, queue, shutdown, up, listed, aborted>>
        /\ \A v : Placed(v)' <=> Placed(v)
        /\ thread.note = "rerun" => Placed(w)
    BY <1>11, <2>0 DEF Say, StretchInv, Placed, LaneInv, LaneThread
  <2>2. \A v \in Works : v # w => ~ Pending(v) /\ ~ AtFor("dequeued", v) /\ ~ AtFor("say", v)
    BY <2>0, <2>1
  <2>3. CASE Tell(w, "lost") /\ UNCHANGED cut
    <3>1. Answered(w)' /\ \A v \in Works : v # w => told'[v] = told[v]
      BY <2>1, <2>3, LastWord DEF Outcome
    <3>2. \A v \in Works : v # w => (Answered(v)' <=> Answered(v))
      BY <3>1 DEF Answered
    <3> QED
      BY <2>1, <2>2, <2>3, <3>1, <3>2 DEF TypeOK
  <2>4. CASE Tell(w, "rerun") /\ thread.note = "rerun" /\ UNCHANGED cut
    <3>1. \A v \in Works : v # w => told'[v] = told[v]
      BY <2>1, <2>4, LineIsWritten
    <3>2. \A v \in Works : v # w => (Answered(v)' <=> Answered(v))
      BY <3>1 DEF Answered
    <3> QED
      BY <2>1, <2>2, <2>4, <3>2 DEF TypeOK
  <2>5. CASE cut' = cut \cup {w} /\ UNCHANGED told
    BY <1>a, <2>0, <2>1, <2>2, <2>5
  <2> QED
    BY <1>11, <2>0, <2>1, <2>3, <2>4, <2>5 DEF Say
<1>12. ASSUME NEW w \in Works, Submit(w) \/ \E v \in Works : Retry(v, w) PROVE KeptInv'
  <2>1. /\ thread.at = "return" /\ thread'.at \in {"pump", "refused"}
        /\ UNCHANGED <<told, row, running, queue, shutdown, up, listed, accepted, cut, aborted>>
    BY <1>12 DEF Submit, Retry, EnterLane
  <2> QED
    BY <1>a, <2>1
<1>13. ASSUME NEW w \in Works, Deadline(w) \/ Cancel(w), ~ InQueue(w) \/ Deadline(w)
       PROVE KeptInv'
  <2>1. /\ thread.at = "return" /\ thread' = thread
        /\ UNCHANGED <<told, row, running, queue, shutdown, up, listed, accepted, cut>>
        /\ \A v \in Works : aborted'[v] = "shutdown" => aborted[v] = "shutdown"
    BY <1>13 DEF Deadline, Cancel, Abort, TypeOK
  <2>2. \A v : (Placed(v)' <=> Placed(v)) /\ (Answered(v)' <=> Answered(v))
    BY <2>1 DEF Placed, Answered
  <2> QED
    BY <2>1, <2>2
<1>14. ASSUME NEW w \in Works, RunEnds(w) PROVE KeptInv'
  <2>1. PICK status \in Ended :
          /\ thread' = Step("settle", w, "person", status)
          /\ IF EndingLine(status) = "nothing" THEN UNCHANGED told
             ELSE Tell(w, EndingLine(status))
          /\ status = "interrupted" => aborted[w] = "shutdown"
    BY <1>14 DEF RunEnds, StatusFor, Reason, Ended, TypeOK
  <2>2. /\ EndingLine(status) \in Outcome \cup {"nothing"}
        /\ EndingLine(status) = "nothing" <=> status = "interrupted"
    BY DEF EndingLine, Outcome, Ended
  <2>3. /\ w \in running /\ thread.at = "return"
        /\ UNCHANGED <<row, running, queue, shutdown, up, listed, accepted, cut, aborted>>
        /\ \A v : Placed(v)' <=> Placed(v)
    BY <1>14 DEF RunEnds, Placed
  <2>4. /\ status # "interrupted" => Answered(w)'
        /\ \A v \in Works : v # w => (Answered(v)' <=> Answered(v))
    BY <2>1, <2>2, LastWord DEF Answered
  <2>5. Placed(w)' /\ thread'.at = "settle" /\ thread'.work = w /\ thread'.note = status
    BY <2>1, <2>3 DEF Placed
  <2> QED
    BY <2>1, <2>3, <2>4, <2>5 DEF TypeOK
<1>15. ASSUME NEW w \in Works, Cancel(w) PROVE KeptInv'
  <2>1. CASE InQueue(w)
    <3>1. PICK i \in 1..Len(queue) : Dequeue(i, "person")
      BY <1>15, <2>1 DEF Cancel
    <3> QED
      BY <1>7, <1>15, <3>1 DEF Cancel
  <2> QED
    BY <1>13, <1>15, <2>1
<1>16. ASSUME NEW n \in Limits, SetLimit(n) PROVE KeptInv'
  <2>1. /\ thread.at = "return" /\ thread'.at = "pump"
        /\ UNCHANGED <<told, row, running, queue, shutdown, up, listed, accepted, cut, aborted>>
    BY <1>16 DEF SetLimit, RefillAfterSetting
  <2> QED
    BY <1>a, <2>1
<1>17. CASE ShutdownBegins \/ Drain
  <2>1. /\ thread' = thread /\ thread.at = "return" /\ shutdown' # "no"
        /\ UNCHANGED <<told, row, running, up, listed, accepted, cut>>
    BY <1>17 DEF ShutdownBegins, Drain, Interrupt
  <2>2. \A v : Answered(v)' <=> Answered(v)
    BY <2>1 DEF Answered
  <2> QED
    BY <1>0, <2>1, <2>2 DEF TypeOK
<1>18. CASE Exit \/ Crash
  <2>1. /\ UNCHANGED <<row, told, accepted>> /\ thread' = Idle /\ ~ up'
        /\ cut \subseteq cut' /\ aborted' = [w \in Works |-> "none"]
    BY <1>18 DEF Exit, Crash, Lost
  <2>2. \A v : Answered(v)' <=> Answered(v)
    BY <2>1 DEF Answered
  <2>3. \A w \in accepted \ cut' : ~ Pending(w) /\ ~ AtFor("dequeued", w) /\ ~ AtFor("say", w)
    <3>1. CASE thread.by = "recovery" \/ thread.at \in {"dequeued", "say"}
      BY <1>18, <3>1 DEF Exit, Crash, TypeOK
    <3>2. CASE thread.by # "recovery" /\ thread.at \notin {"dequeued", "say"}
      BY <1>0, <3>2 DEF TypeOK, LaneInv, LanePending
    <3> QED
      BY <3>1, <3>2
  <2>4. thread'.at = "return"
    BY <2>1
  <2> QED
    BY <1>0, <2>1, <2>2, <2>3, <2>4 DEF TypeOK
<1>19. CASE Boot
  <2>1. /\ UNCHANGED <<row, told, accepted, cut, aborted, shutdown>> /\ thread'.at = "recover"
        /\ listed' = {w \in Works : row[w] # "none" /\ row[w] \in Open}
        /\ running = {} /\ queue = << >> /\ thread.at = "return"
    BY <1>19 DEF Boot, Unfinished, StretchInv, LaneInv, LaneListed
  <2>2. \A v : ~ Placed(v) /\ (Answered(v)' <=> Answered(v))
    BY <2>1, EmptyQueue DEF Answered, Placed
  <2> QED
    BY <2>1, <2>2 DEF TypeOK, Open
<1>20. CASE UNCHANGED vars
  <2>1. \A v : (Placed(v)' <=> Placed(v)) /\ (Answered(v)' <=> Answered(v))
    BY <1>20 DEF Placed, Answered, vars
  <2> QED
    BY <1>20, <2>1 DEF vars
<1> QED
  BY <1>1, <1>2, <1>3, <1>4, <1>5, <1>6, <1>8, <1>9, <1>10, <1>11, <1>12,
     <1>13, <1>14, <1>15, <1>16, <1>17, <1>18, <1>19, <1>20
     DEF Next, ThreadStep
-----------------------------------------------------------------------------
(* Try again, and the re-runs of a restart.                                *)

LEMMA ClaimStart ==
  Init => ClaimInv
BY WorksAssumption DEF Init, ClaimInv, Idle, Step

LEMMA ClaimKept ==
  ASSUME TypeOK, StretchInv, LaneInv, ClaimInv, StretchInv', [Next]_vars
  PROVE  ClaimInv'
<1> USE WorksAssumption
<1> USE DEF ClaimInv, Place, AboutNone, Submission, Step, Idle, At, Ready,
            Caller, journal, lane, process, history, Pending, Retryable
<1>0. /\ \A w \in Works : row[w] = "none" <=> w \notin accepted
      /\ \A w \in running : row[w] = "running"
      /\ \A w \in Works : Has(queue, w) => row[w] = "queued"
      /\ \A w \in Works : row[w] \in {"none", "queued", "running"} =>
           ~ Retryable(w) /\ retriedAs[w] = NoWork
      /\ retriedAs \in [Works -> Works \cup {NoWork}]
  BY DEF LaneInv, LaneRows, TypeOK
<1>a. ASSUME UNCHANGED <<retriedAs, accepted>>, cut \subseteq cut',
             NEW x, \A v \in Works : v # x => row'[v] = row[v],
             x \in Works => \/ row[x] = "none" /\ row'[x] = "none"
                            \/ row[x] \in {"queued", "running"}
                            \/ row'[x] = row[x],
             \/ thread'.work \in {NoWork, x} /\ thread'.by # "retry"
                  /\ (x \in Works => row[x] \in Open)
             \/ thread'.work = thread.work /\ thread'.by # "retry"
                  /\ (Pending(thread.work)' => Pending(thread.work))
             \/ thread'.work = thread.work /\ thread'.note = thread.note
                  /\ thread'.by = thread.by
                  /\ (Pending(thread.work)' => Pending(thread.work)),
             thread.by = "retry" => thread'.by = "retry" \/ thread.note \in cut'
      PROVE  ClaimInv'
  BY <1>0, <1>a DEF Open
<1>1. CASE PumpStarts
  <2>0. PICK h : h = Head(queue)
    OBVIOUS
  <2>1. h \in Works /\ row[h] = "queued"
    BY <1>0, <1>1, <2>0, FrontStarts
  <2>2. \A w \in Works : w # h => row'[w] = row[w]
    BY <1>1, <2>0, <2>1, RowIs DEF PumpStarts, Moved
  <2>3. UNCHANGED <<thread, accepted, cut, retriedAs>>
    BY <1>1 DEF PumpStarts
  <2> QED
    BY <1>a, <2>1, <2>2, <2>3
<1>2. CASE PumpRests
  <2>1. /\ thread.at = "pump" /\ UNCHANGED <<row, retriedAs, accepted, cut>>
        /\ \/ thread.work = NoWork /\ thread' = Idle /\ thread.by = "person"
           \/ /\ thread'.at = "admit" /\ thread'.work = thread.work
              /\ thread'.note = thread.note /\ thread'.by = thread.by
    BY <1>2 DEF PumpRests, StretchInv
  <2> QED
    BY <2>1
<1>3. CASE Admit
  <2>0. PICK w : w = thread.work
    OBVIOUS
  <2>1. /\ w \in Works /\ thread.at = "admit"
        /\ AdmitRefuses \/ AdmitStarts(w) \/ AdmitWaits(w)
    BY <1>3, <2>0, AdmitCases
  <2>2. CASE AdmitRefuses
    <3>1. /\ thread'.at = "refused" /\ thread'.work = thread.work
          /\ thread'.note = thread.note /\ thread'.by = thread.by
          /\ UNCHANGED <<row, retriedAs, accepted, cut>>
      BY <2>2 DEF AdmitRefuses, StretchInv
    <3> QED
      BY <2>1, <3>1
  <2>3. CASE AdmitStarts(w) \/ AdmitWaits(w)
    <3>1. \A v \in Works : v # w => row'[v] = row[v]
      BY <2>1, <2>3, RowIs DEF AdmitStarts, AdmitWaits
    <3>2. /\ accepted' = accepted \cup {w} /\ cut' = cut /\ retriedAs' = retriedAs
          /\ thread'.by # "retry" /\ thread'.at \in {"say", "return"}
      BY <2>3 DEF AdmitStarts, AdmitWaits, AdmitTakes
    <3> QED
      BY <2>0, <2>1, <3>1, <3>2
  <2> QED
    BY <2>1, <2>2, <2>3
<1>4. CASE Refused
  <2>1. /\ thread.at = "refused" /\ UNCHANGED <<row, accepted, cut>>
    BY <1>4 DEF Refused
  <2>2. CASE thread.by = "retry" /\ ReleaseClaim(thread.note) /\ thread' = Idle
    <3>0. PICK n : n = thread.note
      OBVIOUS
    <3>1. /\ n \in Works /\ retriedAs' = [retriedAs EXCEPT ![n] = NoWork]
      BY <2>2, <3>0 DEF StretchInv, ReleaseClaim
    <3>2. /\ retriedAs'[n] = NoWork
          /\ \A v \in Works : v # n => retriedAs'[v] = retriedAs[v]
      BY <1>0, <3>1
    <3>3. thread'.by = "person" /\ thread'.at = "return"
      BY <2>2
    <3> QED
      BY <2>1, <2>2, <3>0, <3>2, <3>3
  <2>3. CASE thread.by # "retry" /\ UNCHANGED retriedAs /\ thread'.at \in {"return", "say"}
                /\ thread'.by # "retry"
    BY <2>1, <2>3
  <2> QED
    BY <1>4, <2>2, <2>3, RefusedCases
<1>5. CASE Settle
  <2>0. PICK w : w = thread.work
    OBVIOUS
  <2>1. /\ w \in Works /\ row[w] = "running" /\ thread.at = "settle"
    BY <1>0, <1>5, <2>0 DEF Settle, StretchInv, LaneInv, LaneThread, AtFor
  <2>2. /\ \A v \in Works : v # w => row'[v] = row[v]
        /\ UNCHANGED <<retriedAs, accepted, cut>>
        /\ thread'.work = NoWork /\ thread'.by = "person" /\ thread.by = "person"
    BY <1>5, <2>0, <2>1 DEF Settle, Moved, TypeOK, StretchInv
  <2> QED
    BY <1>a, <2>1, <2>2 DEF Open
<1>6. CASE SayDequeued \/ Say \/ RecoveryEnds \/ EmergencyStop
  <2>1. /\ UNCHANGED <<row, retriedAs, accepted>> /\ cut \subseteq cut'
        /\ thread.by # "retry" /\ thread'.by # "retry" /\ thread'.work = NoWork
    BY <1>6 DEF SayDequeued, Say, RecoveryEnds, EmergencyStop, StretchInv
  <2> QED
    BY <2>1
<1>7. ASSUME NEW i \in 1..Len(queue), NEW by, by # "retry", Dequeue(i, by),
             thread.by # "retry", UNCHANGED <<retriedAs, accepted, cut>>
      PROVE  ClaimInv'
  <2>0. PICK x : x = queue[i]
    OBVIOUS
  <2>1. x \in Works /\ row[x] = "queued"
    BY <1>0, <1>7, <2>0, OneLeaves
  <2>2. \A v \in Works : v # x => row'[v] = row[v]
    BY <1>7, <2>0, <2>1, RowIs DEF Dequeue, Moved
  <2>3. thread'.work = x /\ thread'.by # "retry"
    BY <1>7, <2>0 DEF Dequeue
  <2> QED
    BY <1>7, <1>a, <2>1, <2>2, <2>3 DEF Open
<1>8. CASE CancelBackground
  <2>0. thread.by # "retry"
    BY <1>8 DEF CancelBackground, StretchInv
  <2>1. CASE queue # << >>
    <3>1. 1 \in 1..Len(queue)
      BY <2>1, QueueFront DEF TypeOK
    <3> QED
      BY <1>7, <1>8, <2>0, <2>1, <3>1 DEF CancelBackground
  <2>2. CASE queue = << >>
    <3>1. UNCHANGED <<row, retriedAs, accepted, cut>> /\ thread' = Idle
      BY <1>8, <2>2 DEF CancelBackground
    <3> QED
      BY <2>0, <3>1
  <2> QED
    BY <2>1, <2>2
<1>9. ASSUME NEW w \in Works, RecoverOne(w) PROVE ClaimInv'
  <2>1. /\ row[w] \in Open /\ thread'.work = w /\ thread'.by = "recovery"
        /\ thread.by = "recovery"
        /\ UNCHANGED <<retriedAs, accepted, cut>>
    BY <1>9 DEF RecoverOne, EnterLane, LaneInv, LaneListed, StretchInv
  <2>2. \A v \in Works : v # w => row'[v] = row[v]
    BY <1>9, RowIs DEF RecoverOne
  <2> QED
    BY <1>a, <2>1, <2>2 DEF Open
<1>10. ASSUME NEW w \in Works, Submit(w) PROVE ClaimInv'
  <2>1. /\ row[w] = "none" /\ thread'.work = w /\ thread'.by = "person"
        /\ thread.by = "person"
        /\ UNCHANGED <<row, retriedAs, accepted, cut>>
    BY <1>10 DEF Submit, EnterLane, Fresh
  <2> QED
    BY <1>0, <2>1
<1>11. ASSUME NEW w \in Works, NEW v \in Works, Retry(v, w) PROVE ClaimInv'
  <2>1. /\ row[w] = "none" /\ thread'.work = w /\ thread'.by = "retry" /\ thread'.note = v
        /\ Retryable(v) /\ w # v
        /\ thread'.at \in Submission /\ thread.by = "person"
        /\ UNCHANGED <<row, accepted, cut>>
    BY <1>11 DEF Retry, EnterLane, Fresh
  <2>2. retriedAs'[v] = w /\ \A u \in Works : u # v => retriedAs'[u] = retriedAs[u]
    BY <1>0, <1>11 DEF Retry
  <2> QED
    BY <1>0, <2>1, <2>2
<1>12. ASSUME NEW w \in Works, Deadline(w) \/ RunEnds(w) \/ (Cancel(w) /\ ~ InQueue(w))
       PROVE ClaimInv'
  <2>1. /\ UNCHANGED <<row, retriedAs, accepted, cut>> /\ thread.by = "person"
        /\ thread'.by # "retry" /\ ~ thread'.at \in Submission
    BY <1>12 DEF Deadline, RunEnds, Cancel
  <2> QED
    BY <2>1
<1>13. ASSUME NEW w \in Works, Cancel(w) PROVE ClaimInv'
  <2>1. CASE InQueue(w)
    <3>1. PICK i \in 1..Len(queue) : Dequeue(i, "person")
      BY <1>13, <2>1 DEF Cancel
    <3>2. thread.by # "retry" /\ UNCHANGED <<retriedAs, accepted, cut>>
      BY <1>13 DEF Cancel
    <3> QED
      BY <1>7, <3>1, <3>2
  <2> QED
    BY <1>12, <1>13, <2>1
<1>14. CASE \/ \E n \in Limits : SetLimit(n)
            \/ ShutdownBegins \/ Drain \/ Boot
  <2>1. /\ UNCHANGED <<row, retriedAs, accepted, cut>> /\ thread.by # "retry"
        /\ thread'.by # "retry" /\ thread'.work = NoWork
    BY <1>14 DEF SetLimit, RefillAfterSetting, ShutdownBegins, Drain, Boot, StretchInv
  <2> QED
    BY <2>1
<1>15. CASE Exit \/ Crash
  <2>1. /\ UNCHANGED <<row, retriedAs, accepted>> /\ thread' = Idle
        /\ cut \subseteq cut'
        /\ thread.by = "retry" => thread.note \in cut'
    BY <1>15 DEF Exit, Crash, Lost, StretchInv
  <2>2. thread'.by = "person" /\ thread'.work = NoWork
    BY <2>1
  <2> QED
    BY <2>1, <2>2
<1>16. CASE UNCHANGED vars
  BY <1>16 DEF vars
<1> QED
  BY <1>1, <1>2, <1>3, <1>4, <1>5, <1>6, <1>8, <1>9, <1>10, <1>11, <1>12,
     <1>13, <1>14, <1>15, <1>16
     DEF Next, ThreadStep

LEMMA RerunStart ==
  Init => RerunInv
BY BoundsAssumption, EmptyQueue DEF Init, RerunInv, Pending, Idle, Step, Submission

LEMMA RerunKept ==
  ASSUME TypeOK, StretchInv, LaneInv, RerunInv, StretchInv', [Next]_vars
  PROVE  RerunInv'
<1> USE WorksAssumption, BoundsAssumption
<1> USE DEF RerunInv, Place, AboutNone, Submission, Step, Idle, At, Ready,
            Caller, journal, lane, process, history, Pending
<1>0. /\ \A w \in Works : row[w] = "none" <=> w \notin accepted
      /\ \A w \in Works : Has(queue, w) => row[w] = "queued"
      /\ starts \in [Works -> Nat] /\ attempt \in [Works -> Nat]
  BY DEF LaneInv, LaneRows, TypeOK
<1>a. ASSUME UNCHANGED <<starts, attempt, accepted>>,
             \A w \in Works : Has(queue', w) => Has(queue, w),
             \/ thread'.by # "recovery"
             \/ ~ (thread'.at \in Submission)
             \/ /\ thread'.work = thread.work /\ thread'.by = thread.by
                /\ thread.at \in Submission
      PROVE  RerunInv'
  BY <1>0, <1>a
<1>1. CASE PumpStarts
  <2>0. PICK h : h = Head(queue)
    OBVIOUS
  <2>1. /\ h \in Works /\ Has(queue, h) /\ ~ Has(queue', h)
        /\ \A w : Has(queue', w) => Has(queue, w)
    BY <1>1, <2>0, FrontStarts DEF LaneInv, LaneRows
  <2>2. /\ starts'[h] = starts[h] + 1
        /\ \A w \in Works : w # h => starts'[w] = starts[w]
        /\ UNCHANGED <<thread, accepted, attempt>>
        /\ h \in accepted
    BY <1>0, <1>1, <2>0, <2>1 DEF PumpStarts, StartRun
  <2> QED
    BY <1>0, <2>1, <2>2
<1>2. CASE PumpRests
  <2>1. /\ thread.at = "pump" /\ UNCHANGED <<starts, attempt, accepted, queue>>
        /\ \/ thread' = Idle
           \/ thread'.work = thread.work /\ thread'.by = thread.by
    BY <1>2 DEF PumpRests, StretchInv
  <2> QED
    BY <1>a, <2>1
<1>3. CASE Admit
  <2>0. PICK w : w = thread.work
    OBVIOUS
  <2>1. /\ w \in Works /\ thread.at = "admit"
        /\ AdmitRefuses \/ AdmitStarts(w) \/ AdmitWaits(w)
    BY <1>3, <2>0, AdmitCases
  <2>2. CASE AdmitRefuses
    <3>1. /\ thread'.work = thread.work /\ thread'.by = thread.by
          /\ UNCHANGED <<starts, attempt, accepted, queue>>
      BY <2>2 DEF AdmitRefuses, StretchInv
    <3> QED
      BY <1>a, <2>1, <3>1
  <2>3. /\ thread.by = "recovery" => attempt[w] < MaxReruns
        /\ thread.by # "recovery" => starts[w] = 0
        /\ ~ Has(queue, w)
    BY <1>0, <2>0, <2>1 DEF LaneInv, LanePending, Placed
  <2>4. ASSUME AdmitTakes(w)
        PROVE  /\ attempt'[w] = IF thread.by = "recovery" THEN attempt[w] + 1 ELSE 0
               /\ \A v \in Works : v # w => attempt'[v] = attempt[v]
               /\ accepted' = accepted \cup {w}
               /\ thread'.at \notin Submission
    BY <1>0, <2>1, <2>4 DEF AdmitTakes
  <2>5. CASE AdmitStarts(w)
    <3>1. /\ AdmitTakes(w) /\ queue' = queue
          /\ starts'[w] = starts[w] + 1
          /\ \A v \in Works : v # w => starts'[v] = starts[v]
      BY <1>0, <2>1, <2>5 DEF AdmitStarts, StartRun
    <3> QED
      BY <1>0, <2>1, <2>3, <2>4, <3>1
  <2>6. CASE AdmitWaits(w)
    <3>1. AdmitTakes(w) /\ starts' = starts
      BY <2>6 DEF AdmitWaits
    <3>2. \A x : Has(queue', x) <=> Has(queue, x) \/ x = w
      BY <2>1, <2>6, QueueJoins DEF AdmitWaits, TypeOK
    <3> QED
      BY <1>0, <2>1, <2>3, <2>4, <3>1, <3>2
  <2> QED
    BY <2>1, <2>2, <2>5, <2>6
<1>4. CASE Refused
  <2>1. UNCHANGED <<starts, attempt, accepted, queue>>
    BY <1>4 DEF Refused
  <2>2. thread' = Idle \/ thread' = Step("say", thread.work, "recovery", "lost")
    BY <1>4, RefusedCases
  <2>3. thread'.at \in {"return", "say"}
    BY <2>2
  <2> QED
    BY <1>a, <2>1, <2>3
<1>5. CASE Settle \/ SayDequeued \/ RecoveryEnds \/ Say \/ EmergencyStop
  <2>1. /\ UNCHANGED <<starts, attempt, accepted, queue>>
        /\ thread'.by # "recovery" \/ thread'.at = "recover"
    BY <1>5 DEF Settle, SayDequeued, RecoveryEnds, Say, EmergencyStop
  <2> QED
    BY <1>a, <2>1
<1>6. CASE CancelBackground
  <2>1. CASE queue # << >>
    <3>1. 1 \in 1..Len(queue) /\ Dequeue(1, "recovery")
      BY <1>6, <2>1, QueueFront DEF CancelBackground, TypeOK
    <3>2. \A w : Has(queue', w) => Has(queue, w)
      BY <3>1, OneLeaves
    <3>3. UNCHANGED <<starts, attempt, accepted>> /\ thread'.at = "dequeued"
      BY <1>6, <3>1 DEF CancelBackground, Dequeue
    <3> QED
      BY <1>a, <3>2, <3>3
  <2>2. CASE queue = << >>
    <3>1. UNCHANGED <<starts, attempt, accepted, queue>> /\ thread'.at = "return"
      BY <1>6, <2>2 DEF CancelBackground
    <3> QED
      BY <1>a, <3>1
  <2> QED
    BY <2>1, <2>2
<1>7. ASSUME NEW w \in Works, RecoverOne(w) PROVE RerunInv'
  <2>1. /\ UNCHANGED <<starts, attempt, accepted, queue>>
        /\ thread'.work = w
        /\ attempt[w] < MaxReruns \/ thread'.at = "say"
    BY <1>7 DEF RecoverOne, EnterLane
  <2> QED
    BY <1>0, <2>1
<1>8. ASSUME NEW w \in Works, Submit(w) \/ \E v \in Works : Retry(v, w) PROVE RerunInv'
  <2>1. /\ UNCHANGED <<starts, attempt, accepted, queue>>
        /\ thread'.by # "recovery"
    BY <1>8 DEF Submit, Retry, EnterLane
  <2> QED
    BY <1>a, <2>1
<1>9. ASSUME NEW w \in Works, Deadline(w) \/ RunEnds(w) \/ (Cancel(w) /\ ~ InQueue(w))
      PROVE  RerunInv'
  <2>1. /\ UNCHANGED <<starts, attempt, accepted, queue>> /\ thread'.by # "recovery"
    BY <1>9 DEF Deadline, RunEnds, Cancel
  <2> QED
    BY <1>a, <2>1
<1>10. ASSUME NEW w \in Works, Cancel(w) PROVE RerunInv'
  <2>1. CASE InQueue(w)
    <3>1. PICK i \in 1..Len(queue) : Dequeue(i, "person")
      BY <1>10, <2>1 DEF Cancel
    <3>2. \A v : Has(queue', v) => Has(queue, v)
      BY <3>1, OneLeaves
    <3>3. UNCHANGED <<starts, attempt, accepted>> /\ thread'.at = "dequeued"
      BY <1>10, <3>1 DEF Cancel, Dequeue
    <3> QED
      BY <1>a, <3>2, <3>3
  <2> QED
    BY <1>9, <1>10, <2>1
<1>11. CASE (\E n \in Limits : SetLimit(n)) \/ Boot
  <2>1. /\ UNCHANGED <<starts, attempt, accepted, queue>>
        /\ thread'.by # "recovery" \/ thread'.at = "recover"
    BY <1>11 DEF SetLimit, RefillAfterSetting, Boot
  <2> QED
    BY <1>a, <2>1
<1>12. CASE ShutdownBegins \/ Drain \/ Exit \/ Crash
  <2>1. /\ UNCHANGED <<starts, attempt, accepted>> /\ queue' = << >>
        /\ thread'.by # "recovery"
    BY <1>12 DEF ShutdownBegins, Drain, Interrupt, Exit, Crash, Lost
  <2> QED
    BY <1>a, <2>1, EmptyQueue
<1>13. CASE UNCHANGED vars
  BY <1>13 DEF vars
<1> QED
  BY <1>1, <1>2, <1>3, <1>4, <1>5, <1>6, <1>7, <1>8, <1>9, <1>10, <1>11, <1>12, <1>13
     DEF Next, ThreadStep
-----------------------------------------------------------------------------
(* The invariant, and what follows from it.                                *)

\* Every state a node can reach satisfies the whole invariant.
THEOREM WorkSound == Spec => []WorkInv
<1>1. Init => WorkInv
  BY TypesStart, LaneStart, TellStart, KeptStart, ClaimStart, RerunStart DEF WorkInv
<1>2. WorkInv /\ [Next]_vars => WorkInv'
  <2> SUFFICES ASSUME WorkInv, [Next]_vars PROVE WorkInv'
    OBVIOUS
  <2>1. TypeOK' /\ StretchInv'
    BY TypesKept DEF WorkInv
  <2>2. LaneInv'
    BY <2>1, LaneKept DEF WorkInv
  <2>3. TellInv'
    BY <2>2, TellKept DEF WorkInv
  <2>4. KeptInv'
    BY <2>1, KeptKept DEF WorkInv
  <2>5. ClaimInv'
    BY <2>1, ClaimKept DEF WorkInv
  <2>6. RerunInv'
    BY <2>1, RerunKept DEF WorkInv
  <2> QED
    BY <2>1, <2>2, <2>3, <2>4, <2>5, <2>6 DEF WorkInv
<1> QED
  BY <1>1, <1>2, PTL DEF Spec

\* Every row and every piece of memory of the lane keeps its type.
THEOREM WorkTypes == Spec => []TypeOK
<1>1. WorkInv => TypeOK
  BY DEF WorkInv
<1> QED
  BY <1>1, WorkSound, PTL

\* A request has one place in the lane, the queue is within its limit, and no
\* request waits while there is room.
THEOREM LaneSound == Spec => []LaneIsSound
<1>1. WorkInv => LaneIsSound
  <2> SUFFICES ASSUME WorkInv PROVE LaneIsSound
    OBVIOUS
  <2>1. \A i \in 1..Len(queue) : queue[i] \in Works /\ Has(queue, queue[i])
    BY DEF WorkInv, TypeOK, Has
  <2>2. Ready => thread.at # "pump"
    BY DEF Ready, Idle, Step
  <2>3. Distinct(queue) /\ \A w \in Works : Has(queue, w) => w \notin running
    BY DEF WorkInv, LaneInv, LaneRows
  <2>4. /\ Len(queue) <= QueueLimit
        /\ Ready /\ queue # << >> => ~ (Cardinality(running) < limit)
    BY <2>2 DEF WorkInv, LaneInv, LaneRows, HasRoom
  <2> QED
    BY <2>1, <2>3, <2>4 DEF LaneIsSound, Distinct
<1> QED
  BY <1>1, WorkSound, PTL

\* The conversation is told at most once how a request ended, over any number
\* of restarts, unless one of them cut its last step.
THEOREM ToldOnceHolds == Spec => []ToldOnce
<1>1. WorkInv => ToldOnce
  <2> SUFFICES ASSUME WorkInv, NEW w \in Works \ cut
               PROVE  Cardinality(Outcomes(w)) <= 1
    BY DEF ToldOnce
  <2>1. Outcomes(w) = OutcomesOf(told[w])
    BY DEF Outcomes, OutcomesOf
  <2>2. OutcomesOf(told[w]) = {} \/ \E i \in Nat : OutcomesOf(told[w]) = {i}
    BY DEF WorkInv, TellInv, Answered
  <2>3. Cardinality(OutcomesOf(told[w])) = 0 \/ Cardinality(OutcomesOf(told[w])) = 1
    BY <2>2, FS_EmptySet, FS_Singleton
  <2> QED
    BY <2>1, <2>3
<1> QED
  BY <1>1, WorkSound, PTL

\* An accepted request is in the lane, was told how it ended, or is an open row
\* that the boot after the shutdown will find.
THEOREM NothingLost == Spec => []NothingIsLost
<1>1. WorkInv => NothingIsLost
  <2> SUFFICES ASSUME WorkInv, Ready, NEW w \in accepted \ cut
               PROVE  InLane(w) \/ Outcomes(w) # {} \/ (shutdown # "no" /\ row[w] \in Open)
    BY DEF NothingIsLost
  <2>1. /\ Outcomes(w) = OutcomesOf(told[w])
        /\ InLane(w) <=> Placed(w)
    BY DEF Outcomes, OutcomesOf, InLane, Placed, InQueue, Has
  <2>2. /\ thread.at = "return" /\ thread.by = "person" /\ up
        /\ ~ Pending(w) /\ ~ AtFor("dequeued", w) /\ ~ AtFor("say", w)
    BY DEF Ready, Idle, Step, Pending, AtFor, Submission
  <2>3. listed = {}
    BY <2>2 DEF WorkInv, LaneInv, LaneListed, Recovering
  <2> QED
    BY <2>1, <2>2, <2>3 DEF WorkInv, KeptInv, Answered
<1> QED
  BY <1>1, WorkSound, PTL

\* What a person stopped, and was told so, does not run again by itself.
THEOREM StopsStand == Spec => []StopStands
<1>1. WorkInv => StopStands
  <2> SUFFICES ASSUME WorkInv, NEW w \in Works \ cut, Outcomes(w) # {}
               PROVE  ~ InQueue(w) /\ (w \in running => thread.at = "settle")
    BY DEF StopStands
  <2>1. Answered(w)
    BY DEF Outcomes, OutcomesOf, Answered
  <2>2. row[w] \in Ended \/ thread.at = "settle"
    BY <2>1 DEF WorkInv, TellInv, AtFor
  <2>3. /\ w \in running => row[w] \notin Ended
        /\ Has(queue, w) => row[w] \notin Ended /\ w \notin running
    BY DEF WorkInv, LaneInv, LaneRows, Ended
  <2>4. AtFor("settle", w) => w \in running
    BY DEF WorkInv, LaneInv, LaneThread
  <2>5. row[w] \in Ended \/ AtFor("settle", w)
    BY <2>1 DEF WorkInv, TellInv
  <2> QED
    BY <2>2, <2>3, <2>4, <2>5, InQueueIsHas
<1> QED
  BY <1>1, WorkSound, PTL

\* A request that was tried again is over, and its new run was accepted.
THEOREM RetriesBacked == Spec => []RetryIsBacked
<1>1. WorkInv => RetryIsBacked
  <2> SUFFICES ASSUME WorkInv, Ready, NEW v \in Works \ cut, retriedAs[v] # NoWork
               PROVE  ~ InLane(v) /\ retriedAs[v] \in accepted
    BY DEF RetryIsBacked
  <2>1. retriedAs[v] \in accepted
    BY DEF WorkInv, ClaimInv, Ready, Idle, Step
  <2>2. row[v] \in {"failed", "stopped", "interrupted"}
    BY DEF WorkInv, ClaimInv, Retryable
  <2>3. v \notin running /\ ~ Has(queue, v)
    BY <2>2 DEF WorkInv, LaneInv, LaneRows
  <2> QED
    BY <2>1, <2>3, InQueueIsHas DEF InLane
<1> QED
  BY <1>1, WorkSound, PTL

\* However often the process fails, a request starts once and is re-run at most
\* MAX_RERUNS times.
THEOREM RerunsBounded == Spec => []RerunIsBounded
<1>1. WorkInv => RerunIsBounded
  <2> SUFFICES ASSUME WorkInv, NEW w \in Works PROVE starts[w] <= 1 + MaxReruns
    BY DEF RerunIsBounded
  <2>1. starts[w] \in Nat /\ attempt[w] \in Nat /\ MaxReruns \in Nat
    BY BoundsAssumption DEF WorkInv, TypeOK
  <2>2. starts[w] <= attempt[w] + 1 /\ attempt[w] <= MaxReruns
    BY DEF WorkInv, RerunInv
  <2> QED
    BY <2>1, <2>2
<1> QED
  BY <1>1, WorkSound, PTL

\* A run starts within the limit of the moment, and the front of the queue
\* starts before anything behind it.
THEOREM StartsOrderly == Spec => StartsAreOrderly
<1> DEFINE Orderly == /\ ~ (running' \subseteq running) => Cardinality(running') <= limit
                      /\ queue # << >> /\ up' => running' \ running \subseteq {queue[1]}
<1>1. ASSUME WorkInv, [Next]_vars PROVE [Orderly]_vars
  <2>0. TypeOK /\ StretchInv
    BY <1>1 DEF WorkInv
  <2>a. ASSUME running' \subseteq running PROVE Orderly
    BY <2>a
  <2>b. ASSUME NEW w \in Works, HasRoom, StartRun(w) PROVE Cardinality(running') <= limit
    <3>1. /\ Cardinality(running') <= Cardinality(running) + 1
          /\ Cardinality(running) \in Nat
      BY <2>0, <2>b, RunStarts
    <3>2. Cardinality(running') \in Nat
      BY <2>0, <2>b, RunStarts, FS_CardinalityType
    <3>3. limit \in Nat
      BY <2>0, BoundsAssumption DEF TypeOK
    <3> QED
      BY <2>b, <3>1, <3>2, <3>3 DEF HasRoom
  <2>1. CASE PumpStarts
    <3>1. /\ Head(queue) \in Works /\ Head(queue) = queue[1]
          /\ HasRoom /\ StartRun(Head(queue))
      BY <2>0, <2>1, FrontStarts, QueueFront DEF PumpStarts, TypeOK
    <3>2. running' = running \cup {queue[1]}
      BY <3>1 DEF StartRun
    <3> QED
      BY <2>b, <3>1, <3>2
  <2>2. CASE Admit
    <3>1. thread.work \in Works
          /\ (AdmitRefuses \/ AdmitStarts(thread.work) \/ AdmitWaits(thread.work))
      BY <2>0, <2>2, AdmitCases
    <3>2. CASE AdmitStarts(thread.work)
      BY <2>b, <3>1, <3>2 DEF AdmitStarts
    <3>3. CASE AdmitRefuses \/ AdmitWaits(thread.work)
      BY <2>a, <3>3 DEF AdmitRefuses, AdmitWaits, lane
    <3> QED
      BY <3>1, <3>2, <3>3
  <2>3. CASE ~ PumpStarts /\ ~ Admit
    <3>1. CASE CancelBackground
      BY <2>a, <3>1 DEF CancelBackground, Dequeue
    <3>2. ASSUME NEW w \in Works, Cancel(w) PROVE Orderly
      BY <2>a, <3>2 DEF Cancel, Dequeue
    <3>3. ASSUME NEW w \in Works, RecoverOne(w) PROVE Orderly
      BY <2>a, <3>3 DEF RecoverOne, lane
    <3>4. CASE PumpRests \/ Refused \/ Settle \/ SayDequeued \/ RecoveryEnds \/ Say
      BY <2>a, <3>4 DEF PumpRests, Refused, Settle, SayDequeued, RecoveryEnds, Say, lane
    <3>5. CASE \E w \in Works : Submit(w) \/ (\E v \in Works : Retry(v, w))
                                \/ Deadline(w) \/ RunEnds(w)
      BY <2>a, <3>5 DEF Submit, Retry, Deadline, RunEnds, lane
    <3>6. CASE \/ \E n \in Limits : SetLimit(n)
               \/ EmergencyStop \/ ShutdownBegins \/ Drain \/ Exit \/ Crash \/ Boot
      BY <2>a, <3>6 DEF SetLimit, EmergencyStop, ShutdownBegins, Drain, Interrupt, Exit,
         Crash, Lost, Boot, lane
    <3> QED
      BY <2>3, <3>1, <3>2, <3>3, <3>4, <3>5, <3>6, <1>1 DEF Next, ThreadStep
  <2> QED
    BY <2>1, <2>2, <2>3
<1> QED
  BY <1>1, WorkSound, PTL DEF Spec, StartsAreOrderly
=============================================================================
