--------------------------- MODULE HandOverProofs ---------------------------
(* PeerDelegation implements HandOverPromise while the pairing lasts, for  *)
(* every value of its other constants.                                     *)
EXTENDS PeerDelegationProofs

Doing == {"queued", "resolving", "parked", "running", "cancel_requested"}

\* What the peer's dispatcher holds is under way, and a boot finds it empty.
HeldInv ==
  /\ \A t \in held : work[t] \in Interrupted
  /\ thread["peer"].at \in {"boot", "answer_boot"} => held = {}

\* A hand-over is taken, and its work begins.
Begins(t) ==
  /\ \E x \in wire["home"] :
       ReceiveDelegate(x) /\ out["home"][x].task = t
  /\ work[t] = "none"
  /\ verdict[t] # "refused"

\* What a step may make of the work of a task.
Moves(t, w) ==
  \/ Begins(t) /\ w = "queued"
  \/ work[t] \in Doing /\ w \in Doing \cup Settled
  \/ work[t] = "uncertain" /\ w = "cancelled"

WorkStep ==
  \E t \in Tasks : \E w : work' = [work EXCEPT ![t] = w] /\ Moves(t, w)

\* What a stop makes of the work of a task.
LEMMA StopMoves ==
  ASSUME LinkType, HeldInv, NEW t \in Tasks
  PROVE  /\ AfterStop(t) = work[t] \/ Moves(t, AfterStop(t))
         /\ t \in held => AfterStop(t) \in Interrupted
<1>1. work[t] \in PeerState /\ (t \in held => work[t] \in Interrupted)
  BY DEF LinkType, HereType, HeldInv
<1> QED
  BY <1>1
  DEF AfterStop, Moves, Doing, Settled, Terminal, PeerState, HomeState,
      Interrupted

\* Only the peer's own actions, and the requests it handles, change the work.
LEMMA WorkCases ==
  ASSUME LinkType, StartInv, HeldInv, [Next]_vars
  PROVE  work' = work \/ (WorkStep /\ task' = task)
<1>1. /\ thread \in [Node -> StretchType]
      /\ work \in [Tasks -> PeerState]
      /\ held \subseteq Tasks
      /\ At("peer", "resolve") \/ At("peer", "ready")
           => thread["peer"].task \in Tasks
  BY DEF LinkType, HereType, References, Intends, At, Node
<1>2. CASE UNCHANGED vars
  BY <1>2 DEF vars, databases
<1>3. CASE Home
  BY <1>3
  DEF Home, databases, Notify, SettleLetter, HandOver, AskStop, ReceiveResult
<1>4. CASE \E n \in Node : Link(n)
  BY <1>4, LinkLeavesWork
<1>5. CASE Peer
  <2>1. CASE Resolve
    BY <1>1, <2>1 DEF Resolve, StartInv, WorkStep, Moves, Doing
  <2>2. CASE ReadyHere
    BY <1>1, <2>2 DEF ReadyHere, StartInv, WorkStep, Moves, Doing
  <2>3. CASE Answer
    BY <2>3 DEF Answer
  <2>4. CASE Boot
    BY <2>4 DEF Boot, WorkStep, Moves, Doing, Interrupted, Settled
  <2>5. ASSUME NEW t \in Tasks, CapabilityReady(t) PROVE WorkStep /\ task' = task
    BY <2>5 DEF CapabilityReady, WorkStep, Moves, Doing
  <2>6. ASSUME NEW t \in Tasks, StartTask(t) PROVE work' = work
    BY <2>6 DEF StartTask, databases
  <2>7. ASSUME NEW t \in Tasks, WorkerEnds(t) PROVE WorkStep /\ task' = task
    <3>1. work[t] \in Doing
      BY <2>7 DEF WorkerEnds, HeldInv, Interrupted, Doing
    <3>2. PICK outcome \in Reports(work[t]) :
            work' = [work EXCEPT ![t] = outcome]
      BY <2>7 DEF WorkerEnds
    <3>3. outcome \in Settled
      BY DEF Reports, Settled, Terminal
    <3> QED
      BY <2>7, <3>1, <3>2, <3>3 DEF WorkerEnds, WorkStep, Moves
  <2>8. ASSUME NEW t \in Tasks, OwnerStops(t) PROVE WorkStep /\ task' = task
    BY <2>8, StopMoves DEF OwnerStops, WorkStep
  <2>9. ASSUME NEW x \in wire["home"], ReceiveDelegate(x)
        PROVE  work' = work \/ (WorkStep /\ task' = task)
    <3> DEFINE t == out["home"][x].task
    <3>1. t \in Tasks
      BY <2>9, RequestTask
    <3>2. \/ work' = work
          \/ /\ work' = [work EXCEPT ![t] = "queued"]
             /\ work[t] = "none" /\ verdict[t] # "refused"
      BY <2>9 DEF ReceiveDelegate, Existing
    <3>3. task' = task
      BY <2>9 DEF ReceiveDelegate
    <3> QED
      BY <2>9, <3>1, <3>2, <3>3 DEF WorkStep, Moves, Begins
  <2>10. ASSUME NEW x \in wire["home"], ReceiveCancel(x)
         PROVE  work' = work \/ (WorkStep /\ task' = task)
    <3> DEFINE t == out["home"][x].task
    <3>1. t \in Tasks
      BY <2>10, RequestTask
    <3>2. work' = [work EXCEPT ![t] = AfterStop(t)] /\ task' = task
      BY <2>10 DEF ReceiveCancel
    <3>3. AfterStop(t) = work[t] => work' = work
      BY <1>1, <3>1, <3>2
    <3> HIDE DEF t
    <3> QED
      BY <3>1, <3>2, <3>3, StopMoves DEF WorkStep
  <2> QED
    BY <1>5, <2>1, <2>2, <2>3, <2>4, <2>5, <2>6, <2>7, <2>8, <2>9, <2>10 DEF Peer
<1> QED
  BY <1>2, <1>3, <1>4, <1>5 DEF Next

\* A delivery pass leaves what is held alone, unless a crash empties it.
LEMMA LinkLeavesHeld ==
  ASSUME LinkType, NEW n \in Node, Link(n)
  PROVE  \/ held' = {}
         \/ /\ held' = held
            /\ \/ thread'["peer"] = thread["peer"]
               \/ thread'["peer"].at \in {"return", "skip", "record"}
<1>1. thread \in [Node -> StretchType] /\ "peer" \in Node
  BY DEF LinkType, HereType, Node
<1>2. CASE Crash(n)
  <2>1. CASE n = "peer"
    BY <1>2, <2>1 DEF Crash
  <2>2. CASE n # "peer"
    BY <1>1, <1>2, <2>2 DEF Crash, Go
  <2> QED
    BY <2>1, <2>2
<1>3. CASE \E x \in wire[Other(n)] : ReceiveSkip(n, x)
  BY <1>1, <1>3 DEF ReceiveSkip, Go, Stretch
<1>4. CASE Acknowledged(n)
  BY <1>1, <1>4 DEF Acknowledged, Go, Stretch
<1>5. CASE DeliveryFailed(n)
  <2>1. \/ thread' = thread
        \/ Go(n, Stretch("skip", NoTask, "none", FALSE, 0))
    BY <1>5 DEF DeliveryFailed
  <2>2. held' = held
    BY <1>5 DEF DeliveryFailed
  <2> QED
    BY <1>1, <2>1, <2>2 DEF Go, Stretch
<1>6. CASE QueueSkip(n) \/ Record(n)
  <2>1. Go(n, Idle) /\ held' = held
    BY <1>6 DEF QueueSkip, Record
  <2> QED
    BY <1>1, <2>1 DEF Go, Idle, Stretch
<1>7. CASE \/ Attempt(n) \/ Lose(n) \/ HoldBack(n) \/ EndPairing(n)
           \/ GiveUpRevoked(n) \/ Refuse(n)
  BY <1>7
  DEF Attempt, Lose, HoldBack, EndPairing, GiveUpRevoked, Refuse, memory
<1> QED
  BY <1>2, <1>3, <1>4, <1>5, <1>6, <1>7 DEF Link

\* Every action keeps HeldInv.
LEMMA HeldPreserved ==
  ASSUME LinkType, StartInv, HeldInv, [Next]_vars
  PROVE  HeldInv'
<1>1. /\ thread \in [Node -> StretchType]
      /\ work \in [Tasks -> PeerState]
      /\ held \subseteq Tasks
      /\ "peer" \in Node /\ "home" \in Node
      /\ At("peer", "resolve") \/ At("peer", "ready")
           => thread["peer"].task \in Tasks
  BY DEF LinkType, HereType, References, Intends, At, Node
<1> USE <1>1
<1>2. CASE UNCHANGED vars
  BY <1>2 DEF vars, databases, memory, HeldInv
<1>3. CASE Home
  BY <1>3
  DEF Home, databases, memory, HeldInv, Go, Notify, SettleLetter, HandOver,
      AskStop, ReceiveResult
<1>4. ASSUME NEW n \in Node, Link(n) PROVE HeldInv'
  <2>1. work' = work
    BY <1>4, LinkLeavesWork
  <2> QED
    BY <1>4, <2>1, LinkLeavesHeld DEF HeldInv
<1>5. CASE Resolve
  <2>1. work[thread["peer"].task] = "queued"
    BY <1>5 DEF Resolve, StartInv
  <2>2. held' = held /\ thread'["peer"].at = "ready"
    BY <1>5 DEF Resolve, Go, StretchType
  <2> QED
    BY <1>5, <2>1, <2>2 DEF Resolve, HeldInv, Interrupted
<1>6. CASE ReadyHere
  <2>1. work[thread["peer"].task] = "resolving"
    BY <1>6 DEF ReadyHere, StartInv
  <2>2. held' = held /\ thread'["peer"].at = "record"
    BY <1>6 DEF ReadyHere, Go, StretchType
  <2>3. \A t \in Tasks \ {thread["peer"].task} : work'[t] = work[t]
    BY <1>6 DEF ReadyHere
  <2> QED
    BY <2>1, <2>2, <2>3 DEF HeldInv, Interrupted
<1>7. CASE Answer
  <2>1. AfterAnswer(thread["peer"]).at \in {"boot", "answer_boot"}
          => thread["peer"].at = "answer_boot"
    BY DEF AfterAnswer, Idle, Stretch, StretchType
  <2>2. thread'["peer"] = AfterAnswer(thread["peer"])
    BY <1>7 DEF Answer, Go
  <2> QED
    BY <1>7, <2>1, <2>2 DEF Answer, HeldInv
<1>8. CASE Boot
  <2>1. held = {}
    BY <1>8 DEF Boot, At, HeldInv
  <2> QED
    BY <1>8, <2>1 DEF Boot, HeldInv
<1>9. ASSUME NEW t \in Tasks, CapabilityReady(t) PROVE HeldInv'
  <2>1. thread["peer"].at = "return" /\ thread' = thread
    BY <1>9 DEF CapabilityReady, Ready, Idle, Stretch
  <2> QED
    BY <1>9, <2>1 DEF CapabilityReady, Hold, HeldInv, Interrupted
<1>10. ASSUME NEW t \in Tasks, StartTask(t) PROVE HeldInv'
  <2>1. thread["peer"].at = "return" /\ thread' = thread
    BY <1>10 DEF StartTask, Ready, Idle, Stretch
  <2> QED
    BY <1>10, <2>1 DEF StartTask, Hold, databases, HeldInv, Interrupted
<1>11. ASSUME NEW t \in Tasks, WorkerEnds(t) PROVE HeldInv'
  <2>1. /\ held' = held \ {t}
        /\ \A u \in Tasks \ {t} : work'[u] = work[u]
        /\ thread'["peer"].at = "answer"
    BY <1>11 DEF WorkerEnds, Go, Stretch
  <2> QED
    BY <2>1 DEF HeldInv
<1>12. ASSUME NEW t \in Tasks, OwnerStops(t) PROVE HeldInv'
  <2>1. thread["peer"].at = "return" /\ thread' = thread /\ held' = held
    BY <1>12 DEF OwnerStops, Ready, Idle, Stretch, memory
  <2> QED
    BY <1>12, <2>1, StopMoves DEF OwnerStops, HeldInv
<1>13. ASSUME NEW x \in wire["home"], ReceiveDelegate(x) PROVE HeldInv'
  <2> DEFINE t == out["home"][x].task
  <2>1. t \in Tasks
    BY <1>13, RequestTask
  <2>2. \/ work' = work
        \/ work[t] = "none" /\ work' = [work EXCEPT ![t] = "queued"]
    BY <1>13 DEF ReceiveDelegate, Existing
  <2>3. held' = held
    BY <1>13 DEF ReceiveDelegate
  <2>4. \E at \in {"resolve", "record", "answer"} : \E o :
          Go("peer", Stretch(at, t, o, FALSE, x))
    BY <1>13 DEF ReceiveDelegate
  <2>5. thread'["peer"].at \in {"resolve", "record", "answer"}
    BY <2>4 DEF Go, Stretch
  <2> HIDE DEF t
  <2> QED
    BY <2>1, <2>2, <2>3, <2>5 DEF HeldInv, Interrupted
<1>14. ASSUME NEW x \in wire["home"], ReceiveCancel(x) PROVE HeldInv'
  <2> DEFINE t == out["home"][x].task
  <2>1. t \in Tasks
    BY <1>14, RequestTask
  <2>2. /\ work' = [work EXCEPT ![t] = AfterStop(t)]
        /\ held' = held
        /\ thread'["peer"].at \in {"answer", "record"}
    BY <1>14 DEF ReceiveCancel, Go, Stretch
  <2> HIDE DEF t
  <2> QED
    BY <2>1, <2>2, StopMoves DEF HeldInv
<1> QED
  BY <1>2, <1>3, <1>4, <1>5, <1>6, <1>7, <1>8, <1>9, <1>10, <1>11, <1>12, <1>13,
     <1>14
  DEF Next, Peer

\* HeldInv is an invariant of PeerDelegation.
LEMMA HeldCorrect == Spec => []HeldInv
<1>1. Init => HeldInv
  BY DEF Init, HeldInv, Idle, Stretch, Node
<1> QED
  BY <1>1, LinkCorrect, StartCorrect, HeldPreserved, PTL DEF Spec

-----------------------------------------------------------------------------
(* What is handed over.                                                    *)

\* What may change the state of a task at home.
LEMMA TaskCases ==
  ASSUME [Next]_vars
  PROVE  \/ task' = task
         \/ \E t \in Tasks : HandOver(t) \/ AskStop(t)
         \/ SettleLetter
         \/ \E x \in wire["peer"] : ReceiveResult(x)
         \/ \E n \in Node : \E x \in wire[Other(n)] : ReceiveSkip(n, x)
<1>1. CASE UNCHANGED vars
  BY <1>1 DEF vars, databases
<1>2. CASE Home
  BY <1>2 DEF Home, Notify
<1>3. CASE Peer
  BY <1>3
  DEF Peer, databases, Resolve, ReadyHere, Answer, Boot, CapabilityReady,
      StartTask, WorkerEnds, OwnerStops, ReceiveDelegate, ReceiveCancel
<1>4. CASE \E n \in Node : Link(n)
  BY <1>4
  DEF Link, databases, Attempt, Lose, Acknowledged, DeliveryFailed, HoldBack,
      QueueSkip, EndPairing, GiveUpRevoked, Refuse, Record, Crash
<1> QED
  BY <1>1, <1>2, <1>3, <1>4 DEF Next

\* A task that was handed over stays so.
LEMMA TaskStays ==
  ASSUME LinkType, [Next]_vars, NEW t \in Tasks, task[t] # "none"
  PROVE  task'[t] # "none"
<1>1. task \in [Tasks -> HomeState] /\ task[t] \in HomeState
  BY DEF LinkType, HereType
<1>2. CASE \E u \in Tasks : HandOver(u) \/ AskStop(u)
  BY <1>1, <1>2 DEF HandOver, AskStop
<1>3. CASE SettleLetter
  <2>1. PICK letter, u : task' = [task EXCEPT ![u] = AfterLetter(@, letter)]
    BY <1>3 DEF SettleLetter
  <2>2. AfterLetter(task[t], letter) # "none"
    BY DEF AfterLetter, Unknown
  <2> QED
    BY <1>1, <2>1, <2>2
<1>4. ASSUME NEW x \in wire["peer"], ReceiveResult(x) PROVE task'[t] # "none"
  <2> DEFINE row == out["peer"][x]
  <2>1. task' = [task EXCEPT ![row.task] =
                   AfterResult(@, row.outcome, row.ran)]
    BY <1>4 DEF ReceiveResult
  <2>2. row.outcome \in Settled
    BY <1>4
    DEF ReceiveResult, HandleKind, Other, LinkType, References, Says, Node
  <2> HIDE DEF row
  <2>3. AfterResult(task[t], row.outcome, row.ran) # "none"
    BY <2>2 DEF AfterResult, Settled, Terminal
  <2> QED
    BY <1>1, <2>1, <2>3
<1>5. ASSUME NEW n \in Node, NEW x \in wire[Other(n)], ReceiveSkip(n, x)
      PROVE  task'[t] # "none"
  BY <1>5 DEF ReceiveSkip, Unknown
<1> QED
  BY <1>2, <1>3, <1>4, <1>5, TaskCases

\* What the peer makes of a hand-over was settled before.
LEMMA VerdictStays ==
  ASSUME [Next]_vars
  PROVE  verdict' = verdict
<1>1. CASE UNCHANGED vars
  BY <1>1 DEF vars, databases
<1>2. CASE Home
  BY <1>2
  DEF Home, databases, Notify, SettleLetter, HandOver, AskStop, ReceiveResult
<1>3. CASE Peer
  BY <1>3
  DEF Peer, databases, Resolve, ReadyHere, Answer, Boot, CapabilityReady,
      StartTask, WorkerEnds, OwnerStops, ReceiveDelegate, ReceiveCancel
<1>4. CASE \E n \in Node : Link(n)
  BY <1>4
  DEF Link, databases, Attempt, Lose, Acknowledged, DeliveryFailed, HoldBack,
      QueueSkip, EndPairing, GiveUpRevoked, Refuse, Record, Crash, ReceiveSkip
<1> QED
  BY <1>1, <1>2, <1>3, <1>4 DEF Next

\* Where a new row of an outbox comes from, and that it is the only one.
LEMMA NewRow ==
  ASSUME LinkType, [Next]_vars, NEW n \in Node,
         NEW r \in DOMAIN out'[n] \ DOMAIN out[n]
  PROVE  /\ out'[n][r].state = "owed" /\ ~ out'[n][r].sent
         /\ \A o \in DOMAIN out'[n] \ DOMAIN out[n] : o = r
         /\ out'[n][r].kind = "delegate" =>
              n = "home" /\ HandOver(out'[n][r].task)
         /\ out'[n][r].kind = "result" =>
              /\ n = "peer" /\ Answer
              /\ out'[n][r].task = thread["peer"].task
              /\ out'[n][r].outcome = thread["peer"].outcome
              /\ out'[n][r].ran = thread["peer"].ran
<1>1. RowsType
  BY DEF LinkType
<1>2. ~ Marked(out[n], out'[n]) /\ out' # out
  BY DEF Marked
<1>3. CASE \E m \in Node : Marks(m)
  BY <1>1, <1>2, <1>3, MarkingSteps DEF Marks
<1>4. CASE \E m \in Node : Crash(m)
  BY <1>2, <1>4 DEF Crash, databases
<1>5. CASE \E m \in Node : QueueSkip(m)
  <2>1. PICK m \in Node : QueueSkip(m)
    BY <1>5
  <2>2. PICK last, k : Added(out[m], out'[m], k,
                             Envelope("skip", NoTask, "none", FALSE,
                                      out[m][last].seq, Skippable(out[m])))
    BY <1>1, <1>2, <2>1, SkipKeepsRows
  <2>3. m = n
    BY <1>1, <1>2, <2>1, SkipKeepsRows
  <2> DEFINE e == Envelope("skip", NoTask, "none", FALSE,
                           out[n][last].seq, Skippable(out[n]))
  <2>4. Added(out[n], out'[n], k, e)
    BY <2>2, <2>3
  <2>5. e.kind = "skip" /\ e.state = "owed" /\ ~ e.sent
    BY DEF Envelope
  <2> HIDE DEF e
  <2>6. out'[n][r] = e /\ \A o \in DOMAIN out'[n] \ DOMAIN out[n] : o = r
    BY <2>4 DEF Added
  <2> QED
    BY <2>5, <2>6
<1>6. CASE Sends /\ UNCHANGED <<sending, crashes>>
  <2>1. PICK m \in Node, e \in Row : \E k :
           /\ Added(out[m], out'[m], k, e)
           /\ \A o \in Node \ {m} : out'[o] = out[o]
           /\ e.state = "owed" /\ ~ e.sent
           /\ \/ HandOver(e.task) /\ e.kind = "delegate" /\ m = "home"
              \/ Notify /\ e.kind = "cancel.request" /\ m = "home"
              \/ Answer /\ e.kind = "result" /\ m = "peer"
                   /\ e.task = thread["peer"].task
                   /\ e.outcome = thread["peer"].outcome
                   /\ e.ran = thread["peer"].ran
    BY <1>6, SendsAdd
  <2>2. m = n
    BY <1>2, <2>1
  <2>3. out'[n][r] = e /\ \A o \in DOMAIN out'[n] \ DOMAIN out[n] : o = r
    BY <2>1, <2>2 DEF Added
  <2> QED
    BY <2>1, <2>2, <2>3
<1> QED
  BY <1>2, <1>3, <1>4, <1>5, <1>6, OutCases

\* A task has work at the peer, or a hand-over on its way, only if it was handed
\* over, and it was handed over once; a hand-over that is refused has no work.
HandedInv ==
  /\ \A t \in Tasks : work[t] # "none" => task[t] # "none"
  /\ \A t \in Tasks : verdict[t] = "refused" => work[t] = "none"
  /\ \A r \in DOMAIN out["home"] :
       out["home"][r].kind = "delegate" => task[out["home"][r].task] # "none"
  /\ \A r \in DOMAIN out["home"] : \A o \in DOMAIN out["home"] :
       /\ out["home"][r].kind = "delegate" /\ out["home"][o].kind = "delegate"
       /\ out["home"][r].task = out["home"][o].task
       => r = o

\* A hand-over whose work begins is on the wire.
LEMMA BegunIsHanded ==
  ASSUME LinkType, NEW t \in Tasks, Begins(t)
  PROVE  \E x \in DOMAIN out["home"] :
           /\ x \in wire["home"]
           /\ ReceiveDelegate(x)
           /\ out["home"][x].kind = "delegate"
           /\ out["home"][x].task = t
  BY DEF Begins, ReceiveDelegate, HandleKind, Other, LinkType, References, Node

\* Every action keeps HandedInv.
LEMMA HandedPreserved ==
  ASSUME LinkType, StartInv, HeldInv, HandedInv, [Next]_vars
  PROVE  HandedInv'
<1>1. /\ work \in [Tasks -> PeerState] /\ task \in [Tasks -> HomeState]
      /\ \A r \in DOMAIN out["home"] :
           out["home"][r].kind = "delegate" => out["home"][r].task \in Tasks
      /\ "home" \in Node
  BY DEF LinkType, HereType, References, Says, Node
<1>2. Grown(out["home"], out'["home"])
  BY <1>1, RowsPreserved, OutStepGrows
<1>3. ASSUME NEW t \in Tasks, Begins(t) PROVE task[t] # "none"
  BY <1>3, BegunIsHanded DEF HandedInv
<1>4. \A t \in Tasks : work'[t] # "none" => task'[t] # "none"
  <2>1. CASE work' = work
    BY <2>1, TaskStays DEF HandedInv
  <2>2. CASE WorkStep /\ task' = task
    <3>1. PICK t, w : /\ t \in Tasks
                      /\ work' = [work EXCEPT ![t] = w]
                      /\ Moves(t, w)
      BY <2>2 DEF WorkStep
    <3>2. task[t] # "none"
      BY <1>3, <3>1 DEF Moves, Doing, HandedInv
    <3> QED
      BY <1>1, <2>2, <3>1, <3>2 DEF HandedInv
  <2> QED
    BY <2>1, <2>2, WorkCases
<1>5. \A t \in Tasks : verdict'[t] = "refused" => work'[t] = "none"
  <2>1. CASE work' = work
    BY <2>1, VerdictStays DEF HandedInv
  <2>2. CASE WorkStep
    <3>1. PICK t, w : /\ t \in Tasks
                      /\ work' = [work EXCEPT ![t] = w]
                      /\ Moves(t, w)
      BY <2>2 DEF WorkStep
    <3>2. verdict[t] # "refused"
      BY <3>1 DEF Moves, Begins, Doing, HandedInv
    <3> QED
      BY <1>1, <3>1, <3>2, VerdictStays DEF HandedInv
  <2> QED
    BY <2>1, <2>2, WorkCases
<1>6. ASSUME NEW r \in DOMAIN out'["home"], r \notin DOMAIN out["home"],
             out'["home"][r].kind = "delegate"
      PROVE  /\ task'[out'["home"][r].task] # "none"
             /\ \A o \in DOMAIN out'["home"] :
                  /\ out'["home"][o].kind = "delegate"
                  /\ out'["home"][o].task = out'["home"][r].task
                  => o = r
  <2> DEFINE t == out'["home"][r].task
  <2>1. /\ HandOver(t)
        /\ \A o \in DOMAIN out'["home"] \ DOMAIN out["home"] : o = r
    BY <1>1, <1>6, NewRow
  <2>2. task[t] = "none" /\ task' = [task EXCEPT ![t] = "running"]
    BY <2>1 DEF HandOver
  <2>3. t \in Tasks
    BY RowsPreserved, ReferencesPreserved, <1>1, <1>6
    DEF References, Says
  <2>4. task'[t] = "running"
    BY <1>1, <2>2, <2>3
  <2> HIDE DEF t
  <2>5. \A o \in DOMAIN out["home"] :
          out'["home"][o].kind = "delegate" => out'["home"][o].task # t
    BY <1>2, <2>2 DEF Grown, HandedInv
  <2>6. \A o \in DOMAIN out'["home"] :
          out'["home"][o].kind = "delegate" /\ out'["home"][o].task = t => o = r
    BY <2>1, <2>5
  <2> QED
    BY <2>4, <2>6 DEF t
<1>7. ASSUME NEW r \in DOMAIN out["home"], out'["home"][r].kind = "delegate"
      PROVE  task'[out'["home"][r].task] # "none"
  BY <1>1, <1>2, <1>7, TaskStays DEF Grown, HandedInv
<1>8. ASSUME NEW r \in DOMAIN out["home"], NEW o \in DOMAIN out["home"],
             out'["home"][r].kind = "delegate",
             out'["home"][o].kind = "delegate",
             out'["home"][r].task = out'["home"][o].task
      PROVE  r = o
  BY <1>2, <1>8 DEF Grown, HandedInv
<1> QED
  BY <1>4, <1>5, <1>6, <1>7, <1>8 DEF HandedInv

\* Nothing is handed over at first.
LEMMA InitHandsNothing ==
  ASSUME Init
  PROVE  \A r \in DOMAIN out["home"] : out["home"][r].kind # "delegate"
<1> DEFINE first ==
      [Envelope("pair.confirm", NoTask, "none", FALSE, 1, {})
         EXCEPT !.state = "acked", !.tries = 1, !.sent = TRUE]
<1>1. first.kind = "pair.confirm"
  BY DEF Envelope
<1> HIDE DEF first
<1>2. out["home"] = <<first>>
  BY DEF Init, Node, first
<1> QED
  BY <1>1, <1>2

\* HandedInv is an invariant of PeerDelegation.
LEMMA HandedCorrect == Spec => []HandedInv
<1>1. Init => HandedInv
  BY InitHandsNothing DEF Init, HandedInv
<1> QED
  BY <1>1, LinkCorrect, StartCorrect, HeldCorrect, HandedPreserved, PTL DEF Spec

-----------------------------------------------------------------------------
(* What is answered.                                                       *)

\* An answer says how the work ended, or that there is none and never will be.
Truth(t, outcome, ran) ==
  /\ task[t] # "none"
  /\ ran /\ outcome \in Terminal => work[t] = outcome
  /\ ~ ran => outcome = "failed" /\ verdict[t] = "refused"

\* So does every answer that is queued, or about to be.
AnswerInv ==
  /\ thread["peer"].at \in {"answer", "answer_boot"} =>
       Truth(thread["peer"].task, thread["peer"].outcome, thread["peer"].ran)
  /\ \A r \in DOMAIN out["peer"] :
       out["peer"][r].kind = "result" =>
         Truth(out["peer"][r].task, out["peer"][r].outcome, out["peer"][r].ran)

\* Work that is over stays as it ended, and work that began stays begun.
LEMMA WorkStays ==
  ASSUME LinkType, StartInv, HeldInv, [Next]_vars, NEW t \in Tasks
  PROVE  /\ work[t] \in Terminal => work'[t] = work[t]
         /\ work[t] # "none" => work'[t] # "none"
<1>1. CASE work' = work
  BY <1>1
<1>2. CASE WorkStep
  <2>1. PICK u, w : /\ u \in Tasks
                    /\ work' = [work EXCEPT ![u] = w]
                    /\ Moves(u, w)
    BY <1>2 DEF WorkStep
  <2>2. work[u] \notin Terminal /\ w # "none"
    BY <2>1 DEF Moves, Begins, Doing, Settled, Terminal
  <2> QED
    BY <2>1, <2>2 DEF LinkType, HereType
<1> QED
  BY <1>1, <1>2, WorkCases

\* The same of the state after a step.
TruthAfter(t, outcome, ran) ==
  /\ task'[t] # "none"
  /\ ran /\ outcome \in Terminal => work'[t] = outcome
  /\ ~ ran => outcome = "failed" /\ verdict'[t] = "refused"

\* What was true of a task stays true.
LEMMA TruthStays ==
  ASSUME LinkType, StartInv, HeldInv, [Next]_vars, NEW t \in Tasks,
         NEW outcome, NEW ran \in BOOLEAN, Truth(t, outcome, ran)
  PROVE  TruthAfter(t, outcome, ran)
<1>1. task'[t] # "none"
  BY TaskStays DEF Truth
<1>2. verdict' = verdict
  BY VerdictStays
<1>3. work[t] \in Terminal => work'[t] = work[t]
  BY WorkStays
<1> QED
  BY <1>1, <1>2, <1>3 DEF Truth, TruthAfter

\* The steps after which the peer is about to answer.
LEMMA AnswersFrom ==
  ASSUME LinkType, [Next]_vars, thread'["peer"].at \in {"answer", "answer_boot"}
  PROVE  \/ thread'["peer"] = thread["peer"]
         \/ Boot
         \/ \E t \in Tasks : WorkerEnds(t)
         \/ \E x \in wire["home"] : ReceiveDelegate(x) \/ ReceiveCancel(x)
<1>1. thread \in [Node -> StretchType] /\ "peer" \in Node /\ "home" \in Node
  BY DEF LinkType, HereType, Node
<1>2. CASE UNCHANGED vars
  BY <1>2 DEF vars, memory
<1>3. CASE Home
  BY <1>1, <1>3
  DEF Home, memory, Go, Notify, SettleLetter, HandOver, AskStop, ReceiveResult
<1>4. CASE \E n \in Node : Link(n)
  BY <1>4, LinkLeavesWork
<1>5. CASE Resolve
  BY <1>1, <1>5 DEF Resolve, Go, StretchType
<1>6. CASE ReadyHere
  BY <1>1, <1>6 DEF ReadyHere, Go, StretchType
<1>7. CASE Answer
  <2>1. AfterAnswer(thread["peer"]).at \notin {"answer", "answer_boot"}
    BY <1>1 DEF AfterAnswer, Idle, Stretch, StretchType
  <2> QED
    BY <1>1, <1>7, <2>1 DEF Answer, Go
<1>8. CASE \E t \in Tasks : CapabilityReady(t) \/ StartTask(t) \/ OwnerStops(t)
  BY <1>8 DEF CapabilityReady, StartTask, OwnerStops, memory
<1> QED
  BY <1>2, <1>3, <1>4, <1>5, <1>6, <1>7, <1>8 DEF Next, Peer

\* Every action keeps AnswerInv.
LEMMA AnswerPreserved ==
  ASSUME LinkType, StartInv, HeldInv, HandedInv, AnswerInv, [Next]_vars
  PROVE  AnswerInv'
<1>1. /\ thread \in [Node -> StretchType]
      /\ work \in [Tasks -> PeerState]
      /\ "peer" \in Node /\ "home" \in Node
      /\ held \subseteq Tasks
      /\ thread["peer"].at \in {"answer", "answer_boot"}
           => thread["peer"].task \in Tasks
      /\ thread["peer"].ran \in BOOLEAN
  BY DEF LinkType, HereType, References, Intends, Node, StretchType
<1>2. ASSUME thread["peer"].at \in {"answer", "answer_boot"}
      PROVE  TruthAfter(thread["peer"].task, thread["peer"].outcome,
                        thread["peer"].ran)
  BY <1>1, <1>2, TruthStays DEF AnswerInv
<1> DEFINE now == thread'["peer"]
<1>3. ASSUME now.at \in {"answer", "answer_boot"}
      PROVE  TruthAfter(now.task, now.outcome, now.ran)
  <2>1. CASE now = thread["peer"]
    BY <1>2, <1>3, <2>1
  <2>2. CASE Boot
    <3>1. PICK t \in Tasks :
            /\ work[t] \in Interrupted
            /\ Go("peer", Stretch("answer_boot", t, "uncertain", TRUE, 0))
      BY <1>1, <1>3, <2>2 DEF Boot, Go, Idle, Stretch
    <3>2. now.task = t /\ now.outcome = "uncertain" /\ now.ran
      BY <1>1, <3>1 DEF Go, Stretch
    <3>3. task'[t] # "none"
      BY <3>1, TaskStays DEF HandedInv, Interrupted
    <3> QED
      BY <3>2, <3>3 DEF TruthAfter, Terminal
  <2>3. ASSUME NEW t \in Tasks, WorkerEnds(t)
        PROVE  TruthAfter(now.task, now.outcome, now.ran)
    <3>1. PICK outcome \in Reports(work[t]) :
            /\ work' = [work EXCEPT ![t] = outcome]
            /\ Go("peer", Stretch("answer", t, outcome, TRUE, 0))
      BY <2>3 DEF WorkerEnds
    <3>2. now.task = t /\ now.outcome = outcome /\ now.ran
      BY <1>1, <3>1 DEF Go, Stretch
    <3>3. task'[t] # "none"
      <4>1. work[t] # "none"
        BY <2>3 DEF WorkerEnds, HeldInv, Interrupted
      <4> QED
        BY <4>1, TaskStays DEF HandedInv
    <3> QED
      BY <1>1, <3>1, <3>2, <3>3 DEF TruthAfter
  <2>4. ASSUME NEW x \in wire["home"], ReceiveDelegate(x)
        PROVE  TruthAfter(now.task, now.outcome, now.ran)
    <3> DEFINE t == out["home"][x].task
    <3>1. t \in Tasks /\ x \in DOMAIN out["home"]
      BY <2>4, RequestTask
    <3>2. out["home"][x].kind = "delegate"
      BY <2>4 DEF ReceiveDelegate, HandleKind, Other
    <3>3. \/ \E at \in {"resolve", "record"} :
               Go("peer", Stretch(at, t, "none", FALSE, x))
          \/ /\ verdict[t] = "refused"
             /\ Go("peer", Stretch("answer", t, "failed", FALSE, x))
      BY <2>4 DEF ReceiveDelegate
    <3>4. /\ verdict[t] = "refused"
          /\ now.task = t /\ now.outcome = "failed" /\ ~ now.ran
      BY <1>1, <1>3, <3>3 DEF Go, Stretch
    <3>5. task'[t] # "none"
      BY <3>1, <3>2, TaskStays DEF HandedInv
    <3> QED
      BY <3>4, <3>5, VerdictStays DEF TruthAfter
  <2>5. ASSUME NEW x \in wire["home"], ReceiveCancel(x)
        PROVE  TruthAfter(now.task, now.outcome, now.ran)
    <3> DEFINE t == out["home"][x].task
    <3>1. t \in Tasks
      BY <2>5, RequestTask
    <3>2. /\ work' = [work EXCEPT ![t] = AfterStop(t)]
          /\ now.task = t /\ now.outcome = "cancelled" /\ now.ran
          /\ now.at = "answer" => AfterStop(t) = "cancelled"
          /\ now.at \in {"answer", "record"}
          /\ now.at = "answer" => work[t] # "cancelled"
      BY <1>1, <2>5 DEF ReceiveCancel, Go, Stretch
    <3> HIDE DEF t
    <3>3. work[t] # "none" /\ work'[t] = "cancelled"
      BY <1>1, <1>3, <3>1, <3>2 DEF AfterStop
    <3>4. task'[t] # "none"
      BY <3>1, <3>3, TaskStays DEF HandedInv
    <3> QED
      BY <3>2, <3>3, <3>4 DEF TruthAfter
  <2> QED
    BY <1>3, <2>1, <2>2, <2>3, <2>4, <2>5, AnswersFrom
<1>4. ASSUME NEW r \in DOMAIN out'["peer"], out'["peer"][r].kind = "result"
      PROVE  TruthAfter(out'["peer"][r].task, out'["peer"][r].outcome,
                        out'["peer"][r].ran)
  <2>1. CASE r \in DOMAIN out["peer"]
    <3>1. Grown(out["peer"], out'["peer"])
      BY <1>1, RowsPreserved, OutStepGrows
    <3>2. /\ out["peer"][r].kind = "result"
          /\ out'["peer"][r].task = out["peer"][r].task
          /\ out'["peer"][r].outcome = out["peer"][r].outcome
          /\ out'["peer"][r].ran = out["peer"][r].ran
      BY <1>4, <2>1, <3>1 DEF Grown
    <3>3. out["peer"][r].task \in Tasks
      BY <1>1, <2>1, <3>2 DEF LinkType, References, Says
    <3>4. out["peer"][r].ran \in BOOLEAN
      BY <1>1, <2>1, RowsAreRows DEF LinkType, RowsType, Row
    <3> QED
      BY <2>1, <3>2, <3>3, <3>4, TruthStays DEF AnswerInv
  <2>2. CASE r \notin DOMAIN out["peer"]
    <3>1. /\ Answer
          /\ out'["peer"][r].task = thread["peer"].task
          /\ out'["peer"][r].outcome = thread["peer"].outcome
          /\ out'["peer"][r].ran = thread["peer"].ran
      BY <1>1, <1>4, <2>2, NewRow
    <3>2. thread["peer"].at \in {"answer", "answer_boot"}
      BY <3>1 DEF Answer
    <3> QED
      BY <1>2, <3>1, <3>2
  <2> QED
    BY <2>1, <2>2
<1> QED
  BY <1>3, <1>4 DEF AnswerInv, Truth, TruthAfter

\* AnswerInv is an invariant of PeerDelegation.
LEMMA AnswerCorrect == Spec => []AnswerInv
<1>1. Init => AnswerInv
  <2> SUFFICES ASSUME Init PROVE AnswerInv
    OBVIOUS
  <2>1. out["peer"] = << >> /\ thread["peer"].at = "return"
    BY DEF Init, Node, Idle, Stretch
  <2> QED
    BY <2>1 DEF AnswerInv
<1> QED
  BY <1>1, LinkCorrect, StartCorrect, HeldCorrect, HandedCorrect,
     AnswerPreserved, PTL
  DEF Spec

-----------------------------------------------------------------------------
(* What was acted on.                                                      *)

\* The peer's cursor moves forward only, and a hand-over whose work began was
\* sent and is not ahead of it.
ActedInv ==
  /\ cursor["peer"] # 0
  /\ thread["peer"].row # 0 =>
       out["home"][thread["peer"].row].seq > cursor["peer"]
  /\ \A r \in DOMAIN out["home"] :
       /\ out["home"][r].kind = "delegate"
       /\ work[out["home"][r].task] # "none"
       => out["home"][r].sent /\ out["home"][r].seq <= cursor["peer"] + 1

\* A request that is handled is the next the cursor may take.
LEMMA HandledIsNext ==
  ASSUME LinkType, ActedInv, NEW x \in wire["home"], Handle("peer", x)
  PROVE  /\ out["home"][x].seq > cursor["peer"]
         /\ out["home"][x].kind # "skip"
              => out["home"][x].seq <= cursor["peer"] + 1
<1>1. /\ x \in DOMAIN out["home"] /\ out["home"] \in Seq(Row)
      /\ cursor["peer"] \in Nat
  BY DEF LinkType, References, RowsType, HereType, Node
<1>2. out["home"][x].seq \in Nat
  BY <1>1, RowsAreRows DEF Row
<1>3. Turned("peer", x) = "none" /\ cursor["peer"] # 0 /\ Other("peer") = "home"
  BY DEF Handle, ActedInv, Other
<1> QED
  BY <1>1, <1>2, <1>3 DEF Turned, Answered

\* A hand-over whose work begins is handled, and it is the only one.
LEMMA BeginsOne ==
  ASSUME LinkType, HandedInv, NEW t \in Tasks, Begins(t),
         NEW r \in DOMAIN out["home"],
         out["home"][r].kind = "delegate", out["home"][r].task = t
  PROVE  r \in wire["home"] /\ ReceiveDelegate(r)
BY BegunIsHanded DEF HandedInv

\* Work begins only where it is handed over.
LEMMA WorkBegins ==
  ASSUME LinkType, StartInv, HeldInv, [Next]_vars, NEW t \in Tasks,
         work[t] = "none", work'[t] # "none"
  PROVE  Begins(t) /\ task' = task
<1>1. WorkStep /\ task' = task
  BY WorkCases
<1>2. PICK u, w : /\ u \in Tasks
                  /\ work' = [work EXCEPT ![u] = w]
                  /\ Moves(u, w)
  BY <1>1 DEF WorkStep
<1>3. u = t
  BY <1>2 DEF LinkType, HereType
<1> QED
  BY <1>1, <1>2, <1>3 DEF Moves, Doing

\* Every action keeps ActedInv.
LEMMA ActedPreserved ==
  ASSUME LinkType, StartInv, OwedInv, HeldInv, HandedInv, ActedInv, [Next]_vars
  PROVE  ActedInv'
<1>1. /\ "peer" \in Node /\ "home" \in Node
      /\ Other("peer") = "home"
      /\ cursor["peer"] \in Nat /\ thread \in [Node -> StretchType]
      /\ thread["peer"].row \in {0} \cup DOMAIN out["home"]
      /\ wire["home"] \subseteq DOMAIN out["home"]
  BY DEF LinkType, HereType, References, Node, Other
<1>2. \A r \in DOMAIN out["home"] :
        /\ out["home"][r].seq \in Nat \ {0}
        /\ out["home"][r].kind = "delegate" => out["home"][r].task \in Tasks
  BY <1>1, RowsAreRows DEF LinkType, RowsType, References, Says, Row
<1>3. Grown(out["home"], out'["home"])
  BY <1>1, RowsPreserved, OutStepGrows
<1>4. \/ cursor'["peer"] = cursor["peer"]
      \/ /\ Record("peer")
         /\ thread["peer"].row # 0
         /\ cursor'["peer"] = out["home"][thread["peer"].row].seq
  BY <1>1, CursorStep
<1>5. cursor'["peer"] \in Nat \ {0} /\ cursor["peer"] <= cursor'["peer"]
  BY <1>1, <1>2, <1>4 DEF ActedInv
<1>6. ASSUME thread'["peer"].row # 0
      PROVE  out'["home"][thread'["peer"].row].seq > cursor'["peer"]
  <2>1. ~ Record("peer")
    BY <1>1, <1>6 DEF Record, Go, Idle, Stretch
  <2>2. CASE thread'["peer"].row = thread["peer"].row
    BY <1>1, <1>3, <1>4, <1>6, <2>1, <2>2 DEF Grown, ActedInv
  <2>3. ASSUME NEW x \in wire["home"], Handle("peer", x),
               thread'["peer"].row = x
        PROVE  out'["home"][thread'["peer"].row].seq > cursor'["peer"]
    BY <1>1, <1>3, <1>4, <2>1, <2>3, HandledIsNext DEF Grown
  <2> QED
    BY <1>1, <1>6, <2>2, <2>3, RowsHandled
<1>7. ASSUME NEW r \in DOMAIN out'["home"],
             out'["home"][r].kind = "delegate",
             work'[out'["home"][r].task] # "none"
      PROVE  out'["home"][r].sent /\ out'["home"][r].seq <= cursor'["peer"] + 1
  <2>1. CASE r \notin DOMAIN out["home"]
    <3> DEFINE t == out'["home"][r].task
    <3>1. HandOver(t)
      BY <1>1, <1>7, <2>1, NewRow
    <3>2. task[t] = "none" /\ work' = work
      BY <3>1 DEF HandOver
    <3>3. t \in Tasks
      BY RowsPreserved, ReferencesPreserved, <1>1, <1>7 DEF References, Says
    <3> QED
      BY <1>7, <3>2, <3>3 DEF HandedInv
  <2>2. CASE r \in DOMAIN out["home"]
    <3> DEFINE t == out["home"][r].task
    <3>1. /\ out["home"][r].kind = "delegate" /\ t \in Tasks
          /\ work'[t] # "none"
          /\ out'["home"][r].seq = out["home"][r].seq
          /\ out["home"][r].sent => out'["home"][r].sent
      BY <1>2, <1>3, <1>7, <2>2 DEF Grown
    <3>2. CASE work[t] # "none"
      <4>1. out["home"][r].sent /\ out["home"][r].seq <= cursor["peer"] + 1
        BY <2>2, <3>1, <3>2 DEF ActedInv
      <4> QED
        BY <1>1, <1>2, <1>5, <2>2, <3>1, <4>1
    <3>3. CASE work[t] = "none"
      <4>1. Begins(t)
        BY <3>1, <3>3, WorkBegins
      <4>2. r \in wire["home"] /\ ReceiveDelegate(r)
        BY <2>2, <3>1, <4>1, BeginsOne
      <4>3. Handle("peer", r)
        BY <4>2 DEF ReceiveDelegate, HandleKind
      <4>4. out["home"][r].seq <= cursor["peer"] + 1
        BY <3>1, <4>2, <4>3, HandledIsNext
      <4>5. out["home"][r].sent
        BY <1>1, <4>2 DEF OwedInv, SentInv
      <4> QED
        BY <1>1, <1>2, <1>5, <2>2, <3>1, <4>4, <4>5
    <3> QED
      BY <3>2, <3>3
  <2> QED
    BY <2>1, <2>2
<1> QED
  BY <1>5, <1>6, <1>7 DEF ActedInv

\* ActedInv is an invariant of PeerDelegation.
LEMMA ActedCorrect == Spec => []ActedInv
<1>1. Init => ActedInv
  <2> SUFFICES ASSUME Init PROVE ActedInv
    OBVIOUS
  <2>1. cursor["peer"] = 1 /\ thread["peer"].row = 0
    BY DEF Init, Idle, Stretch, Node
  <2> QED
    BY <2>1, InitHandsNothing DEF ActedInv
<1> QED
  BY <1>1, LinkCorrect, StartCorrect, OwedCorrect, HeldCorrect, HandedCorrect,
     ActedPreserved, PTL
  DEF Spec

-----------------------------------------------------------------------------
(* What never will be done.                                                *)

\* A hand-over that is not owed any more, nor on its way.
Over(r) == out["home"][r].state # "owed" /\ r \notin wire["home"]
OverAfter(r) == out'["home"][r].state # "owed" /\ r \notin wire'["home"]

\* While the pairing lasts the peer refuses a hand-over only for a gap before
\* it, and does not have it then.  What is noted as turned down or never sent,
\* and a task settled without work, is over for good.
DroppedInv ==
  /\ ~ PairingMayEnd /\ revoked = {}
  /\ reply["home"] \notin {"unauthorized", "invalid"}
  /\ /\ reply["home"] = "gap"
     /\ sending["home"] # 0
     /\ out["home"][sending["home"]].kind = "delegate"
     => /\ work[out["home"][sending["home"]].task] = "none"
        /\ sending["home"] \notin wire["home"]
  /\ \A letter \in letters :
       /\ out["home"][letter.row].kind = "delegate"
       /\ letter.refused \/ letter.neverSent
       => work[out["home"][letter.row].task] = "none" /\ Over(letter.row)
  /\ \A t \in Tasks :
       task[t] \in {"failed", "cancelled"} /\ work[t] = "none" =>
         \/ verdict[t] = "refused"
         \/ \A r \in DOMAIN out["home"] :
              /\ out["home"][r].kind = "delegate"
              /\ out["home"][r].task = t
              => Over(r)

\* What is over stays over.
LEMMA OverStays ==
  ASSUME LinkType, [Next]_vars, NEW r \in DOMAIN out["home"], Over(r)
  PROVE  OverAfter(r)
<1>1. "home" \in Node
  BY DEF Node
<1>2. Grown(out["home"], out'["home"])
  BY <1>1, RowsPreserved, OutStepGrows
<1>3. CASE wire'["home"] \subseteq wire["home"]
  BY <1>2, <1>3 DEF Over, OverAfter, Grown
<1>4. CASE Attempt("home")
  <2>1. PICK o \in Owed(out["home"]) :
          wire' = [wire EXCEPT !["home"] = @ \cup {o}]
    BY <1>1, <1>4, AttemptMarks DEF LinkType
  <2>2. wire'["home"] = wire["home"] \cup {o}
    BY <1>1, <2>1 DEF LinkType, HereType
  <2> QED
    BY <1>2, <2>2 DEF Over, OverAfter, Grown, Owed
<1> QED
  BY <1>1, <1>3, <1>4, WireStep

\* Nor does its work ever begin, or that of a hand-over that is not on its way.
LEMMA UnsentStaysUndone ==
  ASSUME LinkType, StartInv, HeldInv, HandedInv, [Next]_vars,
         NEW r \in DOMAIN out["home"], out["home"][r].kind = "delegate",
         r \notin wire["home"], work[out["home"][r].task] = "none"
  PROVE  work'[out["home"][r].task] = "none"
<1> DEFINE t == out["home"][r].task
<1>1. t \in Tasks
  BY DEF LinkType, References, Says, Node
<1>2. ~ Begins(t)
  BY <1>1, BeginsOne
<1> QED
  BY <1>1, <1>2, WorkBegins

\* What may come back for an attempt of home.
LEMMA ReplyCases ==
  ASSUME LinkType, [Next]_vars
  PROVE  \/ /\ reply'["home"] = reply["home"]
            /\ sending'["home"] = sending["home"]
            /\ wire'["home"] \subseteq wire["home"]
         \/ reply'["home"] \in {"none", "lost", "ok", "skipped"}
         \/ /\ sending["home"] \in wire["home"]
            /\ reply'["home"] = Turned("peer", sending["home"])
            /\ wire'["home"] = wire["home"] \ {sending["home"]}
            /\ UNCHANGED <<databases, sending>>
<1> DEFINE Same == /\ reply'["home"] = reply["home"]
                   /\ sending'["home"] = sending["home"]
                   /\ wire'["home"] \subseteq wire["home"]
           Plain == reply'["home"] \in {"none", "lost", "ok", "skipped"}
           Turns == /\ sending["home"] \in wire["home"]
                    /\ reply'["home"] = Turned("peer", sending["home"])
                    /\ wire'["home"] = wire["home"] \ {sending["home"]}
                    /\ UNCHANGED <<databases, sending>>
<1>1. /\ "home" \in Node /\ "peer" \in Node /\ Node = {"home", "peer"}
      /\ Other("home") = "peer" /\ Other("peer") = "home"
      /\ reply \in [Node -> Reply]
      /\ sending \in [Node -> Nat]
      /\ wire \in [Node -> SUBSET Nat]
  BY DEF LinkType, HereType, RowsType, Node, Other
<1>2. ASSUME UNCHANGED <<reply, sending, wire>> PROVE Same
  BY <1>2
<1>3. ASSUME NEW n \in Node, Attempt(n) PROVE Same \/ Plain
  BY <1>1, <1>3 DEF Attempt
<1>4. ASSUME NEW n \in Node, Lose(n) PROVE Same \/ Plain
  BY <1>1, <1>4 DEF Lose, memory
<1>5. ASSUME NEW n \in Node, Acknowledged(n) \/ DeliveryFailed(n)
      PROVE  Same \/ Plain
  BY <1>1, <1>5 DEF Acknowledged, DeliveryFailed
<1>6. ASSUME NEW n \in Node, Crash(n) PROVE Same \/ Plain
  BY <1>1, <1>6 DEF Crash
<1>7. ASSUME NEW n \in Node, Record(n) PROVE Same \/ Plain
  BY <1>1, <1>7 DEF Record, Answered
<1>8. ASSUME NEW m \in Node, Refuse(m) PROVE Same \/ Turns
  <2>1. PICK request \in wire[Other(m)] :
          Take(Other(m), request, Turned(m, request))
    BY <1>8 DEF Refuse
  <2>2. UNCHANGED <<databases, sending>>
    BY <1>8 DEF Refuse, memory
  <2>3. CASE m = "home"
    BY <1>1, <2>1, <2>2, <2>3 DEF Take
  <2>4. CASE m = "peer"
    BY <1>1, <2>1, <2>2, <2>4 DEF Take, Current
  <2> QED
    BY <1>1, <2>3, <2>4
<1>9. ASSUME NEW n \in Node, NEW x \in wire[Other(n)], ReceiveSkip(n, x)
       PROVE  Same
  BY <1>1, <1>9 DEF ReceiveSkip, HandleKind, Handle
<1>10. ASSUME NEW x \in wire["home"], ReceiveDelegate(x) \/ ReceiveCancel(x)
       PROVE  Same
  BY <1>1, <1>10 DEF ReceiveDelegate, ReceiveCancel, HandleKind, Handle
<1>11. ASSUME NEW x \in wire["peer"], ReceiveResult(x)
       PROVE  Same
  BY <1>1, <1>11 DEF ReceiveResult, HandleKind, Handle
<1> HIDE DEF Same, Plain, Turns
<1>12. Same \/ Plain \/ Turns
  <2>1. CASE UNCHANGED vars
    BY <1>2, <2>1 DEF vars, memory, network
  <2>2. CASE Home
    BY <1>2, <1>11, <2>2
    DEF Home, memory, network, Notify, SettleLetter, HandOver, AskStop
  <2>3. CASE Peer
    BY <1>2, <1>10, <2>3
    DEF Peer, memory, network, Resolve, ReadyHere, Answer, Boot,
        CapabilityReady, StartTask, WorkerEnds, OwnerStops
  <2>4. ASSUME NEW n \in Node,
               HoldBack(n) \/ QueueSkip(n) \/ EndPairing(n) \/ GiveUpRevoked(n)
        PROVE  Same
    BY <1>2, <2>4
    DEF memory, network, HoldBack, QueueSkip, EndPairing, GiveUpRevoked
  <2>5. CASE \E n \in Node : Link(n)
    BY <1>3, <1>4, <1>5, <1>6, <1>7, <1>8, <1>9, <2>4, <2>5 DEF Link
  <2> QED
    BY <2>1, <2>2, <2>3, <2>5 DEF Next
<1> QED
  BY <1>12 DEF Same, Plain, Turns

\* What a note about a row given up on says of it.
LEMMA LetterSays ==
  ASSUME NEW n \in Node, NEW rows, NEW lost, NEW refused \in BOOLEAN,
         NEW letter \in LettersOf(n, rows, lost, refused)
  PROVE  /\ n = "home"
         /\ letter.row \in lost
         /\ letter.refused => refused
         /\ letter.neverSent => ~ rows[letter.row].sent
<1>1. n = "home"
  BY DEF LettersOf, Node
<1>2. PICK r \in lost : letter = Letter(rows, r, refused)
  BY <1>1 DEF LettersOf
<1> QED
  BY <1>1, <1>2 DEF Letter

\* What is known of a row home gives up on while it is paired.
LEMMA NewLetter ==
  ASSUME LinkType, [Next]_vars, revoked = {},
         NEW letter \in letters', letter \notin letters
  PROVE  /\ letter.row \in DOMAIN out["home"]
         /\ out'["home"][letter.row].state = "dead"
         /\ letter.neverSent => ~ out'["home"][letter.row].sent
         /\ letter.refused =>
              /\ letter.row = sending["home"] /\ sending["home"] # 0
              /\ reply["home"] \in {"unauthorized", "invalid", "gap"}
         /\ UNCHANGED <<work, wire>>
<1>1. RowsType
  BY DEF LinkType
<1>2. PICK no \in BOOLEAN : no = FALSE
  OBVIOUS
<1>3. CASE \E n \in Node : DeliveryFailed(n)
  <2>1. PICK n \in Node : DeliveryFailed(n)
    BY <1>3
  <2> DEFINE lost == GivenUp(out'[n]) \ GivenUp(out[n])
  <2>2. PICK told \in BOOLEAN : told = (reply[n] # "lost")
    OBVIOUS
  <2>3. /\ letters' = letters
             \cup LettersOf(n, out'[n], lost \cap {sending[n]}, told)
             \cup LettersOf(n, out'[n], lost \ {sending[n]}, no)
        /\ Marked(out[n], out'[n])
    BY <1>1, <1>2, <2>1, <2>2, FailureMarks
  <2>4. \A r \in lost : r \in DOMAIN out[n] /\ out'[n][r].state = "dead"
    BY <2>3 DEF GivenUp, Marked
  <2>5. /\ sending[n] # 0
        /\ reply[n] \in {"lost", "unauthorized", "invalid", "gap"}
        /\ UNCHANGED <<work, wire>>
    BY <2>1 DEF DeliveryFailed
  <2> HIDE DEF lost
  <2>6. \/ letter \in LettersOf(n, out'[n], lost \cap {sending[n]}, told)
        \/ letter \in LettersOf(n, out'[n], lost \ {sending[n]}, no)
    BY <2>3
  <2>7. /\ n = "home" /\ letter.row \in lost
        /\ letter.neverSent => ~ out'[n][letter.row].sent
        /\ letter.refused => told /\ letter.row = sending[n]
    <3>1. CASE letter \in LettersOf(n, out'[n], lost \cap {sending[n]}, told)
      BY <3>1, LetterSays
    <3>2. CASE letter \in LettersOf(n, out'[n], lost \ {sending[n]}, no)
      BY <1>2, <3>2, LetterSays
    <3> QED
      BY <2>6, <3>1, <3>2
  <2> QED
    BY <2>2, <2>4, <2>5, <2>7
<1>4. CASE \E n \in Node : HoldBack(n)
  <2>1. PICK n \in Node : HoldBack(n)
    BY <1>4
  <2> DEFINE lost == GivenUp(out'[n]) \ GivenUp(out[n])
  <2>2. /\ letters' = letters \cup LettersOf(n, out'[n], lost, no)
        /\ Marked(out[n], out'[n])
    BY <1>1, <1>2, <2>1, HoldBackMarks
  <2>3. \A r \in lost : r \in DOMAIN out[n] /\ out'[n][r].state = "dead"
    BY <2>2 DEF GivenUp, Marked
  <2>4. UNCHANGED <<work, wire>>
    BY <2>1 DEF HoldBack, network
  <2> HIDE DEF lost
  <2>5. letter \in LettersOf(n, out'[n], lost, no)
    BY <2>2
  <2>6. /\ n = "home" /\ letter.row \in lost /\ ~ letter.refused
        /\ letter.neverSent => ~ out'[n][letter.row].sent
    BY <1>2, <2>5, LetterSays
  <2> QED
    BY <2>3, <2>4, <2>6
<1>5. CASE UNCHANGED vars
  BY <1>5 DEF vars, memory
<1>6. CASE Home
  BY <1>6
  DEF Home, memory, Notify, SettleLetter, HandOver, AskStop, ReceiveResult
<1>7. CASE Peer
  BY <1>7
  DEF Peer, memory, Resolve, ReadyHere, Answer, Boot, CapabilityReady,
      StartTask, WorkerEnds, OwnerStops, ReceiveDelegate, ReceiveCancel
<1>8. CASE \E n \in Node : Link(n) /\ ~ DeliveryFailed(n) /\ ~ HoldBack(n)
  BY <1>8
  DEF Link, memory, Attempt, Lose, Acknowledged, QueueSkip, EndPairing,
      GiveUpRevoked, Refuse, Record, ReceiveSkip, Crash
<1> QED
  BY <1>3, <1>4, <1>5, <1>6, <1>7, <1>8 DEF Next

\* A hand-over that never left home has no work, and none will begin.
LEMMA UnsentIsUndone ==
  ASSUME LinkType, OwedInv, ActedInv, NEW r \in DOMAIN out["home"],
         out["home"][r].kind = "delegate", ~ out["home"][r].sent
  PROVE  work[out["home"][r].task] = "none" /\ r \notin wire["home"]
BY DEF OwedInv, SentInv, ActedInv, Node

\* While the pairing lasts the peer turns down a hand-over only for a gap.
LEMMA TurnedForGap ==
  ASSUME LinkType, OwedInv, ActedInv, revoked = {}, sending["home"] # 0
  PROVE  /\ Turned("peer", sending["home"]) \notin {"unauthorized", "invalid"}
         /\ /\ Turned("peer", sending["home"]) = "gap"
            /\ out["home"][sending["home"]].kind = "delegate"
            => work[out["home"][sending["home"]].task] = "none"
<1> DEFINE r == sending["home"]
<1>1. /\ r \in Owed(out["home"]) /\ r \in DOMAIN out["home"]
      /\ Other("peer") = "home" /\ Other("home") = "peer"
      /\ cursor["peer"] \in Nat /\ cursor["peer"] # 0
  BY DEF LinkType, RowsType, HereType, ActedInv, Owed, Node, Other
<1>2. out["home"][r].seq \in Nat
  BY <1>1, RowsAreRows DEF LinkType, RowsType, Row, Node
<1>3. \/ out["home"][r].kind = "skip"
      \/ r \in seen["peer"]
      \/ out["home"][r].seq > cursor["peer"]
  BY <1>1 DEF OwedInv, Deliverable, Node
<1>4. out["home"][r].kind = "delegate"
        /\ work[out["home"][r].task] # "none"
        => out["home"][r].seq <= cursor["peer"] + 1
  BY <1>1 DEF ActedInv
<1> HIDE DEF r
<1>5. Turned("peer", r) \notin {"unauthorized", "invalid"}
  BY <1>1, <1>2, <1>3 DEF Turned, Answered
<1>6. Turned("peer", r) = "gap" =>
        out["home"][r].seq > cursor["peer"] + 1
  BY <1>1, <1>2, <1>3 DEF Turned, Answered
<1>7. Turned("peer", r) = "gap" /\ out["home"][r].kind = "delegate"
        => work[out["home"][r].task] = "none"
  BY <1>1, <1>2, <1>4, <1>6
<1> QED
  BY <1>5, <1>7 DEF r

\* Nobody ends a pairing that may not end.
LEMMA PairingStays ==
  ASSUME [Next]_vars, ~ PairingMayEnd
  PROVE  revoked' = revoked
<1>1. CASE UNCHANGED vars
  BY <1>1 DEF vars, databases
<1>2. CASE Home
  BY <1>2
  DEF Home, databases, Notify, SettleLetter, HandOver, AskStop, ReceiveResult
<1>3. CASE Peer
  BY <1>3
  DEF Peer, databases, Resolve, ReadyHere, Answer, Boot, CapabilityReady,
      StartTask, WorkerEnds, OwnerStops, ReceiveDelegate, ReceiveCancel
<1>4. CASE \E n \in Node : Link(n)
  BY <1>4
  DEF Link, databases, Attempt, Lose, Acknowledged, DeliveryFailed, HoldBack,
      QueueSkip, EndPairing, GiveUpRevoked, Refuse, Record, Crash, ReceiveSkip
<1> QED
  BY <1>1, <1>2, <1>3, <1>4 DEF Next

\* The task a result is about, and the state it leaves that in.
LEMMA ResultTask ==
  ASSUME LinkType, AnswerInv, NEW x \in wire["peer"], ReceiveResult(x)
  PROVE  \E t \in Tasks : \E outcome \in Settled : \E ran \in BOOLEAN :
           /\ task' = [task EXCEPT ![t] = AfterResult(task[t], outcome, ran)]
           /\ Truth(t, outcome, ran)
           /\ UNCHANGED <<work, out, verdict>>
           /\ wire'["home"] = wire["home"]
<1> DEFINE row == out["peer"][x]
<1>1. /\ x \in DOMAIN out["peer"] /\ row.kind = "result"
      /\ Other("home") = "peer"
      /\ wire \in [Node -> SUBSET Nat] /\ "home" \in Node /\ "peer" \in Node
  BY DEF LinkType, References, HereType, Node, Other, ReceiveResult, HandleKind
<1>2. row.task \in Tasks /\ row.outcome \in Settled
  BY <1>1 DEF LinkType, References, Says
<1>3. row.ran \in BOOLEAN
  BY <1>1, RowsAreRows DEF LinkType, RowsType, Row
<1>4. Truth(row.task, row.outcome, row.ran)
  BY <1>1 DEF AnswerInv
<1>5. /\ task' = [task EXCEPT ![row.task] =
                    AfterResult(task[row.task], row.outcome, row.ran)]
      /\ UNCHANGED <<work, out, verdict>>
  BY <1>2 DEF ReceiveResult, LinkType, HereType
<1>6. wire'["home"] = wire["home"]
  BY <1>1 DEF ReceiveResult, HandleKind, Handle
<1> QED
  BY <1>2, <1>3, <1>4, <1>5, <1>6

\* The task a letter is about, and the state it leaves that in.
LEMMA LetterTask ==
  ASSUME LinkType, DroppedInv, SettleLetter
  PROVE  \E t : \E letter \in letters :
           /\ out["home"][letter.row].task = t
           /\ letter.row \in DOMAIN out["home"]
           /\ task' = [task EXCEPT ![t] = AfterLetter(task[t], letter)]
           /\ UNCHANGED <<work, out, verdict, wire>>
<1>1. PICK letter \in letters :
        LET t == out["home"][letter.row].task IN
        task' = [task EXCEPT ![t] = AfterLetter(@, letter)]
  BY DEF SettleLetter
<1>2. UNCHANGED <<work, out, verdict, wire>>
  BY DEF SettleLetter, network
<1> QED
  BY <1>1, <1>2 DEF LinkType, References, HereType

\* Every action keeps DroppedInv.
LEMMA DroppedPreserved ==
  ASSUME LinkType, StartInv, OwedInv, HeldInv, HandedInv, AnswerInv, ActedInv,
         DroppedInv, [Next]_vars
  PROVE  DroppedInv'
<1>1. /\ "home" \in Node /\ "peer" \in Node
      /\ sending["home"] # 0 => sending["home"] \in DOMAIN out["home"]
      /\ \A letter \in letters : letter.row \in DOMAIN out["home"]
      /\ \A r \in DOMAIN out["home"] :
           out["home"][r].kind = "delegate" => out["home"][r].task \in Tasks
      /\ wire["home"] \subseteq DOMAIN out["home"]
      /\ task \in [Tasks -> HomeState]
      /\ 0 \notin DOMAIN out["home"]
  BY RowsAreRows
  DEF LinkType, RowsType, HereType, References, Says, Owed, Node
<1>2. Grown(out["home"], out'["home"])
  BY <1>1, RowsPreserved, OutStepGrows
<1>3. /\ ~ PairingMayEnd /\ revoked = {} /\ revoked' = {}
      /\ reply["home"] \notin {"unauthorized", "invalid"}
  BY PairingStays DEF DroppedInv
<1>4. /\ reply'["home"] \notin {"unauthorized", "invalid"}
      /\ /\ reply'["home"] = "gap"
         /\ sending'["home"] # 0
         /\ out'["home"][sending'["home"]].kind = "delegate"
         => /\ work'[out'["home"][sending'["home"]].task] = "none"
            /\ sending'["home"] \notin wire'["home"]
  <2> DEFINE r == sending["home"]
  <2>1. CASE /\ reply'["home"] = reply["home"]
             /\ sending'["home"] = r
             /\ wire'["home"] \subseteq wire["home"]
    <3>1. ASSUME reply["home"] = "gap", r # 0, out'["home"][r].kind = "delegate"
          PROVE  work'[out'["home"][r].task] = "none" /\ r \notin wire'["home"]
      <4>1. /\ r \in DOMAIN out["home"]
            /\ out["home"][r].kind = "delegate"
            /\ out'["home"][r].task = out["home"][r].task
        BY <1>1, <1>2, <3>1 DEF Grown
      <4>2. work[out["home"][r].task] = "none" /\ r \notin wire["home"]
        BY <3>1, <4>1 DEF DroppedInv
      <4> QED
        BY <2>1, <4>1, <4>2, UnsentStaysUndone
    <3> QED
      BY <1>3, <2>1, <3>1
  <2>2. CASE reply'["home"] \in {"none", "lost", "ok", "skipped"}
    BY <2>2
  <2>3. CASE /\ r \in wire["home"]
             /\ reply'["home"] = Turned("peer", r)
             /\ wire'["home"] = wire["home"] \ {r}
             /\ UNCHANGED <<databases, sending>>
    <3>1. r # 0 /\ out' = out /\ work' = work /\ sending' = sending
      BY <1>1, <2>3 DEF databases
    <3> QED
      BY <1>3, <2>3, <3>1, TurnedForGap
  <2> QED
    BY <2>1, <2>2, <2>3, ReplyCases
<1>5. ASSUME NEW letter \in letters',
             out'["home"][letter.row].kind = "delegate",
             letter.refused \/ letter.neverSent
      PROVE  /\ work'[out'["home"][letter.row].task] = "none"
             /\ OverAfter(letter.row)
  <2> DEFINE r == letter.row
  <2>1. CASE letter \in letters
    <3>1. /\ r \in DOMAIN out["home"]
          /\ out["home"][r].kind = "delegate"
          /\ out'["home"][r].task = out["home"][r].task
      BY <1>1, <1>2, <1>5, <2>1 DEF Grown
    <3>2. work[out["home"][r].task] = "none" /\ Over(r)
      BY <1>5, <2>1, <3>1 DEF DroppedInv
    <3> QED
      BY <3>1, <3>2, OverStays, UnsentStaysUndone DEF Over
  <2>2. CASE letter \notin letters
    <3>1. /\ r \in DOMAIN out["home"]
          /\ out'["home"][r].state = "dead"
          /\ letter.neverSent => ~ out'["home"][r].sent
          /\ letter.refused =>
               /\ r = sending["home"] /\ sending["home"] # 0
               /\ reply["home"] \in {"unauthorized", "invalid", "gap"}
          /\ UNCHANGED <<work, wire>>
      BY <1>3, <2>2, NewLetter
    <3>2. /\ out["home"][r].kind = "delegate"
          /\ out'["home"][r].task = out["home"][r].task
          /\ out["home"][r].sent => out'["home"][r].sent
      BY <1>2, <1>5, <3>1 DEF Grown
    <3>3. work[out["home"][r].task] = "none" /\ r \notin wire["home"]
      <4>1. CASE letter.neverSent
        BY <3>1, <3>2, <4>1, UnsentIsUndone
      <4>2. CASE letter.refused
        BY <1>3, <3>1, <3>2, <4>2 DEF DroppedInv
      <4> QED
        BY <1>5, <4>1, <4>2
    <3> QED
      BY <3>1, <3>2, <3>3 DEF OverAfter
  <2> QED
    BY <2>1, <2>2
<1>6. ASSUME NEW t \in Tasks, task'[t] \in {"failed", "cancelled"},
             work'[t] = "none", verdict'[t] # "refused",
             NEW r \in DOMAIN out'["home"],
             out'["home"][r].kind = "delegate", out'["home"][r].task = t
      PROVE  OverAfter(r)
  <2>1. work[t] = "none" /\ verdict[t] # "refused"
    BY <1>6, WorkStays, VerdictStays
  <2>2. /\ r \in DOMAIN out["home"]
        /\ out["home"][r].kind = "delegate" /\ out["home"][r].task = t
    <3>1. ~ HandOver(t)
      BY <1>1, <1>6 DEF HandOver
    <3>2. r \in DOMAIN out["home"]
      BY <1>1, <1>6, <3>1, NewRow
    <3> QED
      BY <1>2, <1>6, <3>2 DEF Grown
  <2>3. CASE task[t] \in {"failed", "cancelled"}
    BY <2>1, <2>2, <2>3, OverStays DEF DroppedInv
  <2>4. CASE task[t] \notin {"failed", "cancelled"}
    <3>1. task' # task
      BY <1>6, <2>4
    <3>2. CASE \E u \in Tasks : HandOver(u) \/ AskStop(u)
      BY <1>1, <1>6, <2>4, <3>2 DEF HandOver, AskStop
    <3>3. CASE SettleLetter
      <4>1. PICK u, letter :
              /\ letter \in letters
              /\ out["home"][letter.row].task = u
              /\ letter.row \in DOMAIN out["home"]
              /\ task' = [task EXCEPT ![u] = AfterLetter(task[u], letter)]
              /\ UNCHANGED <<work, out, verdict, wire>>
        BY <3>3, LetterTask
      <4>2. u = t /\ AfterLetter(task[t], letter) \in {"failed", "cancelled"}
        BY <1>1, <1>6, <2>4, <4>1
      <4>3. /\ out["home"][letter.row].kind = "delegate"
            /\ letter.refused \/ letter.neverSent
        BY <2>4, <4>2 DEF AfterLetter, Unknown, NeverActed
      <4>4. Over(letter.row)
        BY <4>1, <4>3 DEF DroppedInv
      <4>5. letter.row = r
        BY <2>2, <4>1, <4>2, <4>3 DEF HandedInv
      <4> QED
        BY <2>2, <4>4, <4>5, OverStays
    <3>4. ASSUME NEW x \in wire["peer"], ReceiveResult(x) PROVE FALSE
      <4>1. PICK u \in Tasks, outcome \in Settled, ran \in BOOLEAN :
              /\ task' = [task EXCEPT ![u] = AfterResult(task[u], outcome, ran)]
              /\ Truth(u, outcome, ran)
        BY <3>4, ResultTask
      <4>2. /\ u = t
            /\ AfterResult(task[t], outcome, ran) \in {"failed", "cancelled"}
        BY <1>1, <1>6, <2>4, <4>1
      <4>3. ran /\ outcome \notin Terminal
        BY <2>1, <4>1, <4>2 DEF Truth, Terminal
      <4> QED
        BY <2>4, <4>2, <4>3 DEF AfterResult, Terminal
    <3>5. ASSUME NEW n \in Node, NEW x \in wire[Other(n)], ReceiveSkip(n, x)
          PROVE  FALSE
      BY <1>6, <2>4, <3>5 DEF ReceiveSkip, Unknown
    <3> QED
      BY <3>1, <3>2, <3>3, <3>4, <3>5, TaskCases
  <2> QED
    BY <2>3, <2>4
<1> QED
  BY <1>3, <1>4, <1>5, <1>6 DEF DroppedInv, Over, OverAfter

\* DroppedInv holds of PeerDelegation as long as the pairing does.
LEMMA DroppedCorrect == ~ PairingMayEnd /\ Spec => []DroppedInv
<1>1. Init /\ ~ PairingMayEnd => DroppedInv
  <2> SUFFICES ASSUME Init, ~ PairingMayEnd PROVE DroppedInv
    OBVIOUS
  <2>1. /\ revoked = {} /\ letters = {} /\ reply["home"] = "none"
        /\ \A t \in Tasks : task[t] = "none"
    BY DEF Init, Node
  <2> QED
    BY <2>1 DEF DroppedInv
<1> QED
  BY <1>1, LinkCorrect, StartCorrect, OwedCorrect, HeldCorrect, HandedCorrect,
     AnswerCorrect, ActedCorrect, DroppedPreserved, PTL
  DEF Spec

\* RefusedWasNotActedOn: a hand-over home takes for turned down was not acted
\* on, as long as the pairing lasts.
THEOREM RefusedWasNotActedOnHolds ==
  ~ PairingMayEnd /\ Spec => []RefusedWasNotActedOn
<1>1. DroppedInv => RefusedWasNotActedOn
  BY DEF DroppedInv, RefusedWasNotActedOn
<1> QED
  BY <1>1, DroppedCorrect, PTL

-----------------------------------------------------------------------------
(* The promise.                                                            *)

\* What the states of a task at the two nodes say.
KnownOf(state) ==
  IF state \in {"running", "cancel_requested"} THEN "waiting" ELSE state

DeedOf(w, state) ==
  IF w = "none"
    THEN IF state \in {"failed", "cancelled"} THEN "never" ELSE "none"
  ELSE IF w \in Settled THEN w
  ELSE "doing"

KnownHere == [t \in Tasks |-> Known(t)]
DeedHere == [t \in Tasks |-> Deed(t)]

\* The refinement mapping, before a step and after it.
LEMMA Mapped ==
  /\ KnownHere = [t \in Tasks |-> KnownOf(task[t])]
  /\ KnownHere' = [t \in Tasks |-> KnownOf(task'[t])]
  /\ DeedHere = [t \in Tasks |-> DeedOf(work[t], task[t])]
  /\ DeedHere' = [t \in Tasks |-> DeedOf(work'[t], task'[t])]
<1>1. \A t \in Tasks : Known(t) = KnownOf(task[t])
  BY DEF Known, KnownOf
<1>2. \A t \in Tasks : Known(t)' = KnownOf(task'[t])
  BY DEF Known, KnownOf
<1>3. \A t \in Tasks : Deed(t) = DeedOf(work[t], task[t])
  BY DEF Deed, DeedOf, Settled, Terminal
<1>4. \A t \in Tasks : Deed(t)' = DeedOf(work'[t], task'[t])
  BY DEF Deed, DeedOf, Settled, Terminal
<1> QED
  BY <1>1, <1>2, <1>3, <1>4 DEF KnownHere, DeedHere

\* The steps of the promise, said of the mapping.
Asked(t) ==
  /\ KnownHere[t] \in {"none", "uncertain"}
  /\ KnownHere' = [KnownHere EXCEPT ![t] = "waiting"]
  /\ DeedHere' = DeedHere

Begun(t) ==
  /\ KnownHere[t] # "none"
  /\ DeedHere[t] = "none"
  /\ DeedHere' = [DeedHere EXCEPT ![t] = "doing"]
  /\ KnownHere' = KnownHere

Ended(t) ==
  /\ \/ DeedHere[t] = "doing"
        /\ \E o \in Settled : DeedHere' = [DeedHere EXCEPT ![t] = o]
     \/ DeedHere[t] = "uncertain"
        /\ DeedHere' = [DeedHere EXCEPT ![t] = "cancelled"]
  /\ KnownHere' = KnownHere

Learnt(t) ==
  /\ KnownHere[t] \in {"waiting", "uncertain"}
  /\ DeedHere[t] \in Settled
  /\ KnownHere' = [KnownHere EXCEPT ![t] = DeedHere[t]]
  /\ DeedHere' = DeedHere

CalledOff(t) ==
  /\ KnownHere[t] = "waiting"
  /\ DeedHere[t] = "none"
  /\ \E o \in {"failed", "cancelled"} : KnownHere' = [KnownHere EXCEPT ![t] = o]
  /\ DeedHere' = [DeedHere EXCEPT ![t] = "never"]

Doubted(doubtful) ==
  /\ \A t \in doubtful : KnownHere[t] = "waiting"
  /\ KnownHere' = [t \in Tasks |->
                     IF t \in doubtful THEN "uncertain" ELSE KnownHere[t]]
  /\ DeedHere' = DeedHere

\* They are its steps.
LEMMA PromiseCases ==
  ASSUME \/ \E t \in Tasks :
              Asked(t) \/ Begun(t) \/ Ended(t) \/ Learnt(t) \/ CalledOff(t)
         \/ \E doubtful \in SUBSET Tasks : Doubted(doubtful)
         \/ KnownHere' = KnownHere /\ DeedHere' = DeedHere
  PROVE  [Promise!Next]_(Promise!vars)
<1>1. ASSUME NEW t \in Tasks, Asked(t) PROVE Promise!Next
  BY <1>1 DEF Asked, KnownHere, DeedHere, Promise!Next, Promise!Ask
<1>2. ASSUME NEW t \in Tasks, Begun(t) PROVE Promise!Next
  BY <1>2 DEF Begun, KnownHere, DeedHere, Promise!Next, Promise!Begin
<1>3. ASSUME NEW t \in Tasks, Ended(t) PROVE Promise!Next
  BY <1>3 DEF Ended, Settled, Terminal, KnownHere, DeedHere, Promise!Next,
              Promise!End, Promise!Outcome
<1>4. ASSUME NEW t \in Tasks, Learnt(t) PROVE Promise!Next
  BY <1>4 DEF Learnt, Settled, Terminal, KnownHere, DeedHere, Promise!Next,
              Promise!Learn, Promise!Outcome
<1>5. ASSUME NEW t \in Tasks, CalledOff(t) PROVE Promise!Next
  BY <1>5 DEF CalledOff, KnownHere, DeedHere, Promise!Next, Promise!CallOff
<1>6. ASSUME NEW doubtful \in SUBSET Tasks, Doubted(doubtful)
      PROVE  Promise!Next
  BY <1>6 DEF Doubted, KnownHere, DeedHere, Promise!Next, Promise!Doubt
<1>7. CASE KnownHere' = KnownHere /\ DeedHere' = DeedHere
  BY <1>7 DEF KnownHere, DeedHere, Promise!vars
<1> QED
  BY <1>1, <1>2, <1>3, <1>4, <1>5, <1>6, <1>7

\* What the peer makes of the work is a step of the promise.
LEMMA WorkPromised ==
  ASSUME LinkType, HandedInv, DroppedInv, WorkStep, task' = task
  PROVE  \/ \E t \in Tasks : Begun(t) \/ Ended(t)
         \/ KnownHere' = KnownHere /\ DeedHere' = DeedHere
<1>1. PICK t, w : /\ t \in Tasks
                  /\ work' = [work EXCEPT ![t] = w]
                  /\ Moves(t, w)
  BY DEF WorkStep
<1>2. /\ KnownHere' = KnownHere
      /\ DeedHere' = [DeedHere EXCEPT ![t] = DeedOf(w, task[t])]
      /\ KnownHere[t] = KnownOf(task[t])
      /\ DeedHere[t] = DeedOf(work[t], task[t])
  BY <1>1, Mapped DEF LinkType, HereType
<1>3. CASE Begins(t) /\ w = "queued"
  <2>1. PICK x \in DOMAIN out["home"] :
          /\ x \in wire["home"]
          /\ out["home"][x].kind = "delegate"
          /\ out["home"][x].task = t
    BY <1>1, <1>3, BegunIsHanded
  <2>2. task[t] # "none"
    BY <2>1 DEF HandedInv
  <2>3. work[t] = "none" /\ verdict[t] # "refused"
    BY <1>3 DEF Begins
  <2>4. task[t] \notin {"failed", "cancelled"}
    BY <1>1, <2>1, <2>3 DEF DroppedInv, Over
  <2>5. KnownHere[t] # "none" /\ DeedHere[t] = "none"
    BY <1>2, <2>2, <2>3, <2>4 DEF KnownOf, DeedOf
  <2>6. DeedOf(w, task[t]) = "doing"
    BY <1>3 DEF DeedOf, Settled, Terminal
  <2> QED
    BY <1>1, <1>2, <2>5, <2>6 DEF Begun
<1>4. CASE work[t] \in Doing /\ w \in Doing \cup Settled
  <2>1. DeedHere[t] = "doing"
    BY <1>2, <1>4 DEF DeedOf, Doing, Settled, Terminal
  <2>2. CASE w \in Settled
    <3>1. DeedOf(w, task[t]) = w
      BY <2>2 DEF DeedOf, Settled, Terminal
    <3> QED
      BY <1>1, <1>2, <2>1, <2>2, <3>1 DEF Ended
  <2>3. CASE w \in Doing
    <3>1. DeedOf(w, task[t]) = "doing"
      BY <2>3 DEF DeedOf, Doing, Settled, Terminal
    <3>2. DeedHere \in [Tasks -> {DeedHere[u] : u \in Tasks}]
      BY DEF DeedHere
    <3> QED
      BY <1>2, <2>1, <3>1, <3>2
  <2> QED
    BY <1>4, <2>2, <2>3
<1>5. CASE work[t] = "uncertain" /\ w = "cancelled"
  <2>1. DeedHere[t] = "uncertain" /\ DeedOf(w, task[t]) = "cancelled"
    BY <1>2, <1>5 DEF DeedOf, Settled, Terminal
  <2> QED
    BY <1>1, <1>2, <2>1 DEF Ended
<1> QED
  BY <1>1, <1>3, <1>4, <1>5 DEF Moves

\* What home may be told of one task, or ask, for the promise to be kept.
Tells(t, state) ==
  \/ task[t] \in {"none", "uncertain"} /\ state \in {"running", "cancel_requested"}
  \/ KnownOf(task[t]) = "waiting" /\ KnownOf(state) \in {"waiting", "uncertain"}
  \/ KnownOf(task[t]) \in {"waiting", "uncertain"}
     /\ state \in Settled /\ work[t] = state
  \/ KnownOf(task[t]) = "waiting"
     /\ state \in {"failed", "cancelled"} /\ work[t] = "none"
  \/ state = task[t]

\* It is kept then.
LEMMA TellsPromised ==
  ASSUME LinkType, NEW t \in Tasks, NEW state, Tells(t, state),
         task' = [task EXCEPT ![t] = state], work' = work
  PROVE  \/ Asked(t) \/ Learnt(t) \/ CalledOff(t)
         \/ Doubted({t})
         \/ KnownHere' = KnownHere /\ DeedHere' = DeedHere
<1>1. /\ KnownHere' = [KnownHere EXCEPT ![t] = KnownOf(state)]
      /\ DeedHere' = [DeedHere EXCEPT ![t] = DeedOf(work[t], state)]
      /\ KnownHere[t] = KnownOf(task[t])
      /\ DeedHere[t] = DeedOf(work[t], task[t])
      /\ DOMAIN KnownHere = Tasks /\ DOMAIN DeedHere = Tasks
      /\ KnownHere = [KnownHere EXCEPT ![t] = KnownHere[t]]
      /\ DeedHere = [DeedHere EXCEPT ![t] = DeedHere[t]]
  BY Mapped DEF LinkType, HereType
<1>2. CASE /\ task[t] \in {"none", "uncertain"}
           /\ state \in {"running", "cancel_requested"}
  <2>1. /\ KnownOf(task[t]) = task[t] /\ KnownOf(state) = "waiting"
        /\ DeedOf(work[t], state) = DeedOf(work[t], task[t])
    BY <1>2 DEF KnownOf, DeedOf
  <2> QED
    BY <1>1, <1>2, <2>1 DEF Asked
<1>3. CASE KnownOf(task[t]) = "waiting" /\ KnownOf(state) = "waiting"
  <2>1. DeedOf(work[t], state) = DeedOf(work[t], task[t])
    BY <1>3 DEF KnownOf, DeedOf
  <2> QED
    BY <1>1, <1>3, <2>1
<1>4. CASE KnownOf(task[t]) = "waiting" /\ KnownOf(state) = "uncertain"
  <2>1. DeedOf(work[t], state) = DeedOf(work[t], task[t])
    BY <1>4 DEF KnownOf, DeedOf
  <2>2. KnownHere' = [u \in Tasks |->
                        IF u \in {t} THEN "uncertain" ELSE KnownHere[u]]
    BY <1>1, <1>4
  <2> QED
    BY <1>1, <1>4, <2>1, <2>2 DEF Doubted
<1>5. CASE /\ KnownOf(task[t]) \in {"waiting", "uncertain"}
           /\ state \in Settled /\ work[t] = state
  <2>1. /\ KnownOf(state) = state
        /\ DeedOf(work[t], state) = state /\ DeedOf(work[t], task[t]) = state
    BY <1>5 DEF KnownOf, DeedOf, Settled, Terminal
  <2> QED
    BY <1>1, <1>5, <2>1 DEF Learnt
<1>6. CASE /\ KnownOf(task[t]) = "waiting"
           /\ state \in {"failed", "cancelled"} /\ work[t] = "none"
  <2>1. /\ KnownOf(state) = state
        /\ DeedOf(work[t], state) = "never" /\ DeedOf(work[t], task[t]) = "none"
    BY <1>6 DEF KnownOf, DeedOf
  <2> QED
    BY <1>1, <1>6, <2>1 DEF CalledOff
<1>7. CASE state = task[t]
  BY <1>1, <1>7
<1> QED
  BY <1>2, <1>3, <1>4, <1>5, <1>6, <1>7 DEF Tells

\* What home makes of an answer is true.
LEMMA ResultPromised ==
  ASSUME LinkType, HandedInv, AnswerInv, NEW x \in wire["peer"],
         ReceiveResult(x)
  PROVE  \/ \E t \in Tasks :
              Asked(t) \/ Learnt(t) \/ CalledOff(t) \/ Doubted({t})
         \/ KnownHere' = KnownHere /\ DeedHere' = DeedHere
<1>1. PICK t \in Tasks, outcome \in Settled, ran \in BOOLEAN :
        /\ task' = [task EXCEPT ![t] = AfterResult(task[t], outcome, ran)]
        /\ Truth(t, outcome, ran)
        /\ UNCHANGED <<work, out, verdict>>
        /\ wire'["home"] = wire["home"]
  BY ResultTask
<1>2. /\ task[t] \in {"running", "cancel_requested"} \cup Settled
      /\ ran /\ outcome \in Terminal => work[t] = outcome
      /\ ~ ran => outcome = "failed" /\ work[t] = "none"
  BY <1>1 DEF Truth, HandedInv, LinkType, HereType, HomeState
<1> DEFINE state == AfterResult(task[t], outcome, ran)
<1>3. Tells(t, state)
  <2>1. CASE task[t] \in Terminal
    BY <2>1 DEF Tells, AfterResult
  <2>2. CASE task[t] = "cancel_requested"
    BY <1>2, <2>2
    DEF Tells, AfterResult, KnownOf, Settled, Terminal
  <2>3. CASE task[t] = "running"
    BY <1>2, <2>3
    DEF Tells, AfterResult, KnownOf, Settled, Terminal
  <2>4. CASE task[t] = "uncertain"
    BY <1>2, <2>4
    DEF Tells, AfterResult, KnownOf, Settled, Terminal
  <2> QED
    BY <1>2, <2>1, <2>2, <2>3, <2>4 DEF Settled
<1> HIDE DEF state
<1> QED
  BY <1>1, <1>3, TellsPromised DEF state

\* So is what it makes of a message given up on.
LEMMA LetterPromised ==
  ASSUME LinkType, DroppedInv, SettleLetter
  PROVE  \/ \E t \in Tasks :
              Asked(t) \/ Learnt(t) \/ CalledOff(t) \/ Doubted({t})
         \/ KnownHere' = KnownHere /\ DeedHere' = DeedHere
<1>1. PICK t, letter :
        /\ letter \in letters
        /\ out["home"][letter.row].task = t
        /\ letter.row \in DOMAIN out["home"]
        /\ task' = [task EXCEPT ![t] = AfterLetter(task[t], letter)]
        /\ UNCHANGED <<work, out, verdict, wire>>
  BY LetterTask
<1> DEFINE state == AfterLetter(task[t], letter)
<1>2. CASE t \in Tasks
  <2>1. CASE task[t] \in Terminal
    <3>1. state = task[t]
      BY <2>1 DEF AfterLetter
    <3> QED
      BY <1>1, <1>2, <3>1, TellsPromised DEF Tells
  <2>2. CASE /\ task[t] \notin Terminal
             /\ out["home"][letter.row].kind = "delegate" /\ NeverActed(letter)
    <3>1. work[t] = "none"
      BY <1>1, <2>2 DEF DroppedInv, NeverActed
    <3>2. \/ task[t] = "running" /\ state = "failed"
          \/ task[t] = "cancel_requested" /\ state = "cancelled"
          \/ state = task[t]
      BY <2>2 DEF AfterLetter
    <3>3. Tells(t, state)
      BY <3>1, <3>2 DEF Tells, KnownOf
    <3> QED
      BY <1>1, <1>2, <3>3, TellsPromised
  <2>3. CASE /\ task[t] \notin Terminal
             /\ ~ (/\ out["home"][letter.row].kind = "delegate"
                   /\ NeverActed(letter))
    <3>1. state = Unknown(task[t])
      BY <2>3 DEF AfterLetter
    <3>2. Tells(t, state)
      BY <3>1 DEF Tells, Unknown, KnownOf
    <3> QED
      BY <1>1, <1>2, <3>2, TellsPromised
  <2> QED
    BY <2>1, <2>2, <2>3
<1>3. CASE t \notin Tasks
  <2>1. task' = task /\ work' = work
    BY <1>1, <1>3 DEF LinkType, HereType
  <2> QED
    BY <2>1, Mapped
<1> QED
  BY <1>2, <1>3

\* And what it makes of a skip.
LEMMA SkipPromised ==
  ASSUME LinkType, NEW n \in Node, NEW x \in wire[Other(n)], ReceiveSkip(n, x)
  PROVE  \/ \E doubtful \in SUBSET Tasks : Doubted(doubtful)
         \/ KnownHere' = KnownHere /\ DeedHere' = DeedHere
<1> DEFINE doubtful ==
      {t \in LostResults(n, out[Other(n)][x]) \cap Tasks :
         task[t] \in {"running", "cancel_requested"}}
<1>1. /\ \A t \in Tasks :
           task'[t] = IF t \in doubtful THEN "uncertain" ELSE task[t]
      /\ work' = work
  BY DEF ReceiveSkip, Unknown
<1> HIDE DEF doubtful
<1>2. /\ KnownHere' = [t \in Tasks |-> IF t \in doubtful THEN "uncertain"
                                       ELSE KnownHere[t]]
      /\ \A t \in Tasks : KnownHere[t] = KnownOf(task[t])
  BY <1>1, Mapped DEF KnownOf
<1>3. doubtful \in SUBSET Tasks /\ \A t \in doubtful : KnownHere[t] = "waiting"
  BY <1>2 DEF doubtful, KnownOf
<1>4. \A t \in Tasks : DeedOf(work'[t], task'[t]) = DeedOf(work[t], task[t])
  BY <1>1 DEF doubtful, DeedOf
<1>5. DeedHere' = DeedHere
  BY <1>4, Mapped
<1> QED
  BY <1>2, <1>3, <1>5 DEF Doubted

\* Every step of the two nodes is a step of the promise, or none of it.
LEMMA StepPromised ==
  ASSUME LinkType, StartInv, HeldInv, HandedInv, AnswerInv, DroppedInv,
         [Next]_vars
  PROVE  [Promise!Next]_(Promise!vars)
<1>1. CASE work' = work /\ task' = task
  BY <1>1, Mapped, PromiseCases
<1>2. CASE WorkStep /\ task' = task
  BY <1>2, WorkPromised, PromiseCases
<1>3. CASE work' = work
  <2>1. ASSUME NEW t \in Tasks, HandOver(t) \/ AskStop(t)
        PROVE  \/ Asked(t) \/ Learnt(t) \/ CalledOff(t) \/ Doubted({t})
               \/ KnownHere' = KnownHere /\ DeedHere' = DeedHere
    <3>1. PICK state :
            Tells(t, state) /\ task' = [task EXCEPT ![t] = state]
      BY <2>1 DEF HandOver, AskStop, Tells, KnownOf
    <3> QED
      BY <1>3, <3>1, TellsPromised
  <2> QED
    BY <1>1, <1>3, <2>1, TaskCases, ResultPromised, LetterPromised,
       SkipPromised, PromiseCases
<1> QED
  BY <1>2, <1>3, WorkCases

\* PromiseKept: PeerDelegation implements HandOverPromise, as long as the
\* pairing lasts.
THEOREM PromiseKeptHolds == ~ PairingMayEnd /\ Spec => PromiseKept
<1>1. Init => Promise!Init
  <2> SUFFICES ASSUME Init PROVE Promise!Init
    OBVIOUS
  <2>1. \A t \in Tasks : Known(t) = "none" /\ Deed(t) = "none"
    BY DEF Init, Known, Deed
  <2> QED
    BY <2>1 DEF Promise!Init
<1> QED
  BY <1>1, LinkCorrect, StartCorrect, HeldCorrect, HandedCorrect,
     AnswerCorrect, DroppedCorrect, StepPromised, PTL
  DEF Spec, Promise!Spec, PromiseKept
=============================================================================
