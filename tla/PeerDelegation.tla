--------------------------- MODULE PeerDelegation ---------------------------
(***************************************************************************)
(* A task one node hands to a paired node: the hand-over, its answer and   *)
(* a stop (apps/runtime/src/delegation.ts), carried by the durable outbox  *)
(* of each node (storage outbox.ts), the delivery pass (peer-transport.ts, *)
(* peer-signals.ts), the receiving gateway with its inbox and cursor       *)
(* (node-link, storage inbox.ts, routes/peers.ts), skips of what was given *)
(* up on (peer-skip.ts) and the boot of the executing node.                *)
(*                                                                         *)
(* "home" hands tasks over, "peer" runs them.  thread[n] is what the       *)
(* current stretch of synchronous code of node n still has to do; a crash  *)
(* of n may cut it between two of its transactions.  A stretch touches     *)
(* nothing the other node reads before its end, so a stretch is over, or   *)
(* cut by a crash, before either node does anything else.                  *)
(***************************************************************************)
EXTENDS Naturals, Sequences, FiniteSets, FiniteSetsExt

CONSTANTS
  Tasks,         \* task ids
  NoTask,        \* no task
  Verdicts,      \* what the peer may make of a hand-over
  MaxTries,      \* MAX_OUTBOX_ATTEMPTS
  MaxLost,       \* PEER_SKIP_LOST_MAX
  MaxFailures,   \* bound: requests or answers that are lost
  MaxCrashes,    \* bound: crashes of the two nodes together
  MaxStops,      \* bound: stops asked for
  PairingMayEnd, \* an owner may revoke the pairing
  OwnerMayStop   \* the peer's owner may stop a task handed to it

Verdict == {"runs", "parks", "refused"}

ASSUME TasksAssumption == NoTask \notin Tasks
ASSUME VerdictsAssumption == Verdicts \subseteq Verdict
ASSUME BoundsAssumption ==
  /\ MaxTries \in Nat \ {0}
  /\ MaxLost \in Nat \ {0}
  /\ MaxFailures \in Nat
  /\ MaxCrashes \in Nat
  /\ MaxStops \in Nat
ASSUME FlagsAssumption == {PairingMayEnd, OwnerMayStop} \subseteq BOOLEAN

VARIABLES
  \* the databases: they survive a crash
  task,      \* state of each task at home
  work,      \* state of the same task at the peer, "none" without a row
  verdict,   \* what the peer's owner and grants make of each hand-over
  out,       \* outbox of each node, a row never leaves it
  seen,      \* rows of the other's outbox each node has in its inbox
  cursor,    \* last sequence each node took from the other, 0 for none
  revoked,   \* nodes whose owner ended the pairing
  \* memory
  sending,   \* the row each node's delivery pass waits on, 0 for none
  letters,   \* rows home gave up on, not yet settled
  starting,  \* tasks the peer is about to give its dispatcher
  held,      \* tasks the peer's dispatcher holds
  thread,    \* what each node's current stretch of code still has to do
  \* the network
  wire,      \* rows on their way, some of them of attempts given up; of two
             \* copies of a row the inbox answers one, so they are one here
  reply,     \* what came back for each node's attempt
  \* counters and history
  failures, crashes,
  starts     \* how often a worker was started for each task

databases == <<task, work, verdict, out, seen, cursor, revoked>>
memory == <<sending, letters, starting, held, thread>>
network == <<wire, reply>>
counters == <<failures, crashes, starts>>
vars == <<databases, memory, network, counters>>

Node == {"home", "peer"}
Other(n) == IF n = "home" THEN "peer" ELSE "home"

Terminal == {"succeeded", "failed", "cancelled"}
Settled == Terminal \cup {"uncertain"}
HomeState == {"none", "running", "cancel_requested"} \cup Settled
PeerState == HomeState \cup {"queued", "resolving", "parked"}
Kind == {"pair.confirm", "delegate", "cancel.request", "result", "skip"}
Reply == {"none", "ok", "skipped", "lost", "unauthorized", "invalid", "gap"}
-----------------------------------------------------------------------------
\* A stretch: its next step, the task and outcome it is about, the request it
\* handles (0 when it handles none), and whether that request skips something.
Stretch(at, t, outcome, ran, row) ==
  [at |-> at, task |-> t, outcome |-> outcome, ran |-> ran, row |-> row]
Idle == Stretch("return", NoTask, "none", FALSE, 0)

Ready == \A n \in Node : thread[n] = Idle
At(n, step) == thread[n].at = step
Go(n, stretch) == thread' = [thread EXCEPT ![n] = stretch]

\* A row of an outbox.  unreached: its last attempt failed for every message.
Envelope(kind, t, outcome, ran, seq, lost) ==
  [kind |-> kind, task |-> t, outcome |-> outcome, ran |-> ran, seq |-> seq,
   lost |-> lost, tries |-> 0, sent |-> FALSE, state |-> "owed",
   unreached |-> FALSE]

Sequences(rows) == {rows[r].seq : r \in DOMAIN rows}

\* Mutant of NextSequence: only what is still owed counts.
NextSequenceOfOwed(rows) ==
  Max({0} \cup {rows[r].seq : r \in {x \in DOMAIN rows : rows[x].state = "owed"}}) + 1

\* nextOutboundSequence.
NextSequence(rows) == Max({0} \cup Sequences(rows)) + 1

\* sendEnvelope: the intent is recorded before anything is transmitted.
Send(n, kind, t, outcome, ran) ==
  out' = [out EXCEPT ![n] =
            Append(@, Envelope(kind, t, outcome, ran, NextSequence(@), {}))]

Owed(rows) == {r \in DOMAIN rows : rows[r].state = "owed"}

\* The lowest sequence still owed: the only row a pass sends.
IsHead(rows, r) ==
  /\ r \in Owed(rows)
  /\ \A other \in Owed(rows) : rows[r].seq <= rows[other].seq

\* The hand-overs of t, of which there is one at most.
HandOvers(t) ==
  {r \in DOMAIN out["home"] :
     out["home"][r].kind = "delegate" /\ out["home"][r].task = t}

Stops ==
  Cardinality({r \in DOMAIN out["home"] : out["home"][r].kind = "cancel.request"})

\* The grant was given and acknowledged before anything is handed over; the
\* peer has sent home nothing yet.
Init ==
  /\ task = [t \in Tasks |-> "none"]
  /\ work = [t \in Tasks |-> "none"]
  /\ verdict \in [Tasks -> Verdicts]
  /\ out = [n \in Node |->
              IF n = "peer" THEN << >>
              ELSE <<[Envelope("pair.confirm", NoTask, "none", FALSE, 1, {})
                        EXCEPT !.state = "acked", !.tries = 1, !.sent = TRUE]>>]
  /\ seen = [n \in Node |-> IF n = "peer" THEN {1} ELSE {}]
  /\ cursor = [n \in Node |-> IF n = "peer" THEN 1 ELSE 0]
  /\ revoked = {}
  /\ sending = [n \in Node |-> 0]
  /\ letters = {}
  /\ starting = {}
  /\ held = {}
  /\ thread = [n \in Node |-> Idle]
  /\ wire = [n \in Node |-> {}]
  /\ reply = [n \in Node |-> "none"]
  /\ failures = 0
  /\ crashes = 0
  /\ starts = [t \in Tasks |-> 0]
-----------------------------------------------------------------------------
(* The task at home.                                                       *)

\* prepareIntentRun: the task runs at the peer, and the hand-over is queued in
\* the write that says so.
HandOver(t) ==
  /\ Ready
  /\ task[t] = "none"
  /\ task' = [task EXCEPT ![t] = "running"]
  /\ Send("home", "delegate", t, "none", FALSE)
  /\ UNCHANGED <<work, verdict, seen, cursor, revoked, memory, network,
                 counters>>

\* cancelTask, up to the event.
AskStop(t) ==
  /\ Ready
  /\ task[t] \in {"running", "uncertain"}
  /\ Stops < MaxStops
  /\ task' = [task EXCEPT ![t] = "cancel_requested"]
  /\ Go("home", Stretch("notify", t, "none", FALSE, 0))
  /\ UNCHANGED <<work, verdict, out, seen, cursor, revoked, sending, letters,
                 starting, held, network, counters>>

\* notifyExecutingPeer.
Notify ==
  /\ At("home", "notify")
  /\ Send("home", "cancel.request", thread["home"].task, "none", FALSE)
  /\ Go("home", Idle)
  /\ UNCHANGED <<task, work, verdict, seen, cursor, revoked, sending, letters,
                 starting, held, network, counters>>

\* receiveResult: the state an answer leaves the task in.
AfterResult(state, outcome, ran) ==
  IF state \in Terminal THEN state
  ELSE IF state = "cancel_requested"
    THEN IF outcome = "cancelled" \/ ~ran THEN "cancelled" ELSE "uncertain"
  ELSE IF state = "running" \/ outcome = "cancelled" THEN outcome
  ELSE state

\* effect.unknown, where the machine takes it.
Unknown(state) ==
  IF state \in {"running", "cancel_requested"} THEN "uncertain" ELSE state

\* Mutant of NeverActed: a hand-over without an answer was never acted on.
NeverActedUnanswered(letter) == TRUE

\* A hand-over the peer turned down, or that never left this node.
NeverActed(letter) == letter.refused \/ letter.neverSent

\* Mutant of AfterLetter: a stop given up on settles nothing.
AfterLetterOfHandOver(state, letter) ==
  IF state \in Terminal \/ out["home"][letter.row].kind # "delegate" THEN state
  ELSE IF ~NeverActed(letter) THEN Unknown(state)
  ELSE IF state = "cancel_requested" THEN "cancelled" ELSE "failed"

\* settleUndelivered: the state a row given up on leaves its task in.
AfterLetter(state, letter) ==
  IF state \in Terminal THEN state
  ELSE IF out["home"][letter.row].kind = "delegate" /\ NeverActed(letter)
    THEN CASE state = "cancel_requested" -> "cancelled"
           [] state = "running" -> "failed"
           [] OTHER -> state
  ELSE Unknown(state)

\* onDeadLettered, once the pass that gave the row up is over.
SettleLetter ==
  /\ Ready
  /\ sending["home"] = 0
  /\ \E letter \in letters :
       /\ letters' = letters \ {letter}
       /\ LET t == out["home"][letter.row].task IN
          task' = [task EXCEPT ![t] = AfterLetter(@, letter)]
  /\ UNCHANGED <<work, verdict, out, seen, cursor, revoked, sending, starting,
                 held, thread, network, counters>>
-----------------------------------------------------------------------------
(* The task at the peer.                                                   *)

\* startTaskHere, its first event: the task begins to resolve.
Resolve ==
  /\ At("peer", "resolve")
  /\ work' = [work EXCEPT ![thread["peer"].task] = "resolving"]
  /\ Go("peer", [thread["peer"] EXCEPT !.at = "ready"])
  /\ UNCHANGED <<task, verdict, out, seen, cursor, revoked, sending, letters,
                 starting, held, network, counters>>

\* startTaskHere, the rest: the task waits for a capability, or is
\* acknowledged and goes to the dispatcher once this stretch is over.
ReadyHere ==
  /\ At("peer", "ready")
  /\ LET t == thread["peer"].task
         parks == verdict[t] = "parks" IN
     /\ work' = [work EXCEPT ![t] = IF parks THEN "parked" ELSE "running"]
     /\ starting' = IF parks THEN starting ELSE starting \cup {t}
  /\ Go("peer", [thread["peer"] EXCEPT !.at = "record"])
  /\ UNCHANGED <<task, verdict, out, seen, cursor, revoked, sending, letters,
                 held, network, counters>>

\* The dispatcher takes the task: its worker is started.
Hold(t) ==
  /\ held' = held \cup {t}
  /\ starts' = [starts EXCEPT ![t] = @ + 1]

\* resumeCapabilityWaiters: the capability a task waits for became usable.
CapabilityReady(t) ==
  /\ Ready
  /\ work[t] = "parked"
  /\ work' = [work EXCEPT ![t] = "running"]
  /\ Hold(t)
  /\ UNCHANGED <<task, verdict, out, seen, cursor, revoked, sending, letters,
                 starting, thread, network, failures, crashes>>

\* startTask, from its setImmediate: a task stopped meanwhile is not started.
StartTask(t) ==
  /\ Ready
  /\ t \in starting
  /\ starting' = starting \ {t}
  /\ IF work[t] = "running" THEN Hold(t) ELSE UNCHANGED <<held, starts>>
  /\ UNCHANGED <<databases, sending, letters, thread, network, failures,
                 crashes>>

Reports(state) ==
  IF state = "cancel_requested" THEN {"cancelled", "uncertain"}
                                ELSE {"succeeded", "failed", "uncertain"}

\* The worker is done: the task is settled, and then the answer is queued.
WorkerEnds(t) ==
  /\ Ready
  /\ t \in held
  /\ held' = held \ {t}
  /\ \E outcome \in Reports(work[t]) :
       /\ work' = [work EXCEPT ![t] = outcome]
       /\ Go("peer", Stretch("answer", t, outcome, TRUE, 0))
  /\ UNCHANGED <<task, verdict, out, seen, cursor, revoked, sending, letters,
                 starting, network, counters>>

\* What follows an answer: the request it answers is recorded; a boot goes on.
AfterAnswer(stretch) ==
  IF stretch.at = "answer_boot" THEN Stretch("boot", NoTask, "none", FALSE, 0)
  ELSE IF stretch.row # 0 THEN [stretch EXCEPT !.at = "record"]
  ELSE Idle

\* queueResult.
Answer ==
  /\ thread["peer"].at \in {"answer", "answer_boot"}
  /\ LET now == thread["peer"] IN
     /\ Send("peer", "result", now.task, now.outcome, now.ran)
     /\ Go("peer", AfterAnswer(now))
  /\ UNCHANGED <<task, work, verdict, seen, cursor, revoked, sending, letters,
                 starting, held, network, counters>>

\* A task no worker holds is stopped at once, one that is held waits for it.
AfterStop(t) ==
  IF work[t] \in Terminal \cup {"none", "cancel_requested"} THEN work[t]
  ELSE IF t \in held THEN "cancel_requested" ELSE "cancelled"

\* The peer's owner stops the task (routes/control.ts): nothing is answered.
OwnerStops(t) ==
  /\ OwnerMayStop
  /\ Ready
  /\ AfterStop(t) # work[t]
  /\ work' = [work EXCEPT ![t] = AfterStop(t)]
  /\ UNCHANGED <<task, verdict, out, seen, cursor, revoked, memory, network,
                 counters>>
-----------------------------------------------------------------------------
(* The delivery pass of a node.                                            *)

\* recordTransmissionAttempt, and the request leaves.
Attempt(n) ==
  /\ Ready
  /\ sending[n] = 0
  /\ n \notin revoked
  /\ \E r \in DOMAIN out[n] :
       /\ IsHead(out[n], r)
       /\ out' = [out EXCEPT ![n][r].tries = @ + 1, ![n][r].sent = TRUE]
       /\ sending' = [sending EXCEPT ![n] = r]
       /\ wire' = [wire EXCEPT ![n] = @ \cup {r}]
  /\ reply' = [reply EXCEPT ![n] = "none"]
  /\ UNCHANGED <<task, work, verdict, seen, cursor, revoked, letters, starting,
                 held, thread, counters>>

\* The request of the attempt node n waits on.
Current(n, request) ==
  /\ sending[n] = request
  /\ reply[n] = "none"

\* The connection fails, or the attempt's deadline passes: the request may
\* never arrive, arrive later, or have been handled already.
Lose(n) ==
  /\ Ready
  /\ sending[n] # 0
  /\ reply[n] # "lost"
  /\ failures < MaxFailures
  /\ failures' = failures + 1
  /\ reply' = [reply EXCEPT ![n] = "lost"]
  /\ \/ wire' = [wire EXCEPT ![n] = @ \ {sending[n]}]
     \/ UNCHANGED wire /\ sending[n] \in wire[n]
  /\ UNCHANGED <<databases, memory, crashes, starts>>

\* recordAcknowledgement; a skip the peer accepted may be followed by another.
Acknowledged(n) ==
  /\ Ready
  /\ sending[n] # 0
  /\ reply[n] \in {"ok", "skipped"}
  /\ out' = [out EXCEPT ![n][sending[n]].state = "acked"]
  /\ sending' = [sending EXCEPT ![n] = 0]
  /\ reply' = [reply EXCEPT ![n] = "none"]
  /\ IF reply[n] = "skipped" THEN Go(n, Stretch("skip", NoTask, "none", FALSE, 0))
                             ELSE UNCHANGED thread
  /\ UNCHANGED <<task, work, verdict, seen, cursor, revoked, letters, starting,
                 held, wire, counters>>

\* Mutant of Failed: a row is retried for ever.
FailedForEver(row) == row

\* markOutboxFailed.
Failed(row) ==
  [row EXCEPT !.state = IF row.tries >= MaxTries THEN "dead" ELSE "owed"]

\* failedForEveryMessage: what waits behind would have failed the same way.
ForEveryMessage(answer) == answer \in {"lost", "unauthorized"}

\* holdBack: counted as failing, though nothing is dialled for it.
HeldBack(row) == Failed([row EXCEPT !.tries = @ + 1, !.unreached = TRUE])

\* gaveUp: what is known of a row given up on, refused or only unanswered.
Letter(rows, r, refused) ==
  [row |-> r, refused |-> refused, neverSent |-> ~rows[r].sent /\ ~refused]

\* Mutant of LettersOf: only what was turned down is told.
LettersOfRefused(n, rows, lost, refused) ==
  IF n = "peer" \/ ~refused THEN {}
  ELSE {Letter(rows, r, refused) : r \in {x \in lost : rows[x].kind # "skip"}}

\* Only home waits on what it gives up on, and nothing waits on a skip.
LettersOf(n, rows, lost, refused) ==
  IF n = "peer" THEN {}
  ELSE {Letter(rows, r, refused) : r \in {x \in lost : rows[x].kind # "skip"}}

\* The rows once those of back are counted as failing too.
HoldingBack(rows, back) ==
  [r \in DOMAIN rows |-> IF r \in back THEN HeldBack(rows[r]) ELSE rows[r]]

\* What may be due behind the lowest row.  A backoff depends on the count alone,
\* so no row has failed more often than one queued before it; only a skip is
\* queued into an earlier slot.
MayBeDue(rows, back) ==
  \A b \in back : \A r \in Owed(rows) :
    rows[r].kind # "skip" /\ rows[r].seq < rows[b].seq =>
      rows[b].tries < rows[r].tries + IF r \in back THEN 1 ELSE 0

GivenUp(rows) == {r \in DOMAIN rows : rows[r].state = "dead"}

\* An attempt failed: its row and those due behind it are counted, and given
\* up on after MaxTries.  For what is given up on a skip may be owed.
DeliveryFailed(n) ==
  LET mine == sending[n]
      every == ForEveryMessage(reply[n])
      refused == reply[n] # "lost" IN
  /\ Ready
  /\ mine # 0
  /\ reply[n] \in {"lost", "unauthorized", "invalid", "gap"}
  /\ \E back \in IF every THEN SUBSET (Owed(out[n]) \ {mine}) ELSE {{}} :
       LET rows == HoldingBack([out[n] EXCEPT ![mine] =
                                  [Failed(@) EXCEPT !.unreached = every]], back)
           lost == GivenUp(rows) \ GivenUp(out[n]) IN
       /\ MayBeDue(out[n], back)
       /\ out' = [out EXCEPT ![n] = rows]
       /\ letters' = letters
            \cup LettersOf(n, rows, lost \cap {mine}, refused)
            \cup LettersOf(n, rows, lost \ {mine}, FALSE)
       /\ IF reply[n] = "gap" \/ \E r \in lost : rows[r].kind # "skip"
            THEN Go(n, Stretch("skip", NoTask, "none", FALSE, 0))
            ELSE UNCHANGED thread
  /\ sending' = [sending EXCEPT ![n] = 0]
  /\ reply' = [reply EXCEPT ![n] = "none"]
  /\ UNCHANGED <<task, work, verdict, seen, cursor, revoked, starting, held,
                 wire, counters>>

\* A later pass, while the lowest row waits out its backoff: what is due behind
\* a row that could not reach the peer goes on failing.
HoldBack(n) ==
  /\ Ready
  /\ sending[n] = 0
  /\ n \notin revoked
  /\ \E head \in Owed(out[n]) : \E back \in SUBSET (Owed(out[n]) \ {head}) :
       LET rows == HoldingBack(out[n], back) IN
       /\ IsHead(out[n], head)
       /\ out[n][head].unreached
       /\ back # {} /\ MayBeDue(out[n], back)
       /\ out' = [out EXCEPT ![n] = rows]
       /\ letters' = letters
            \cup LettersOf(n, rows, GivenUp(rows) \ GivenUp(out[n]), FALSE)
  /\ UNCHANGED <<task, work, verdict, seen, cursor, revoked, sending, starting,
                 held, thread, network, counters>>

\* acknowledgedThrough of the skip ledger.
AcknowledgedThrough(rows) ==
  Max({0} \cup {rows[r].seq : r \in {x \in DOMAIN rows : rows[x].state = "acked"}})

\* gapsLeft: given up on, and after all that was acknowledged.
GapsLeft(rows) ==
  {r \in DOMAIN rows :
     /\ rows[r].state = "dead"
     /\ rows[r].kind # "skip"
     /\ rows[r].seq > AcknowledgedThrough(rows)}

\* What a skip may cover: the lowest MaxLost of the gaps before all that is owed.
Skippable(rows) ==
  {r \in GapsLeft(rows) :
     /\ \A other \in Owed(rows) : rows[r].seq < rows[other].seq
     /\ Cardinality({x \in GapsLeft(rows) : rows[x].seq < rows[r].seq}) < MaxLost}

\* queueSkip: one skip at a time, in the slot of the last row it covers.
QueueSkip(n) ==
  /\ At(n, "skip")
  /\ LET rows == out[n]
         lost == Skippable(rows)
         owesSkip == \E r \in Owed(rows) : rows[r].kind = "skip" IN
     IF lost = {} \/ owesSkip THEN UNCHANGED out
     ELSE out' = [out EXCEPT ![n] =
            Append(@, Envelope("skip", NoTask, "none", FALSE,
                               Max({rows[r].seq : r \in lost}), lost))]
  /\ Go(n, Idle)
  /\ UNCHANGED <<task, work, verdict, seen, cursor, revoked, sending, letters,
                 starting, held, network, counters>>

\* revokePeer, on a person's word.
EndPairing(n) ==
  /\ PairingMayEnd
  /\ Ready
  /\ revoked = {}
  /\ revoked' = {n}
  /\ UNCHANGED <<task, work, verdict, out, seen, cursor, memory, network,
                 counters>>

\* The pass gives up at once on what is owed to a node no longer paired.
GiveUpRevoked(n) ==
  /\ Ready
  /\ n \in revoked
  /\ sending[n] = 0
  /\ \E r \in Owed(out[n]) :
       /\ out' = [out EXCEPT ![n][r].state = "dead"]
       /\ letters' = letters \cup LettersOf(n, out[n], {r}, TRUE)
  /\ UNCHANGED <<task, work, verdict, seen, cursor, revoked, sending, starting,
                 held, thread, network, counters>>
-----------------------------------------------------------------------------
(* The gateway of a node: what it does with a request of the other.        *)

\* The request leaves the wire; its answer counts if it is still waited for.
Take(n, request, answer) ==
  /\ wire' = [wire EXCEPT ![n] = @ \ {request}]
  /\ reply' = IF Current(n, request) /\ answer # "none"
                THEN [reply EXCEPT ![n] = answer] ELSE reply

\* How a recorded request was answered.  A recorded skip was not stale, so it
\* skipped the last row it covers at least.
Answered(row) == IF row.kind = "skip" THEN "skipped" ELSE "ok"

\* Mutant of Turned: a stale sequence is refused before the inbox is asked.
TurnedStaleFirst(m, request) ==
  LET row == out[Other(m)][request] IN
  IF m \in revoked THEN "unauthorized"
  ELSE IF cursor[m] # 0 /\ row.seq <= cursor[m] /\ row.kind # "skip" THEN "invalid"
  ELSE IF request \in seen[m] THEN Answered(row)
  ELSE IF cursor[m] # 0 /\ row.seq > cursor[m] + 1 /\ row.kind # "skip" THEN "gap"
  ELSE "none"

\* authenticatePeer and receiveEnvelope, as far as they end without a handler.
Turned(m, request) ==
  LET row == out[Other(m)][request] IN
  IF m \in revoked THEN "unauthorized"
  ELSE IF request \in seen[m] THEN Answered(row)
  ELSE IF cursor[m] # 0 /\ row.seq <= cursor[m]
    THEN IF row.kind = "skip" THEN "ok" ELSE "invalid"
  ELSE IF cursor[m] # 0 /\ row.seq > cursor[m] + 1 /\ row.kind # "skip" THEN "gap"
  ELSE "none"

Refuse(m) ==
  /\ Ready
  /\ \E request \in wire[Other(m)] :
       /\ Turned(m, request) # "none"
       /\ Take(Other(m), request, Turned(m, request))
  /\ UNCHANGED <<databases, memory, counters>>

\* What a skip covers and this node had not received.
NeverArrived(m, row) ==
  {r \in row.lost : cursor[m] = 0 \/ out[Other(m)][r].seq > cursor[m]}

\* The request is answered only once it is recorded.
Handle(m, request) ==
  /\ Ready
  /\ request \in wire[Other(m)]
  /\ Turned(m, request) = "none"
  /\ wire' = [wire EXCEPT ![Other(m)] = @ \ {request}]

HandleKind(m, request, kind) ==
  /\ Handle(m, request)
  /\ out[Other(m)][request].kind = kind

\* Mutant of Existing: every hand-over makes a task.
ExistingNever(t) == FALSE

\* The task a hand-over names is already here.
Existing(t) == work[t] # "none"

\* receiveDelegate: a task is made and resolved, refused, or found.
ReceiveDelegate(request) ==
  LET t == out["home"][request].task
      go(at, outcome) ==
        Go("peer", Stretch(at, t, outcome, FALSE, request)) IN
  /\ HandleKind("peer", request, "delegate")
  /\ IF Existing(t)
       THEN /\ UNCHANGED work
            /\ go(IF work[t] = "queued" THEN "resolve" ELSE "record", "none")
     ELSE IF verdict[t] = "refused"
       THEN UNCHANGED work /\ go("answer", "failed")
     ELSE /\ work' = [work EXCEPT ![t] = "queued"]
          /\ go("resolve", "none")
  /\ UNCHANGED <<task, verdict, out, seen, cursor, revoked, sending, letters,
                 starting, held, reply, counters>>

\* receiveCancel: a task nothing holds is stopped here, and that is answered.
ReceiveCancel(request) ==
  LET t == out["home"][request].task
      stopped == AfterStop(t) = "cancelled" /\ work[t] # "cancelled" IN
  /\ HandleKind("peer", request, "cancel.request")
  /\ work' = [work EXCEPT ![t] = AfterStop(t)]
  /\ Go("peer", Stretch(IF stopped THEN "answer" ELSE "record", t,
                        "cancelled", TRUE, request))
  /\ UNCHANGED <<task, verdict, out, seen, cursor, revoked, sending, letters,
                 starting, held, reply, counters>>

\* receiveResult.
ReceiveResult(request) ==
  LET row == out["peer"][request] IN
  /\ HandleKind("home", request, "result")
  /\ task' = [task EXCEPT ![row.task] = AfterResult(@, row.outcome, row.ran)]
  /\ Go("home", Stretch("record", NoTask, "none", FALSE, request))
  /\ UNCHANGED <<work, verdict, out, seen, cursor, revoked, sending, letters,
                 starting, held, reply, counters>>

\* Mutant of LostResults: a skip settles nothing.
LostResultsNone(m, row) == {}

\* The tasks whose answer a skip says was given up on.
LostResults(m, row) ==
  {out[Other(m)][r].task :
     r \in {x \in NeverArrived(m, row) : out[Other(m)][x].kind = "result"}}

\* receivePeerSkip, with settleLostResult at home.
ReceiveSkip(m, request) ==
  LET row == out[Other(m)][request] IN
  /\ HandleKind(m, request, "skip")
  /\ task' = [t \in Tasks |->
                IF t \in LostResults(m, row) THEN Unknown(task[t]) ELSE task[t]]
  /\ Go(m, Stretch("record", NoTask, "none", FALSE, request))
  /\ UNCHANGED <<work, verdict, out, seen, cursor, revoked, sending, letters,
                 starting, held, reply, counters>>

\* The attempt of node n whose request its other is handling.
Awaited(n) ==
  /\ sending[n] # 0
  /\ sending[n] = thread[Other(n)].row
  /\ reply[n] = "none"
  /\ \A request \in wire[n] : ~Current(n, request)

\* recordInbox: the request is known from now on, and the cursor moves to it,
\* over a gap only for a skip.
Record(m) ==
  LET n == Other(m)
      row == out[n][thread[m].row] IN
  /\ At(m, "record")
  /\ seen' = [seen EXCEPT ![m] = @ \cup {thread[m].row}]
  /\ cursor' = [cursor EXCEPT ![m] = row.seq]
  /\ reply' = [reply EXCEPT ![n] = IF Awaited(n) THEN Answered(row) ELSE @]
  /\ Go(m, Idle)
  /\ UNCHANGED <<task, work, verdict, out, revoked, sending, letters, starting,
                 held, wire, counters>>
-----------------------------------------------------------------------------
(* Crashes.                                                                *)

\* A node stops anywhere and starts again: what it had in memory is gone.
Crash(n) ==
  /\ thread[Other(n)] = Idle
  /\ crashes < MaxCrashes
  /\ crashes' = crashes + 1
  /\ sending' = [sending EXCEPT ![n] = 0]
  /\ reply' = [m \in Node |-> IF m = n THEN "none"
                               ELSE IF Awaited(m) THEN "lost" ELSE reply[m]]
  /\ letters' = IF n = "home" THEN {} ELSE letters
  /\ starting' = IF n = "peer" THEN {} ELSE starting
  /\ held' = IF n = "peer" THEN {} ELSE held
  /\ Go(n, IF n = "peer" THEN Stretch("boot", NoTask, "none", FALSE, 0) ELSE Idle)
  /\ UNCHANGED <<databases, wire, failures, starts>>

Interrupted == {"running", "cancel_requested"}

\* interruptTasks of the peer's boot: what it was executing is uncertain, and
\* the node that handed it over is told.  Tasks another node executes are not
\* touched, so home's boot has nothing to do.
Boot ==
  /\ At("peer", "boot")
  /\ \/ \E t \in Tasks :
          /\ work[t] \in Interrupted
          /\ work' = [work EXCEPT ![t] = "uncertain"]
          /\ Go("peer", Stretch("answer_boot", t, "uncertain", TRUE, 0))
     \/ /\ \A t \in Tasks : work[t] \notin Interrupted
        /\ UNCHANGED work
        /\ Go("peer", Idle)
  /\ UNCHANGED <<task, verdict, out, seen, cursor, revoked, sending, letters,
                 starting, held, network, counters>>
-----------------------------------------------------------------------------
Home ==
  \/ Notify
  \/ SettleLetter
  \/ \E t \in Tasks : HandOver(t) \/ AskStop(t)
  \/ \E request \in wire["peer"] : ReceiveResult(request)

Peer ==
  \/ Resolve
  \/ ReadyHere
  \/ Answer
  \/ Boot
  \/ \E t \in Tasks :
       CapabilityReady(t) \/ StartTask(t) \/ WorkerEnds(t) \/ OwnerStops(t)
  \/ \E request \in wire["home"] :
       ReceiveDelegate(request) \/ ReceiveCancel(request)

Link(n) ==
  \/ Attempt(n)
  \/ Lose(n)
  \/ Acknowledged(n)
  \/ DeliveryFailed(n)
  \/ HoldBack(n)
  \/ QueueSkip(n)
  \/ EndPairing(n)
  \/ GiveUpRevoked(n)
  \/ Refuse(n)
  \/ Record(n)
  \/ Crash(n)
  \/ \E request \in wire[Other(n)] : ReceiveSkip(n, request)

Next == Home \/ Peer \/ \E n \in Node : Link(n)

Spec == Init /\ [][Next]_vars

\* What the nodes do by themselves: a stretch of code goes on, timers start
\* passes, an attempt has a deadline, a run has one too.  Nobody has to hand
\* over or stop a task, end a pairing or make a capability usable, nothing has
\* to be lost or to crash, and the wait of a backoff may be any.
Progress ==
  \/ Notify \/ SettleLetter \/ Resolve \/ ReadyHere \/ Answer \/ Boot
  \/ \E t \in Tasks : StartTask(t) \/ WorkerEnds(t)
  \/ \E request \in wire["home"] :
       ReceiveDelegate(request) \/ ReceiveCancel(request)
  \/ \E request \in wire["peer"] : ReceiveResult(request)
  \/ \E n \in Node :
       \/ Attempt(n) \/ Acknowledged(n) \/ DeliveryFailed(n)
       \/ QueueSkip(n) \/ GiveUpRevoked(n) \/ Refuse(n) \/ Record(n)
       \/ \E request \in wire[Other(n)] : ReceiveSkip(n, request)

FairSpec == Spec /\ WF_vars(Progress)
-----------------------------------------------------------------------------
(* Properties.                                                             *)

RowType ==
  [kind : Kind, task : Tasks \cup {NoTask}, outcome : Settled \cup {"none"},
   ran : BOOLEAN, seq : Nat \ {0}, lost : SUBSET Nat, tries : 0..(MaxTries + crashes),
   sent : BOOLEAN, state : {"owed", "acked", "dead"}, unreached : BOOLEAN]

Steps == {"return", "notify", "resolve", "ready", "answer", "answer_boot",
          "boot", "skip", "record"}

StretchType ==
  [at : Steps, task : Tasks \cup {NoTask}, outcome : Settled \cup {"none"},
   ran : BOOLEAN, row : Nat]

\* Every variable has its type, every row named is a row of its outbox, and no
\* row is tried more often than the outbox allows, crashes apart.
TypeOK ==
  /\ task \in [Tasks -> HomeState]
  /\ work \in [Tasks -> PeerState]
  /\ verdict \in [Tasks -> Verdicts]
  /\ \A n \in Node :
       /\ \A r \in DOMAIN out[n] : out[n][r] \in RowType
       /\ seen[n] \subseteq DOMAIN out[Other(n)]
       /\ cursor[n] \in {0} \cup Sequences(out[Other(n)])
       /\ wire[n] \subseteq DOMAIN out[n]
       /\ sending[n] \in {0} \cup DOMAIN out[n]
       /\ thread[n] \in StretchType
       /\ reply[n] \in Reply
  /\ revoked \in SUBSET Node
  /\ letters \subseteq
       [row : DOMAIN out["home"], refused : BOOLEAN, neverSent : BOOLEAN]
  /\ starting \cup held \subseteq Tasks
  /\ failures \in 0..MaxFailures
  /\ crashes \in 0..MaxCrashes
  /\ starts \in [Tasks -> Nat]

\* However often a hand-over arrives, around whatever crash, its work is begun
\* once at most (receiveDelegate finds the task that is already there).
RunsOnce == \A t \in Tasks : starts[t] <= 1

\* What a node still owes can still be taken: it is after the cursor of the
\* other or in its inbox, and no skip has jumped over it (queueSkip stops
\* before what is owed, receivePeerSkip moves the cursor over the rest).
OwedIsDeliverable ==
  \A n \in Node : \A r \in Owed(out[n]) :
    out[n][r].kind # "skip" =>
      r \in seen[Other(n)] \/ out[n][r].seq > cursor[Other(n)]

\* A hand-over home takes for turned down was not acted on: the node it went to
\* has no such task (DeadLetter, settleUndelivered).
RefusedWasNotActedOn ==
  \A letter \in letters :
    letter.refused /\ out["home"][letter.row].kind = "delegate"
      => work[out["home"][letter.row].task] = "none"

Known(t) ==
  CASE task[t] \in {"running", "cancel_requested"} -> "waiting"
    [] OTHER -> task[t]

Deed(t) ==
  CASE work[t] = "none" ->
         IF task[t] \in {"failed", "cancelled"} THEN "never" ELSE "none"
    [] work[t] \in Settled -> work[t]
    [] OTHER -> "doing"

Promise == INSTANCE HandOverPromise WITH
  known <- [t \in Tasks |-> Known(t)],
  deed <- [t \in Tasks |-> Deed(t)]

\* Every step of the two nodes is a step of the promise, or none of its
\* business: work is begun once at most, and what home says of a task is what
\* became of it at the peer, or that it does not know.
PromiseKept == Promise!Spec

\* While the pairing lasts a task handed over does not wait for ever: it is
\* settled, or its work waits for a capability at the peer.
HandOverIsSettled ==
  \A t \in Tasks :
    task[t] = "running" ~>
      \/ task[t] \in Settled \cup {"cancel_requested"}
      \/ work[t] = "parked"
      \/ revoked # {}

\* While the pairing lasts a stop of work that is not over at the peer is
\* answered, or called unknown.
StopIsSettled ==
  \A t \in Tasks :
    task[t] = "cancel_requested" /\ work[t] \notin Settled \cup {"none"} ~>
      task[t] \in Settled \/ revoked # {}

\* A hand-over given up on, the end of the pairing included, settles the task
\* that waits on it (onDeadLettered; docs/system-architecture.md:753).
DeadLetterSettles ==
  \A t \in Tasks :
    /\ task[t] = "running"
    /\ \E r \in HandOvers(t) : out["home"][r].state = "dead"
    ~> task[t] # "running"
=============================================================================
