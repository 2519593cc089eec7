---------------------------- MODULE TaskPromise ----------------------------
(***************************************************************************)
(* What a node promises of the tasks it is asked for, whatever is refused, *)
(* stopped, asked about, cut by a crash or answered for in between: the    *)
(* work of a task is begun at most once and never without a consent that   *)
(* was asked for; a task that is said to have ended is over for good; and  *)
(* success is only said of work that was proved.  The abstract             *)
(* specification of TaskDispatch.                                          *)
(***************************************************************************)
CONSTANTS Tasks

VARIABLES
  said,    \* what the node says of the task
  work,    \* what became of its work
  consent  \* the person's approval, if it was ever asked for

vars == <<said, work, consent>>

Ended == {"succeeded", "failed", "cancelled"}
Over == {"proved", "over"}
Answer == {"granted", "denied", "expired"}

TypeOK ==
  /\ said \in [Tasks -> {"none", "open", "stopping", "uncertain"} \cup Ended]
  /\ work \in [Tasks -> {"none", "doing"} \cup Over]
  /\ consent \in [Tasks -> {"none", "asked"} \cup Answer]

Init ==
  /\ said = [t \in Tasks |-> "none"]
  /\ work = [t \in Tasks |-> "none"]
  /\ consent = [t \in Tasks |-> "none"]

\* Work that is not begun can be given up, and work that is done can end.
Outcomes(w) ==
  {w} \cup (IF w = "none" THEN {"over"} ELSE IF w = "doing" THEN Over ELSE {})

\* The node says s of the task, whose work is w from then on.
Says(t, s, w) ==
  /\ said' = [said EXCEPT ![t] = s]
  /\ work' = [work EXCEPT ![t] = w]
  /\ UNCHANGED consent

Take(t) ==
  /\ said[t] = "none"
  /\ Says(t, "open", work[t])

\* The person is asked before the work begins, and once.
Ask(t) ==
  /\ said[t] = "open" /\ work[t] = "none" /\ consent[t] = "none"
  /\ consent' = [consent EXCEPT ![t] = "asked"]
  /\ UNCHANGED <<said, work>>

Decide(t) ==
  /\ consent[t] = "asked"
  /\ consent' \in {[consent EXCEPT ![t] = d] : d \in Answer}
  /\ UNCHANGED <<said, work>>

\* A stop can come too late to keep the work from beginning.
Begin(t) ==
  /\ said[t] \in {"open", "stopping"}
  /\ work[t] = "none" /\ consent[t] \in {"none", "granted"}
  /\ Says(t, said[t], "doing")

\* The work is given up or done, and it is not said yet what came of it.
Finish(t) ==
  /\ said[t] # "none"
  /\ \E w \in Outcomes(work[t]) : Says(t, said[t], w)

\* A stop gives up what is not begun, but ends nothing by itself.
Stop(t) ==
  /\ said[t] \in {"open", "uncertain"}
  /\ \E w \in {work[t], IF work[t] = "none" THEN "over" ELSE work[t]} :
       Says(t, "stopping", w)

Doubt(t) ==
  /\ said[t] \in {"open", "stopping"}
  /\ \E w \in Outcomes(work[t]) : Says(t, "uncertain", w)

\* The node says how the task ended: nothing of it is under way any more.
End(t) ==
  /\ said[t] \in {"open", "stopping", "uncertain"}
  /\ \E s \in Ended, w \in Outcomes(work[t]) \cap Over :
       /\ s = "succeeded" => w = "proved" /\ said[t] # "stopping"
       /\ Says(t, s, w)

\* A crash cuts the work of any number of tasks.
Cut(ts) ==
  /\ \A t \in ts : said[t] # "none" /\ work[t] \in {"none", "doing"}
  /\ work' = [t \in Tasks |-> IF t \in ts THEN "over" ELSE work[t]]
  /\ UNCHANGED <<said, consent>>

Next ==
  \/ \E t \in Tasks : \/ Take(t) \/ Ask(t) \/ Decide(t) \/ Begin(t)
                      \/ Finish(t) \/ Stop(t) \/ Doubt(t) \/ End(t)
  \/ \E ts \in SUBSET Tasks : Cut(ts)

Spec == Init /\ [][Next]_vars
=============================================================================
