-------------------------- MODULE HandOverPromise --------------------------
(***************************************************************************)
(* What handing tasks to another node promises, whatever is lost, late,    *)
(* given up on or cut by a crash in between: the work of a task is begun   *)
(* at most once, and what the owner is told of it is true, or that nobody  *)
(* here knows.  The abstract specification of PeerDelegation.              *)
(***************************************************************************)
CONSTANTS Tasks

VARIABLES
  known,  \* what the node that hands the task over says of it
  deed    \* what became of it at the node it was handed to

vars == <<known, deed>>

Outcome == {"succeeded", "failed", "cancelled", "uncertain"}

TypeOK ==
  /\ known \in [Tasks -> {"none", "waiting"} \cup Outcome]
  /\ deed \in [Tasks -> {"none", "doing", "never"} \cup Outcome]

Init ==
  /\ known = [t \in Tasks |-> "none"]
  /\ deed = [t \in Tasks |-> "none"]

\* An owner who is not told how it went may ask again, for a stop.
Ask(t) ==
  /\ known[t] \in {"none", "uncertain"}
  /\ known' = [known EXCEPT ![t] = "waiting"]
  /\ UNCHANGED deed

Begin(t) ==
  /\ known[t] # "none"
  /\ deed[t] = "none"
  /\ deed' = [deed EXCEPT ![t] = "doing"]
  /\ UNCHANGED known

\* Work ends; work of which nobody knows how it ended may still be stopped.
End(t) ==
  /\ \/ deed[t] = "doing" /\ deed' \in {[deed EXCEPT ![t] = o] : o \in Outcome}
     \/ deed[t] = "uncertain" /\ deed' = [deed EXCEPT ![t] = "cancelled"]
  /\ UNCHANGED known

\* The owner is told what is true.
Learn(t) ==
  /\ known[t] \in {"waiting", "uncertain"}
  /\ deed[t] \in Outcome
  /\ known' = [known EXCEPT ![t] = deed[t]]
  /\ UNCHANGED deed

\* The owner is told the work was not done, and from then on it never is.
CallOff(t) ==
  /\ known[t] = "waiting"
  /\ deed[t] = "none"
  /\ known' \in {[known EXCEPT ![t] = o] : o \in {"failed", "cancelled"}}
  /\ deed' = [deed EXCEPT ![t] = "never"]

\* The owner is told that nobody here knows, of several tasks at once where
\* several answers were given up on together.
Doubt(doubtful) ==
  /\ \A t \in doubtful : known[t] = "waiting"
  /\ known' = [t \in Tasks |-> IF t \in doubtful THEN "uncertain" ELSE known[t]]
  /\ UNCHANGED deed

Next ==
  \/ \E t \in Tasks : Ask(t) \/ Begin(t) \/ End(t) \/ Learn(t) \/ CallOff(t)
  \/ \E doubtful \in SUBSET Tasks : Doubt(doubtful)

Spec == Init /\ [][Next]_vars
=============================================================================
