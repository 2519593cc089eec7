---------------------------- MODULE MCAutomation ----------------------------
(* Automation with values for its constants, for TLC.                      *)
EXTENDS Automation, TLC

CONSTANTS fix, call, k1

TaskAndReminder == {fix, call}
OneKey == {k1}

\* A task that answers a signal, and a reminder that repeats.
Schedules == [i \in Intents |-> IF i = fix THEN "signal" ELSE "every"]
Actions == [i \in Intents |-> IF i = fix THEN "task" ELSE "remind"]
=============================================================================
