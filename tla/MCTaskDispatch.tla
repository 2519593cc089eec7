-------------------------- MODULE MCTaskDispatch ----------------------------
(* TaskDispatch with values for its constants, for TLC.                    *)
EXTENDS TaskDispatch, TLC

CONSTANTS t1, t2, t3, t4, project, push, publish

OneTask == {t1}
TwoTasks == {t1, t2}
FourTasks == {t1, t2, t3, t4}
OneCapability == {project}

\* Every task needs the same capability.
SameCapability == [t \in Tasks |-> project]

OneOperation == {push}
TwoOperations == {push, publish}

\* Tasks of one capability, and commands, are interchangeable.
TaskSymmetry == Permutations(Tasks)
OperationSymmetry == Permutations(Operations)
=============================================================================
