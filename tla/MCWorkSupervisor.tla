-------------------------- MODULE MCWorkSupervisor --------------------------
(* WorkSupervisor with values for its constants, for TLC.                  *)
EXTENDS WorkSupervisor, TLC

CONSTANTS w1, w2, w3, w4

TwoWorks == {w1, w2}
FourWorks == {w1, w2, w3, w4}

\* Work ids are random: they are interchangeable.
WorkSymmetry == Permutations(Works)
=============================================================================
