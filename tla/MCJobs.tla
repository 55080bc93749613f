-------------------------------- MODULE MCJobs --------------------------------
(***************************************************************************)
(* Instances of Jobs for TLC.                                              *)
(***************************************************************************)
EXTENDS Jobs, TLC

CONSTANTS j1, j2, c1, c2, s1, g1

OneJob      == {j1}
TwoJobs     == {j1, j2}
NoRequest   == {}
OneCancel   == {c1}
TwoCancels  == {c1, c2}
OneClear    == {s1}
OnePoll     == {g1}

AllFaults   == FaultKind
NoFaults    == {}
NoIoFault   == FaultKind \ {"io"}
Obstacles   == {"reuse", "stuck"}

\* Requests of one kind are interchangeable; used by safety-only runs.
CancelSymmetry == Permutations({c1, c2})
==============================================================================
