--------------------------- MODULE MCTomcatInstall ----------------------------
(***************************************************************************)
(* Instances of TomcatInstall for TLC.                                     *)
(***************************************************************************)
EXTENDS TomcatInstall, TLC

CONSTANTS i1, i2, r1, a1, a2

OneInstall   == {i1}
TwoInstalls  == {i1, i2}
OneRemoval   == {r1}
NoRequest    == {}
TwoApps      == {a1, a2}

AllFaults    == FaultKind
SwapOnly     == {"swap"}

Symmetry     == Permutations({a1, a2}) \cup Permutations({i1, i2})
==============================================================================
