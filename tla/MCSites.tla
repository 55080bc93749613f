------------------------------- MODULE MCSites --------------------------------
(***************************************************************************)
(* Instances of Sites for TLC.                                             *)
(***************************************************************************)
EXTENDS Sites, TLC

CONSTANTS a1, a2, d1, d2, r1, r2

OneApp      == {a1}
TwoApps     == {a1, a2}
OneDomain   == {d1}
TwoDomains  == {d1, d2}
OneRequest  == {r1}
TwoRequests == {r1, r2}
NoDomain    == {}

AllFaults   == FaultKind
PanelOnly   == {"panel"}

Symmetry    == Permutations({a1, a2}) \cup Permutations({r1, r2})

\* The locals of a request that is over are dead.
LiveView == <<panelVars, vhost, markerVars, req, pc, alone, claimed, cut,
              [r \in Request |-> IF Busy(r) THEN <<dom[r], own[r], sure[r], found[r]>> ELSE <<>>]>>
==============================================================================
