----------------------------- MODULE MCJdkInstall -----------------------------
(***************************************************************************)
(* Instances of JdkInstall for TLC.                                        *)
(***************************************************************************)
EXTENDS JdkInstall, TLC

CONSTANTS i1, i2, r1, a1, a2

TwoInstalls  == {i1, i2}
NoRequest    == {}
OneRemoval   == {r1}
OneApp       == {a1}
TwoApps      == {a1, a2}

AllFaults    == FaultKind
UnitOnly     == {"unit"}

Symmetry     == Permutations({a1, a2}) \cup Permutations({i1, i2})

\* A bound: operators act on one app at a time, and only until a second request begins.
Calm == \/ touched' \subseteq touched
        \/ Cardinality(touched') <= 1 /\ Cardinality({o \in Op : pc[o] # "idle"}) <= 1

\* The locals of a request that has not begun or is over are dead.
Alive(o) == pc[o] \in InstallPC \cup RemovePC
Locals(o) == <<todo[o], stopped[o], restarted[o], hadLive[o], moved[o], swapped[o], errors[o], before[o]>>
LiveView == <<diskVars, lock, appVars, pc, force, probed, owned, touched, doubt,
              [o \in Op |-> IF Alive(o) THEN Locals(o) ELSE <<>>]>>
==============================================================================
