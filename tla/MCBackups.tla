------------------------------ MODULE MCBackups -------------------------------
(***************************************************************************)
(* Instances of Backups for TLC.                                           *)
(***************************************************************************)
EXTENDS Backups, TLC

CONSTANTS a1, a2, d1, d2, p1, r1, r2

Apps == {a1, a2}
Domains == {d1, d2}
Profiles == {p1}
TwoRequests == {r1, r2}
Ports == 1 .. 3
Three == {3}
Stamps == 1 .. 3
Keeps == {1}
AllFaults == FaultKind

App_(p, k, d) == [managed |-> TRUE, kind |-> k, port |-> p, stage |-> "full", dom |-> d]
Trees(t, u) == [a \in Apps |-> IF a = a1 THEN t ELSE u]
Files(f) == [n \in Apps \X Stamps |-> IF n[1] = a1 /\ n[2] \in DOMAIN f THEN [f[n[2]] EXCEPT !.managed = FALSE] ELSE NoTree]

\* a1 runs and was archived before it had a domain, a2 does not exist; a1 is gone, its
\* port has gone to a2, and only its archives remain, one of them at the profile.
Starts == {
    [dir |-> Trees(App_(1, "tomcat", d1), NoTree), store |-> Files(<<App_(1, "tomcat", "none"), App_(1, "tomcat", d1)>>),
     remote |-> Files(<<App_(1, "tomcat", "none")>>), now |-> 2],
    [dir |-> Trees(NoTree, App_(1, "jar", d1)), store |-> Files(<<NoTree, App_(1, "jar", d2)>>),
     remote |-> Files(<<App_(1, "jar", d2)>>), now |-> 2] }

\* The properties speak of requests that do not overlap, but for PruneKeepsNewest: only
\* backups and deletions of archives are followed further once they do.
OverlapOfBackups == alone \/ \A r \in Request : op[r].do \in {"none", "backup", "discard"}

\* A request that has ended reads nothing of what it kept to itself.
Seen == <<appVars, alone, cut, arcVars, borrowed, dropped, unnamed, manual,
          [r \in Request |-> IF Busy(r)
              THEN <<pc[r], op[r], got[r], blocked[r], name[r], staged[r], at[r], left[r], vict[r],
                     before[r], r \in proven>>
              ELSE <<pc[r] = "idle">>]>>

Symmetry == Permutations({r1, r2})
==============================================================================
