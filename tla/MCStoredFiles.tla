----------------------------- MODULE MCStoredFiles -----------------------------
(***************************************************************************)
(* The parts that keep their state in files of their own, checked in one   *)
(* run: each behaviour is one of one part, the others stay as they began.  *)
(***************************************************************************)
EXTENDS AppEnv, CronFiles, RootSwap, PanelFiles, Wipe, TLC

CONSTANTS r1, r2, a1, a2, p1, w1, w2, n1, n2, d1, d2, j17, t10

VARIABLE part

Parts == {"env", "cron", "root", "panel", "wipe"}

\* Each part starts from its own initial states, the others from one of theirs.  Bounds: at
\* first the panel has its list, and only the second app needs Tomcat.
StoredInit ==
    /\ part \in Parts
    /\ EnvInit /\ RootInit
    /\ CronInit /\ (part = "cron" \/ (conf.mh /\ bits = {} /\ \A a \in App : cron[a] = {}))
    /\ PanelInit /\ (part = "panel" \/ (\A d \in Domain : snippet[d] = "none" /\ siteconf[d].blocks = {}))
    /\ listed
    /\ WipeInit /\ pins[a1] = Jdk /\ pins[a2] = Runtime
    /\ (part = "wipe" \/ (\A a \in Instance : apps[a] = "none"))

StoredNext ==
    /\ \/ part = "env"   /\ EnvNext   /\ UNCHANGED <<cronVars, rootVars, panelVars, wipeVars>>
       \/ part = "cron"  /\ CronNext  /\ UNCHANGED <<envVars, rootVars, panelVars, wipeVars>>
       \/ part = "root"  /\ RootNext  /\ UNCHANGED <<envVars, cronVars, panelVars, wipeVars>>
       \/ part = "panel" /\ PanelNext /\ UNCHANGED <<envVars, cronVars, rootVars, wipeVars>>
       \/ part = "wipe"  /\ WipeNext  /\ UNCHANGED <<envVars, cronVars, rootVars, panelVars>>
    /\ UNCHANGED part

storedVars == <<reqVars, envVars, cronVars, rootVars, panelVars, wipeVars, part>>

StoredSpec == StoredInit /\ [][StoredNext]_storedVars

------------------------------------------------------------------------------
\* Bound: attachments of a proxy to one domain do not overlap.  They would all be excused.
OneDomainAtATime ==
    part = "panel" => \A r, q \in Request : r # q /\ Busy(r)' /\ Busy(q)' => op'[r] # op'[q]

\* What the steps that are left of an attachment read of its locals, and the property of
\* what it found.
PanelLocals(r) ==
    LET m == mine[r] IN
    <<IF m.first.blocks = {} THEN {} ELSE m.first,
      IF pc[r] \in {"rescrub", "ask"} THEN m.tries ELSE 0,
      IF pc[r] \in {"back2", "back3", "restore"} THEN <<>> ELSE m.conf,
      IF "rows" \notin m.read \/ pc[r] \in {"back3", "restore"} THEN <<>> ELSE m.rows,
      IF "snippet" \notin m.read \/ pc[r] = "restore" THEN <<>> ELSE <<m.snippet>> >>
PanelHistory(r) ==
    <<r \in unheard, before[r].conf, before[r].snippet, IF alone THEN before[r].rows ELSE <<>> >>

\* The variables of the part at work, without results that no action and no property reads
\* any more and the locals of a request that has ended.
View ==
    <<part, op, pc, alone,
      CASE part = "env"   -> envVars
        [] part = "cron"  -> cronVars
        [] part = "root"  -> rootVars
        [] part = "panel" ->
              <<siteconf, snippet, rows, listed,
                [r \in Request |->
                    IF Busy(r) THEN <<PanelLocals(r), IF r \in excused THEN <<>> ELSE PanelHistory(r)>>
                    ELSE <<>>]>>
        [] part = "wipe"  ->
              <<apps, pins, vhost, runtime,
                [r \in Request |->
                    IF Busy(r) THEN <<todo[r], items[r], users[r], late[r]>> ELSE <<>>]>>
    >>

Symmetry == Permutations({r1, r2}) \cup Permutations({d1, d2})
==============================================================================
