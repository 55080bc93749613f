----------------------------- MODULE JobsProofs ------------------------------
(***************************************************************************)
(* Proofs about Jobs, for any number of jobs and requests, any retention   *)
(* and any set of faults.  StoreInv is inductive; the safety properties    *)
(* and the refinement of JobLedger follow from it.                         *)
(***************************************************************************)
EXTENDS Jobs, FiniteSetTheorems, TLAPS

\* A record with an outcome, recorded by anybody, has no launcher or supervisor
\* left that could still write to it.
LEMMA TerminalIsOver ==
    ASSUME StoreInv, NEW j \in Job, IsTerminal(j)
    PROVE  sup[j] \in {"exit", "gone"}
BY DEF StoreInv, TypeOK, StarterInv, SupervisorInv, IsTerminal, Terminal, SupPC, Asleep,
   OwnAlive

\* What prune() and clear() list.
LEMMA ListedIsOver ==
    ASSUME StoreInv
    PROVE  /\ \A k \in Prunable : k \in Job /\ state[k] \in Terminal /\ sup[k] \in {"exit", "gone"}
           /\ \A k \in Job : IsTerminal(k) => sup[k] \in {"exit", "gone"}
BY TerminalIsOver DEF Prunable, Listed, IsTerminal

\* What a step of cancel() that only reads cannot disturb.
LEMMA Frame ==
    ASSUME StoreInv, UNCHANGED <<state, pid, sup, work, stranger, starter, victims>>
    PROVE  StarterInv' /\ SupervisorInv' /\ SweepInv'
BY DEF StoreInv, StarterInv, SupervisorInv, SweepInv, OwnAlive

LEMMA InitEstablishes == Init => StoreInv
<1> SUFFICES ASSUME Init PROVE StoreInv
  OBVIOUS
<1>1. TypeOK
  BY DEF Init, TypeOK, State, SupPC, Asleep, StarterPC, CancelPC
<1>2. StarterInv /\ SupervisorInv /\ CancellerInv /\ SweepInv
  BY DEF Init, StarterInv, SupervisorInv, CancellerInv, SweepInv, OwnAlive, Asleep
<1>3. QED
  BY <1>1, <1>2 DEF StoreInv

\* The steps of the request that starts a job keep the invariant.
LEMMA StarterKeeps ==
    ASSUME StoreInv, NEW j \in Job, StarterStep(j) \/ StarterDies(j)
    PROVE  StoreInv'
<1>1. CASE StartPrune(j)
    <2>1. TypeOK'
      BY <1>1 DEF TypeOK, StoreInv, StartPrune, StarterPC, Prunable, Listed, recordVars,
         processVars, cancelVars
    <2>2. StarterInv'
      BY <1>1 DEF StoreInv, TypeOK, StarterInv, StartPrune, recordVars, processVars,
         cancelVars
    <2>3. SupervisorInv'
      BY <1>1 DEF StoreInv, TypeOK, SupervisorInv, OwnAlive, Asleep, StartPrune,
         recordVars, processVars, cancelVars
    <2>4. CancellerInv'
      BY <1>1 DEF StoreInv, TypeOK, CancellerInv, OwnAlive, Asleep, StartPrune,
         recordVars, processVars, cancelVars
    <2>5. SweepInv'
      BY <1>1, ListedIsOver DEF StoreInv, TypeOK, SweepInv, Terminal, StartPrune,
         recordVars, processVars, cancelVars
    <2>6. QED
      BY <2>1, <2>2, <2>3, <2>4, <2>5 DEF StoreInv
<1>2. CASE StartRecord(j)
    <2>1. TypeOK'
      BY <1>2 DEF TypeOK, StoreInv, StartRecord, State, StarterPC, processVars,
         cancelVars
    <2>2. StarterInv'
      BY <1>2 DEF StoreInv, TypeOK, StarterInv, StartRecord, processVars, cancelVars
    <2>3. SupervisorInv'
      BY <1>2 DEF StoreInv, TypeOK, SupervisorInv, OwnAlive, Asleep, StartRecord,
         processVars, cancelVars
    <2>4. CancellerInv'
      BY <1>2 DEF StoreInv, TypeOK, CancellerInv, OwnAlive, Asleep, StartRecord,
         processVars, cancelVars
    <2>5. SweepInv'
      BY <1>2 DEF StoreInv, TypeOK, SweepInv, Terminal, StarterInv, StartRecord,
         processVars, cancelVars
    <2>6. QED
      BY <2>1, <2>2, <2>3, <2>4, <2>5 DEF StoreInv
<1>3. CASE StartArgv(j)
    <2>1. TypeOK'
      BY <1>3 DEF TypeOK, StoreInv, StartArgv, StarterPC, processVars, cancelVars
    <2>2. StarterInv'
      BY <1>3 DEF StoreInv, TypeOK, StarterInv, StartArgv, processVars, cancelVars
    <2>3. SupervisorInv'
      BY <1>3 DEF StoreInv, TypeOK, SupervisorInv, OwnAlive, Asleep, StartArgv,
         processVars, cancelVars
    <2>4. CancellerInv'
      BY <1>3 DEF StoreInv, TypeOK, CancellerInv, OwnAlive, Asleep, StartArgv,
         processVars, cancelVars
    <2>5. SweepInv'
      BY <1>3 DEF StoreInv, TypeOK, SweepInv, Terminal, StartArgv, processVars,
         cancelVars
    <2>6. QED
      BY <2>1, <2>2, <2>3, <2>4, <2>5 DEF StoreInv
<1>4. CASE StartFork(j)
    <2>1. TypeOK'
      BY <1>4 DEF TypeOK, StoreInv, StartFork, StarterPC, SupPC, Asleep, recordVars,
         cancelVars
    <2>2. StarterInv'
      BY <1>4 DEF StoreInv, TypeOK, StarterInv, StartFork, recordVars, cancelVars
    <2>3. SupervisorInv'
      BY <1>4 DEF StoreInv, TypeOK, SupervisorInv, OwnAlive, Asleep, StarterInv,
         StartFork, recordVars, cancelVars
    <2>4. CancellerInv'
      BY <1>4 DEF StoreInv, TypeOK, CancellerInv, OwnAlive, Asleep, StarterInv,
         StartFork, recordVars, cancelVars
    <2>5. SweepInv'
      BY <1>4 DEF StoreInv, TypeOK, SweepInv, Terminal, StarterInv, StartFork,
         recordVars, cancelVars
    <2>6. QED
      BY <2>1, <2>2, <2>3, <2>4, <2>5 DEF StoreInv
<1>5. CASE StarterDies(j)
    <2>1. TypeOK'
      BY <1>5 DEF TypeOK, StoreInv, StarterDies, StarterPC, recordVars, processVars,
         cancelVars
    <2>2. StarterInv'
      BY <1>5 DEF StoreInv, TypeOK, StarterInv, StarterDies, recordVars, processVars,
         cancelVars
    <2>3. SupervisorInv'
      BY <1>5 DEF StoreInv, TypeOK, SupervisorInv, OwnAlive, Asleep, StarterDies,
         recordVars, processVars, cancelVars
    <2>4. CancellerInv'
      BY <1>5 DEF StoreInv, TypeOK, CancellerInv, OwnAlive, Asleep, StarterDies,
         recordVars, processVars, cancelVars
    <2>5. SweepInv'
      BY <1>5 DEF StoreInv, TypeOK, SweepInv, Terminal, StarterDies, recordVars,
         processVars, cancelVars
    <2>6. QED
      BY <2>1, <2>2, <2>3, <2>4, <2>5 DEF StoreInv
<1>6. QED
  BY <1>1, <1>2, <1>3, <1>4, <1>5 DEF StarterStep

\* The steps of the launcher, the supervisor, the worker and what befalls them keep the invariant.
LEMMA ProcessKeeps ==
    ASSUME StoreInv, NEW j \in Job, SupervisorStep(j) \/ WorkEnds(j) \/ GroupDies(j) \/ FaultStep(j)
    PROVE  StoreInv'
<1>1. CASE Launch(j)
    <2>1. TypeOK'
      BY <1>1 DEF TypeOK, StoreInv, Launch, MarkLaunchFailed, State, Terminal, SupPC,
         Asleep, panelVars, cancelVars
    <2>2. StarterInv'
      BY <1>1 DEF StoreInv, TypeOK, StarterInv, Launch, MarkLaunchFailed, panelVars,
         cancelVars
    <2>3. SupervisorInv'
      BY <1>1 DEF StoreInv, TypeOK, SupervisorInv, OwnAlive, Asleep, Launch,
         MarkLaunchFailed, panelVars, cancelVars
    <2>4. CancellerInv'
      BY <1>1 DEF StoreInv, TypeOK, CancellerInv, OwnAlive, Asleep, Launch,
         MarkLaunchFailed, panelVars, cancelVars
    <2>5. SweepInv'
      BY <1>1 DEF StoreInv, TypeOK, SweepInv, Terminal, Launch, MarkLaunchFailed,
         panelVars, cancelVars
    <2>6. QED
      BY <2>1, <2>2, <2>3, <2>4, <2>5 DEF StoreInv
<1>2. CASE SupPopen(j)
    <2>1. TypeOK'
      BY <1>2 DEF TypeOK, StoreInv, SupPopen, SupPC, recordVars, panelVars, cancelVars
    <2>2. StarterInv'
      BY <1>2 DEF StoreInv, TypeOK, StarterInv, SupPopen, recordVars, panelVars,
         cancelVars
    <2>3. SupervisorInv'
      BY <1>2 DEF StoreInv, TypeOK, SupervisorInv, OwnAlive, Asleep, SupPopen,
         recordVars, panelVars, cancelVars
    <2>4. CancellerInv'
      BY <1>2 DEF StoreInv, TypeOK, CancellerInv, OwnAlive, Asleep, SupPopen,
         recordVars, panelVars, cancelVars
    <2>5. SweepInv'
      BY <1>2 DEF StoreInv, TypeOK, SweepInv, Terminal, SupPopen, recordVars, panelVars,
         cancelVars
    <2>6. QED
      BY <2>1, <2>2, <2>3, <2>4, <2>5 DEF StoreInv
<1>3. CASE SupRegister(j)
    <2>1. TypeOK'
    <3>1. state' \in [Job -> State] /\ sup' \in [Job -> SupPC]
      BY <1>3 DEF TypeOK, StoreInv, SupRegister, State, SupPC
    <3>2. pid' \in [Job -> BOOLEAN]
      BY <1>3 DEF TypeOK, StoreInv, SupRegister
    <3>3. UNCHANGED <<argv, started, clock, work, asked, doomed, verdict, stranger, panelVars>>
      BY <1>3 DEF SupRegister
    <3>4. QED
      BY <3>1, <3>2, <3>3 DEF TypeOK, StoreInv, panelVars, cancelVars
  <2>2. StarterInv'
      BY <1>3 DEF StoreInv, TypeOK, StarterInv, SupRegister, panelVars, cancelVars
    <2>3. SupervisorInv'
      BY <1>3 DEF StoreInv, TypeOK, SupervisorInv, OwnAlive, Asleep, SupRegister,
         panelVars, cancelVars
    <2>4. CancellerInv'
      BY <1>3 DEF StoreInv, TypeOK, CancellerInv, OwnAlive, Asleep, SupRegister,
         panelVars, cancelVars
    <2>5. SweepInv'
      BY <1>3 DEF StoreInv, TypeOK, SweepInv, Terminal, SupRegister, panelVars,
         cancelVars
    <2>6. QED
      BY <2>1, <2>2, <2>3, <2>4, <2>5 DEF StoreInv
<1>4. CASE SupWait(j)
    <2>1. TypeOK'
      BY <1>4 DEF TypeOK, StoreInv, SupWait, SupPC, recordVars, panelVars, cancelVars
    <2>2. StarterInv'
      BY <1>4 DEF StoreInv, TypeOK, StarterInv, SupWait, recordVars, panelVars,
         cancelVars
    <2>3. SupervisorInv'
      BY <1>4 DEF StoreInv, TypeOK, SupervisorInv, OwnAlive, Asleep, SupWait,
         recordVars, panelVars, cancelVars
    <2>4. CancellerInv'
      BY <1>4 DEF StoreInv, TypeOK, CancellerInv, OwnAlive, Asleep, SupWait, recordVars,
         panelVars, cancelVars
    <2>5. SweepInv'
      BY <1>4 DEF StoreInv, TypeOK, SweepInv, Terminal, SupWait, recordVars, panelVars,
         cancelVars
    <2>6. QED
      BY <2>1, <2>2, <2>3, <2>4, <2>5 DEF StoreInv
<1>5. CASE SupFinal(j)
    <2>1. TypeOK'
      BY <1>5 DEF TypeOK, StoreInv, SupFinal, Outcome, State, Terminal, SupPC,
         panelVars, cancelVars
    <2>2. StarterInv'
      BY <1>5 DEF StoreInv, TypeOK, StarterInv, SupFinal, Outcome, panelVars, cancelVars
    <2>3. SupervisorInv'
      BY <1>5 DEF StoreInv, TypeOK, SupervisorInv, OwnAlive, Asleep, SupFinal, Outcome,
         panelVars, cancelVars
    <2>4. CancellerInv'
      BY <1>5 DEF StoreInv, TypeOK, CancellerInv, OwnAlive, Asleep, SupFinal, Outcome,
         panelVars, cancelVars
    <2>5. SweepInv'
      BY <1>5 DEF StoreInv, TypeOK, SweepInv, Terminal, SupFinal, Outcome, panelVars,
         cancelVars
    <2>6. QED
      BY <2>1, <2>2, <2>3, <2>4, <2>5 DEF StoreInv
<1>6. CASE SupExit(j)
    <2>1. TypeOK'
      BY <1>6 DEF TypeOK, StoreInv, SupExit, SupPC, Asleep, recordVars, panelVars,
         cancelVars
    <2>2. StarterInv'
      BY <1>6 DEF StoreInv, TypeOK, StarterInv, SupExit, recordVars, panelVars,
         cancelVars
    <2>3. SupervisorInv'
      BY <1>6 DEF StoreInv, TypeOK, SupervisorInv, OwnAlive, Asleep, SupExit,
         recordVars, panelVars, cancelVars
    <2>4. CancellerInv'
      BY <1>6 DEF StoreInv, TypeOK, CancellerInv, OwnAlive, Asleep, SupExit, recordVars,
         panelVars, cancelVars
    <2>5. SweepInv'
      BY <1>6 DEF StoreInv, TypeOK, SweepInv, Terminal, SupExit, recordVars, panelVars,
         cancelVars
    <2>6. QED
      BY <2>1, <2>2, <2>3, <2>4, <2>5 DEF StoreInv
<1>7. CASE WorkEnds(j)
    <2>1. TypeOK'
      BY <1>7 DEF TypeOK, StoreInv, WorkEnds, recordVars, panelVars, cancelVars
    <2>2. StarterInv'
      BY <1>7 DEF StoreInv, TypeOK, StarterInv, WorkEnds, recordVars, panelVars,
         cancelVars
    <2>3. SupervisorInv'
      BY <1>7 DEF StoreInv, TypeOK, SupervisorInv, OwnAlive, Asleep, WorkEnds,
         recordVars, panelVars, cancelVars
    <2>4. CancellerInv'
      BY <1>7 DEF StoreInv, TypeOK, CancellerInv, OwnAlive, Asleep, WorkEnds,
         recordVars, panelVars, cancelVars
    <2>5. SweepInv'
      BY <1>7 DEF StoreInv, TypeOK, SweepInv, Terminal, WorkEnds, recordVars, panelVars,
         cancelVars
    <2>6. QED
      BY <2>1, <2>2, <2>3, <2>4, <2>5 DEF StoreInv
<1>8. CASE GroupDies(j)
    <2>1. TypeOK'
      BY <1>8 DEF TypeOK, StoreInv, GroupDies, SupPC, Asleep, recordVars, panelVars,
         cancelVars
    <2>2. StarterInv'
      BY <1>8 DEF StoreInv, TypeOK, StarterInv, OwnAlive, Asleep, GroupDies, recordVars,
         panelVars, cancelVars
    <2>3. SupervisorInv'
      BY <1>8 DEF StoreInv, TypeOK, SupervisorInv, OwnAlive, Asleep, GroupDies,
         recordVars, panelVars, cancelVars
    <2>4. CancellerInv'
      BY <1>8 DEF StoreInv, TypeOK, CancellerInv, OwnAlive, Asleep, GroupDies,
         recordVars, panelVars, cancelVars
    <2>5. SweepInv'
      BY <1>8 DEF StoreInv, TypeOK, SweepInv, Terminal, GroupDies, recordVars,
         panelVars, cancelVars
    <2>6. QED
      BY <2>1, <2>2, <2>3, <2>4, <2>5 DEF StoreInv
<1>9. CASE SupKilled(j)
    <2>1. TypeOK'
      BY <1>9 DEF TypeOK, StoreInv, SupKilled, SupPC, Asleep, recordVars, panelVars,
         cancelVars
    <2>2. StarterInv'
      BY <1>9 DEF StoreInv, TypeOK, StarterInv, Asleep, SupKilled, recordVars,
         panelVars, cancelVars
    <2>3. SupervisorInv'
      BY <1>9 DEF StoreInv, TypeOK, SupervisorInv, OwnAlive, Asleep, SupKilled,
         recordVars, panelVars, cancelVars
    <2>4. CancellerInv'
      BY <1>9 DEF StoreInv, TypeOK, CancellerInv, OwnAlive, Asleep, SupKilled,
         recordVars, panelVars, cancelVars
    <2>5. SweepInv'
      BY <1>9 DEF StoreInv, TypeOK, SweepInv, Terminal, SupKilled, recordVars,
         panelVars, cancelVars
    <2>6. QED
      BY <2>1, <2>2, <2>3, <2>4, <2>5 DEF StoreInv
<1>10. CASE PidReused(j)
    <2>1. TypeOK'
      BY <1>10 DEF TypeOK, StoreInv, PidReused, recordVars, panelVars, cancelVars
    <2>2. StarterInv'
      BY <1>10 DEF StoreInv, TypeOK, StarterInv, PidReused, recordVars, panelVars,
         cancelVars
    <2>3. SupervisorInv'
      BY <1>10 DEF StoreInv, TypeOK, SupervisorInv, OwnAlive, Asleep, PidReused,
         recordVars, panelVars, cancelVars
    <2>4. CancellerInv'
      BY <1>10 DEF StoreInv, TypeOK, CancellerInv, OwnAlive, Asleep, PidReused,
         recordVars, panelVars, cancelVars
    <2>5. SweepInv'
      BY <1>10 DEF StoreInv, TypeOK, SweepInv, Terminal, PidReused, recordVars,
         panelVars, cancelVars
    <2>6. QED
      BY <2>1, <2>2, <2>3, <2>4, <2>5 DEF StoreInv
<1>11. CASE StrangerEnds(j)
    <2>1. TypeOK'
      BY <1>11 DEF TypeOK, StoreInv, StrangerEnds, recordVars, panelVars, cancelVars
    <2>2. StarterInv'
      BY <1>11 DEF StoreInv, TypeOK, StarterInv, StrangerEnds, recordVars, panelVars,
         cancelVars
    <2>3. SupervisorInv'
      BY <1>11 DEF StoreInv, TypeOK, SupervisorInv, OwnAlive, Asleep, StrangerEnds,
         recordVars, panelVars, cancelVars
    <2>4. CancellerInv'
      BY <1>11 DEF StoreInv, TypeOK, CancellerInv, OwnAlive, Asleep, StrangerEnds,
         recordVars, panelVars, cancelVars
    <2>5. SweepInv'
      BY <1>11 DEF StoreInv, TypeOK, SweepInv, Terminal, StrangerEnds, recordVars,
         panelVars, cancelVars
    <2>6. QED
      BY <2>1, <2>2, <2>3, <2>4, <2>5 DEF StoreInv
<1>12. QED
  BY <1>1, <1>2, <1>3, <1>4, <1>5, <1>6, <1>7, <1>8, <1>9, <1>10, <1>11, StarterKeeps
     DEF SupervisorStep, FaultStep

\* The steps of a cancel() call keep the invariant.
LEMMA CancellerKeeps ==
    ASSUME StoreInv, NEW c \in Canceller, CancelStep(c) \/ CancellerDies(c)
    PROVE  StoreInv'
<1>1. CASE CancelRead(c)
    <2>1. TypeOK'
      BY <1>1 DEF TypeOK, StoreInv, CancelRead, Goto, Return, CancelPC, recordVars,
         processVars
    <2>2. StarterInv' /\ SupervisorInv' /\ SweepInv'
      BY <1>1, Frame DEF CancelRead, Goto, Return, recordVars, processVars
    <2>3. CancellerInv'
      BY <1>1 DEF StoreInv, TypeOK, CancellerInv, OwnAlive, Asleep, SupervisorInv,
         CancelRead, Goto, Return, recordVars, processVars
    <2>4. QED
      BY <2>1, <2>2, <2>3 DEF StoreInv
<1>2. CASE CancelProbe(c)
    <2>1. TypeOK'
      BY <1>2 DEF TypeOK, StoreInv, CancelProbe, Probe, Goto, IdentityHolds, CancelPC,
         recordVars, processVars
    <2>2. StarterInv' /\ SupervisorInv' /\ SweepInv'
      BY <1>2, Frame DEF CancelProbe, Probe, Goto, IdentityHolds, recordVars,
         processVars
    <2>3. CancellerInv'
      BY <1>2 DEF StoreInv, TypeOK, CancellerInv, OwnAlive, Asleep, CancelProbe, Probe,
         Goto, IdentityHolds, recordVars, processVars
    <2>4. QED
      BY <2>1, <2>2, <2>3 DEF StoreInv
<1>3. CASE CancelLocate(c)
    <2>1. TypeOK'
      BY <1>3 DEF TypeOK, StoreInv, CancelLocate, Goto, CancelPC, recordVars,
         processVars
    <2>2. StarterInv' /\ SupervisorInv' /\ SweepInv'
      BY <1>3, Frame DEF CancelLocate, Goto, recordVars, processVars
    <2>3. CancellerInv'
      BY <1>3 DEF StoreInv, TypeOK, CancellerInv, OwnAlive, Asleep, CancelLocate, Goto,
         recordVars, processVars
    <2>4. QED
      BY <2>1, <2>2, <2>3 DEF StoreInv
<1>4. CASE CancelReprobe(c)
    <2>1. TypeOK'
      BY <1>4 DEF TypeOK, StoreInv, CancelReprobe, Probe, Goto, IdentityHolds, CancelPC,
         recordVars, processVars
    <2>2. StarterInv' /\ SupervisorInv' /\ SweepInv'
      BY <1>4, Frame DEF CancelReprobe, Probe, Goto, IdentityHolds, recordVars,
         processVars
    <2>3. CancellerInv'
      BY <1>4 DEF StoreInv, TypeOK, CancellerInv, OwnAlive, Asleep, SupervisorInv,
         CancelReprobe, Probe, Goto, IdentityHolds, recordVars, processVars
    <2>4. QED
      BY <2>1, <2>2, <2>3 DEF StoreInv
<1>5. CASE CancelTerm(c)
    <2>1. TypeOK'
      BY <1>5 DEF TypeOK, StoreInv, CancelTerm, SignalGroup, Goto, GroupExists,
         CancelPC, recordVars
    <2>2. StarterInv' /\ SupervisorInv' /\ SweepInv'
      BY <1>5, Frame DEF CancelTerm, SignalGroup, Goto, GroupExists, recordVars
    <2>3. CancellerInv'
      BY <1>5 DEF StoreInv, TypeOK, CancellerInv, OwnAlive, Asleep, CancelTerm,
         SignalGroup, Goto, GroupExists, recordVars
    <2>4. QED
      BY <2>1, <2>2, <2>3 DEF StoreInv
<1>6. CASE CancelTermWait(c)
    <2>1. TypeOK'
      BY <1>6 DEF TypeOK, StoreInv, CancelTermWait, WaitGroup, Goto, GroupExists,
         CancelPC, recordVars, processVars
    <2>2. StarterInv' /\ SupervisorInv' /\ SweepInv'
      BY <1>6, Frame DEF CancelTermWait, WaitGroup, Goto, GroupExists, recordVars,
         processVars
    <2>3. CancellerInv'
      BY <1>6 DEF StoreInv, TypeOK, CancellerInv, OwnAlive, Asleep, CancelTermWait,
         WaitGroup, Goto, GroupExists, recordVars, processVars
    <2>4. QED
      BY <2>1, <2>2, <2>3 DEF StoreInv
<1>7. CASE CancelRecheck(c)
    <2>1. TypeOK'
      BY <1>7 DEF TypeOK, StoreInv, CancelRecheck, Probe, Goto, IdentityHolds, CancelPC,
         recordVars, processVars
    <2>2. StarterInv' /\ SupervisorInv' /\ SweepInv'
      BY <1>7, Frame DEF CancelRecheck, Probe, Goto, IdentityHolds, recordVars,
         processVars
    <2>3. CancellerInv'
      BY <1>7 DEF StoreInv, TypeOK, CancellerInv, OwnAlive, Asleep, SupervisorInv,
         CancelRecheck, Probe, Goto, IdentityHolds, recordVars, processVars
    <2>4. QED
      BY <2>1, <2>2, <2>3 DEF StoreInv
<1>8. CASE CancelKill(c)
    <2>1. TypeOK'
      BY <1>8 DEF TypeOK, StoreInv, CancelKill, SignalGroup, Goto, GroupExists,
         CancelPC, OwnAlive, recordVars
    <2>2. StarterInv' /\ SupervisorInv' /\ SweepInv'
      BY <1>8, Frame DEF CancelKill, SignalGroup, Goto, GroupExists, recordVars
    <2>3. CancellerInv'
      BY <1>8 DEF StoreInv, TypeOK, CancellerInv, OwnAlive, Asleep, CancelKill,
         SignalGroup, Goto, GroupExists, recordVars
    <2>4. QED
      BY <2>1, <2>2, <2>3 DEF StoreInv
<1>9. CASE CancelKillWait(c)
    <2>1. TypeOK'
      BY <1>9 DEF TypeOK, StoreInv, CancelKillWait, WaitGroup, Goto, Return,
         GroupExists, CancelPC, recordVars, processVars
    <2>2. StarterInv' /\ SupervisorInv' /\ SweepInv'
      BY <1>9, Frame DEF CancelKillWait, WaitGroup, Goto, Return, GroupExists,
         recordVars, processVars
    <2>3. CancellerInv'
      BY <1>9 DEF StoreInv, TypeOK, CancellerInv, OwnAlive, Asleep, CancelKillWait,
         WaitGroup, Goto, Return, GroupExists, recordVars, processVars
    <2>4. QED
      BY <2>1, <2>2, <2>3 DEF StoreInv
<1>10. CASE CancelRaced(c)
    <2>1. TypeOK'
      BY <1>10 DEF TypeOK, StoreInv, CancelRaced, Return, IsTerminal, CancelPC,
         recordVars, processVars
    <2>2. StarterInv' /\ SupervisorInv' /\ SweepInv'
      BY <1>10, Frame DEF CancelRaced, Return, IsTerminal, recordVars, processVars
    <2>3. CancellerInv'
      BY <1>10 DEF StoreInv, TypeOK, CancellerInv, OwnAlive, Asleep, SupervisorInv,
         CancelRaced, Return, IsTerminal, recordVars, processVars
    <2>4. QED
      BY <2>1, <2>2, <2>3 DEF StoreInv
<1>11. CASE CancelReread(c)
    <2>1. TypeOK'
      BY <1>11 DEF TypeOK, StoreInv, CancelReread, Goto, Return, IsTerminal, CancelPC,
         Terminal, recordVars, processVars
    <2>2. StarterInv' /\ SupervisorInv' /\ SweepInv'
      BY <1>11, Frame DEF CancelReread, Goto, Return, IsTerminal, recordVars,
         processVars
    <2>3. CancellerInv'
    <3>1. CASE IsTerminal(target[c]) /\ Return(c, state[target[c]])
      BY <1>11, <3>1 DEF StoreInv, TypeOK, CancellerInv, SupervisorInv, OwnAlive, Asleep,
         CancelReread, Return, recordVars, processVars
    <3>2. CASE ~IsTerminal(target[c]) /\ Goto(c, "write")
      BY <1>11, <3>2 DEF StoreInv, TypeOK, CancellerInv, OwnAlive, Asleep,
         CancelReread, Goto, IsTerminal, Terminal, recordVars, processVars
    <3>3. QED
      BY <1>11, <3>1, <3>2 DEF CancelReread
  <2>4. QED
      BY <2>1, <2>2, <2>3 DEF StoreInv
<1>12. CASE CancelWrite(c)
    <2>1. TypeOK'
      BY <1>12 DEF TypeOK, StoreInv, CancelWrite, Return, State, Terminal, CancelPC,
         processVars
    <2>2. StarterInv'
      BY <1>12 DEF StoreInv, TypeOK, StarterInv, CancellerInv, OwnAlive, Asleep,
         CancelWrite, Return, processVars
    <2>3. SupervisorInv'
      BY <1>12 DEF StoreInv, TypeOK, SupervisorInv, OwnAlive, Asleep, CancellerInv,
         CancelWrite, Return, processVars
    <2>4. CancellerInv'
      BY <1>12 DEF StoreInv, TypeOK, CancellerInv, OwnAlive, Asleep, CancelWrite,
         Return, processVars
    <2>5. SweepInv'
      BY <1>12 DEF StoreInv, TypeOK, SweepInv, Terminal, CancelWrite, Return,
         processVars
    <2>6. QED
      BY <2>1, <2>2, <2>3, <2>4, <2>5 DEF StoreInv
<1>13. CASE CancellerDies(c)
    <2>1. TypeOK'
      BY <1>13 DEF TypeOK, StoreInv, CancellerDies, Return, CancelPC, recordVars,
         processVars
    <2>2. StarterInv' /\ SupervisorInv' /\ SweepInv'
      BY <1>13, Frame DEF CancellerDies, Return, recordVars, processVars
    <2>3. CancellerInv'
      BY <1>13 DEF StoreInv, TypeOK, CancellerInv, OwnAlive, Asleep, CancellerDies,
         Return, recordVars, processVars
    <2>4. QED
      BY <2>1, <2>2, <2>3 DEF StoreInv
<1>14. QED
  BY <1>1, <1>2, <1>3, <1>4, <1>5, <1>6, <1>7, <1>8, <1>9, <1>10, <1>11, <1>12, <1>13 DEF
     CancelStep

\* Listing the victims of a sweep keeps the invariant.
LEMMA SweepKeeps ==
    ASSUME StoreInv, NEW s \in Sweeper, Sweep(s)
    PROVE  StoreInv'
<1>1. TypeOK'
  BY DEF TypeOK, StoreInv, Sweep, Prunable, Listed, recordVars, processVars,
     cancelVars
<1>2. StarterInv'
  BY DEF StoreInv, TypeOK, StarterInv, Sweep, recordVars, processVars, cancelVars
<1>3. SupervisorInv'
  BY DEF StoreInv, TypeOK, SupervisorInv, OwnAlive, Asleep, Sweep, recordVars,
     processVars, cancelVars
<1>4. CancellerInv'
  BY DEF StoreInv, TypeOK, CancellerInv, OwnAlive, Asleep, Sweep, recordVars,
     processVars, cancelVars
<1>5. SweepInv'
  BY ListedIsOver DEF StoreInv, TypeOK, SweepInv, Terminal, Listed, IsTerminal,
     Sweep, recordVars, processVars, cancelVars
<1>6. QED
  BY <1>1, <1>2, <1>3, <1>4, <1>5 DEF StoreInv

\* So does the death of the request.
LEMMA SweeperDiesKeeps ==
    ASSUME StoreInv, NEW s \in Sweeper, SweeperDies(s)
    PROVE  StoreInv'
<1>1. TypeOK'
  BY DEF TypeOK, StoreInv, SweeperDies, recordVars, processVars, cancelVars
<1>2. StarterInv'
  BY DEF StoreInv, TypeOK, StarterInv, SweeperDies, recordVars, processVars,
     cancelVars
<1>3. SupervisorInv'
  BY DEF StoreInv, TypeOK, SupervisorInv, OwnAlive, Asleep, SweeperDies, recordVars,
     processVars, cancelVars
<1>4. CancellerInv'
  BY DEF StoreInv, TypeOK, CancellerInv, OwnAlive, Asleep, SweeperDies, recordVars,
     processVars, cancelVars
<1>5. SweepInv'
  BY DEF StoreInv, TypeOK, SweepInv, Terminal, SweeperDies, recordVars, processVars,
     cancelVars
<1>6. QED
  BY <1>1, <1>2, <1>3, <1>4, <1>5 DEF StoreInv

\* Removing a listed record keeps it, however old the listing.
LEMMA RemoveKeeps ==
    ASSUME StoreInv, NEW a \in Job \cup Sweeper, NEW j \in Job, RemoveVictim(a, j)
    PROVE  StoreInv'
<1>1. TypeOK'
  BY DEF TypeOK, StoreInv, RemoveVictim, State, processVars, cancelVars
<1>2. StarterInv'
  BY DEF StoreInv, TypeOK, StarterInv, SweepInv, RemoveVictim, processVars,
     cancelVars
<1>3. SupervisorInv'
  BY DEF StoreInv, TypeOK, SupervisorInv, OwnAlive, Asleep, SweepInv, RemoveVictim,
     processVars, cancelVars
<1>4. CancellerInv'
  BY DEF StoreInv, TypeOK, CancellerInv, OwnAlive, Asleep, RemoveVictim, processVars,
     cancelVars
<1>5. SweepInv'
  BY DEF StoreInv, TypeOK, SweepInv, Terminal, RemoveVictim, processVars, cancelVars
<1>6. QED
  BY <1>1, <1>2, <1>3, <1>4, <1>5 DEF StoreInv

LEMMA StepKeeps == StoreInv /\ [Next]_vars => StoreInv'
<1> SUFFICES ASSUME StoreInv, [Next]_vars PROVE StoreInv'
  OBVIOUS
<1>1. CASE UNCHANGED vars
  <2>1. TypeOK' /\ CancellerInv'
    BY <1>1 DEF StoreInv, TypeOK, CancellerInv, OwnAlive, vars, recordVars, processVars,
       panelVars, cancelVars
  <2>2. QED
    BY <1>1, <2>1, Frame DEF StoreInv, vars, recordVars, processVars, panelVars, cancelVars
<1>2. CASE Next
  BY <1>2, StarterKeeps, ProcessKeeps, CancellerKeeps, SweepKeeps, SweeperDiesKeeps,
     RemoveKeeps DEF Next, RetryPrune, StarterStep
<1>3. QED
  BY <1>1, <1>2

\* Every reachable state of the job store has its types and its single writer.
THEOREM StoreSafe == Spec => []StoreInv
<1>1. QED
  BY InitEstablishes, StepKeeps, PTL DEF Spec

\* The store, the processes and the requests keep their types.
THEOREM StoreTyped == Spec => []TypeOK
<1>1. StoreInv => TypeOK
  BY DEF StoreInv
<1>2. QED
  BY <1>1, StoreSafe, PTL

\* A job is recorded or reported cancelled only when its process group is over.
THEOREM CancellationIsTrue == Spec => []CancelledMeansGone
<1>1. StoreInv => CancelledMeansGone
  BY DEF StoreInv, SupervisorInv, CancellerInv, CancelledMeansGone
<1>2. QED
  BY <1>1, StoreSafe, PTL

------------------------------------------------------------------------------
\* The replacements of a record's state that some actor may make.
MayWrite(old, new) ==
    \/ new = "running" /\ old \in {"absent", "running"}
    \/ new \in {"done", "failed"} /\ old = "running"
    \/ new = "cancelled" /\ old \notin {"done", "failed"}
    \/ new = "absent" /\ old \in Terminal \cup {"absent"}

\* Every step leaves each record alone or replaces it as MayWrite says.
LEMMA RecordStep ==
    ASSUME StoreInv, [Next]_vars, NEW j \in Job
    PROVE  state'[j] = state[j] \/ MayWrite(state[j], state'[j])
<1> USE DEF StoreInv, TypeOK, MayWrite
<1>1. ASSUME NEW k \in Job, StarterStep(k) \/ StarterDies(k)
      PROVE  state'[j] = state[j] \/ MayWrite(state[j], state'[j])
  BY <1>1 DEF StarterStep, StartPrune, StartRecord, StartArgv, StartFork, StarterDies,
     StarterInv, recordVars
<1>2. ASSUME NEW k \in Job, SupervisorStep(k)
      PROVE  state'[j] = state[j] \/ MayWrite(state[j], state'[j])
  <2>1. CASE Launch(k)
    BY <2>1 DEF Launch, MarkLaunchFailed, SupervisorInv
  <2>2. CASE SupPopen(k) \/ SupWait(k) \/ SupExit(k)
    BY <2>2 DEF SupPopen, SupWait, SupExit, recordVars
  <2>3. CASE SupRegister(k)
    BY <2>3 DEF SupRegister, SupervisorInv
  <2>4. CASE SupFinal(k)
    BY <2>4 DEF SupFinal, Outcome, SupervisorInv
  <2>5. QED
    BY <1>2, <2>1, <2>2, <2>3, <2>4 DEF SupervisorStep
<1>3. ASSUME NEW k \in Job, WorkEnds(k) \/ GroupDies(k) \/ FaultStep(k)
      PROVE  state'[j] = state[j] \/ MayWrite(state[j], state'[j])
  BY <1>3 DEF WorkEnds, GroupDies, FaultStep, StarterDies, SupKilled, PidReused, StrangerEnds,
     recordVars
<1>4. ASSUME NEW c \in Canceller, CancelStep(c) \/ CancellerDies(c)
      PROVE  state'[j] = state[j] \/ MayWrite(state[j], state'[j])
  <2>1. CASE CancelWrite(c)
    BY <2>1 DEF CancelWrite, CancellerInv
  <2>2. CASE ~CancelWrite(c)
    BY <1>4, <2>2 DEF CancelStep, CancelRead, CancelProbe, CancelLocate, CancelReprobe,
       CancelTerm, CancelTermWait, CancelRecheck, CancelKill, CancelKillWait, CancelRaced,
       CancelReread, CancellerDies, Probe, WaitGroup, recordVars
  <2>3. QED
    BY <2>1, <2>2
<1>5. ASSUME NEW s \in Sweeper, Sweep(s) \/ SweeperDies(s)
      PROVE  state'[j] = state[j] \/ MayWrite(state[j], state'[j])
  BY <1>5 DEF Sweep, SweeperDies, recordVars
<1>6. ASSUME NEW a \in Job \cup Sweeper, NEW k \in Job, RemoveVictim(a, k)
      PROVE  state'[j] = state[j] \/ MayWrite(state[j], state'[j])
  BY <1>6 DEF RemoveVictim, SweepInv
<1>7. CASE UNCHANGED vars
  BY <1>7 DEF vars, recordVars
<1>8. QED
  BY <1>1, <1>2, <1>3, <1>4, <1>5, <1>6, <1>7 DEF Next, RetryPrune, StarterStep

\* An outcome is never replaced by another one, only removed.
THEOREM OutcomesAreFinal == Spec => TerminalIsFinal
<1>1. ASSUME StoreInv, [Next]_vars
      PROVE  [\A j \in Job : IsTerminal(j) => state'[j] \in {state[j], "absent"}]_vars
  BY <1>1, RecordStep DEF MayWrite, IsTerminal, Terminal
<1>2. QED
  BY <1>1, StoreSafe, PTL DEF Spec, TerminalIsFinal

\* No sweep removes a running record, however old its listing is.
THEOREM SweepsSpareTheActive == Spec => ActiveNeverRemoved
<1>1. ASSUME StoreInv, [Next]_vars
      PROVE  [\A j \in Job : state[j] = "running" => state'[j] # "absent"]_vars
  BY <1>1, RecordStep DEF MayWrite, Terminal
<1>2. QED
  BY <1>1, StoreSafe, PTL DEF Spec, ActiveNeverRemoved

\* A signal reaches the job's own group, never a stranger with its ids.
THEOREM SignalsAreOwn == Spec => SignalsOwnGroup
<1>1. ASSUME StoreInv, [Next]_vars, NEW c \in Canceller,
             pc[c] \in {"term", "kill"}, pc'[c] \in {"termwait", "killwait"}
      PROVE  OwnAlive(target[c])
  <2> USE DEF StoreInv, TypeOK
  <2>1. pc' # pc /\ ~UNCHANGED cancelVars
    BY <1>1 DEF cancelVars
  <2>2. ~ \E j \in Job : \/ StarterStep(j) \/ SupervisorStep(j) \/ WorkEnds(j)
                         \/ GroupDies(j) \/ FaultStep(j)
    BY <2>1 DEF StarterStep, StartPrune, StartRecord, StartArgv, StartFork, SupervisorStep,
       Launch, MarkLaunchFailed, SupPopen, SupRegister, SupWait, SupFinal, SupExit, WorkEnds, GroupDies,
       FaultStep, StarterDies, SupKilled, PidReused, StrangerEnds, panelVars
  <2>3. \E d \in Canceller : CancelStep(d) \/ CancellerDies(d)
    BY <1>1, <2>1, <2>2 DEF Next, vars, panelVars, RetryPrune, StarterStep, Sweep,
       SweeperDies, RemoveVictim
  <2>4. CancelTerm(c) \/ CancelKill(c)
    <3>1. PICK d \in Canceller : CancelStep(d) \/ CancellerDies(d)
      BY <2>3
    <3>2. d = c
      BY <1>1, <3>1 DEF CancelStep, CancelRead, CancelProbe, CancelLocate, CancelReprobe,
         CancelTerm, CancelTermWait, CancelRecheck, CancelKill, CancelKillWait, CancelRaced,
         CancelReread, CancelWrite, CancellerDies, Probe, WaitGroup, SignalGroup, Goto, Return
    <3>3. QED
      BY <1>1, <3>1, <3>2 DEF CancelStep, CancelRead, CancelProbe, CancelLocate,
         CancelReprobe, CancelTermWait, CancelRecheck, CancelKillWait, CancelRaced,
         CancelReread, CancelWrite, CancellerDies, Probe, WaitGroup, Return
  <2>5. GroupExists(target[c])
    BY <1>1, <2>4 DEF CancelTerm, CancelKill, SignalGroup, Goto
  <2>6. QED
    BY <1>1, <2>5 DEF CancellerInv, GroupExists
<1>2. ASSUME StoreInv, [Next]_vars
      PROVE  [\A c \in Canceller : pc[c] \in {"term", "kill"} /\ pc'[c] \in {"termwait", "killwait"}
                                  => OwnAlive(target[c])]_vars
  BY <1>1, <1>2
<1>3. QED
  BY <1>2, StoreSafe, PTL DEF Spec, SignalsOwnGroup

------------------------------------------------------------------------------
(* Jobs implements JobLedger.                                              *)

\* A step that writes no record and moves at most one group, from alive to over.
LEMMA GroupStep ==
    ASSUME StoreInv, NEW j \in Job, UNCHANGED state,
           sup[j] # "none", sup'[j] # "none",
           ~OwnAlive(j) => ~OwnAlive(j)',
           \A k \in Job \ {j} : sup'[k] = sup[k] /\ work'[k] = work[k]
    PROVE  Ledger!End(j) \/ UNCHANGED Ledger!ledgerVars
<1> DEFINE view == [k \in Job |-> GroupView(k)]
<1>1. \A k \in Job \ {j} : view'[k] = view[k]
  BY DEF GroupView, OwnAlive
<1>2. CASE OwnAlive(j) /\ ~OwnAlive(j)'
  <2>1. view[j] = "alive" /\ view'[j] = "over"
    BY <1>2 DEF GroupView
  <2>2. view' = [view EXCEPT ![j] = "over"]
    BY <1>1, <2>1
  <2>3. QED
    BY <2>1, <2>2 DEF Ledger!End
<1>3. CASE OwnAlive(j) = OwnAlive(j)'
  <2>1. view'[j] = view[j]
    BY <1>3 DEF GroupView
  <2>2. view' = view
    BY <1>1, <2>1
  <2>3. QED
    BY <2>2 DEF Ledger!ledgerVars
<1>4. QED
  BY <1>2, <1>3 DEF OwnAlive

\* Steps of the process group map to the ledger's spawning, finishing and ending.
LEMMA ProcessRefines ==
    ASSUME StoreInv, NEW j \in Job,
           SupervisorStep(j) \/ WorkEnds(j) \/ GroupDies(j) \/ SupKilled(j)
    PROVE  Ledger!Finish(j) \/ Ledger!End(j) \/ UNCHANGED Ledger!ledgerVars
<1> DEFINE view == [k \in Job |-> GroupView(k)]
<1> USE DEF StoreInv, TypeOK
<1>1. CASE SupPopen(j) \/ SupWait(j) \/ SupExit(j)
  BY <1>1, GroupStep DEF SupPopen, SupWait, SupExit, OwnAlive, Asleep, recordVars
<1>2. CASE WorkEnds(j) \/ GroupDies(j) \/ SupKilled(j)
  <2>1. sup[j] # "none"
    BY <1>2 DEF WorkEnds, GroupDies, SupKilled, OwnAlive, Asleep, StarterInv
  <2>2. QED
    BY <1>2, <2>1, GroupStep DEF WorkEnds, GroupDies, SupKilled, OwnAlive, Asleep, recordVars
<1>3. CASE SupRegister(j)
  <2>1. state' = state
    BY <1>3 DEF SupRegister, SupervisorInv
  <2>2. QED
    BY <1>3, <2>1, GroupStep DEF SupRegister, OwnAlive, Asleep
<1>4. CASE Launch(j) /\ UNCHANGED state
  BY <1>4, GroupStep DEF Launch, OwnAlive, Asleep
<1>5. CASE Launch(j) /\ state' # state
  <2>1. /\ sup[j] = "launch" /\ sup' = [sup EXCEPT ![j] = "gone"]
        /\ state' = [state EXCEPT ![j] = "failed"] /\ work' = work
    BY <1>5 DEF Launch, MarkLaunchFailed
  <2>2. state[j] = "running" /\ work[j] = "none"
    BY <2>1 DEF SupervisorInv, StarterInv
  <2>3. view[j] = "alive" /\ view'[j] = "over"
    BY <2>1, <2>2 DEF GroupView, OwnAlive, Asleep
  <2>4. view' = [view EXCEPT ![j] = "over"]
    BY <2>1, <2>3 DEF GroupView, OwnAlive
  <2>5. QED
    BY <2>1, <2>2, <2>3, <2>4 DEF Ledger!Finish
<1>6. CASE SupFinal(j)
  <2>1. /\ sup[j] \in {"final", "abort"} /\ sup' = [sup EXCEPT ![j] = "exit"] /\ work' = work
        /\ state' = [state EXCEPT ![j] = Outcome(j)] \/ state' = state
    BY <1>6 DEF SupFinal
  <2>2. view[j] = "alive" /\ view'[j] = "alive"
    BY <2>1 DEF GroupView, OwnAlive, Asleep
  <2>3. view' = view
    BY <2>1, <2>2 DEF GroupView, OwnAlive
  <2>4. state[j] = "running" /\ Outcome(j) \in {"done", "failed"}
    BY <2>1 DEF SupervisorInv, Outcome
  <2>5. CASE state' = state
    BY <2>3, <2>5 DEF Ledger!ledgerVars
  <2>6. CASE state' = [state EXCEPT ![j] = Outcome(j)]
    <3>1. view' = [view EXCEPT ![j] = "alive"]
      BY <2>2, <2>3
    <3>2. QED
      BY <2>2, <2>4, <2>6, <3>1 DEF Ledger!Finish
  <2>7. QED
    BY <2>1, <2>5, <2>6
<1>7. QED
  BY <1>1, <1>2, <1>3, <1>4, <1>5, <1>6 DEF SupervisorStep

\* Every step of Jobs is a step of the ledger or leaves it alone.
LEMMA StepRefines ==
    ASSUME StoreInv, [Next]_vars
    PROVE  [Ledger!LedgerNext]_(Ledger!ledgerVars)
<1> DEFINE view == [k \in Job |-> GroupView(k)]
<1> USE DEF StoreInv, TypeOK
<1>1. UNCHANGED <<sup, work>> => view' = view
  BY DEF GroupView, OwnAlive
<1>2. UNCHANGED <<state, sup, work>> => UNCHANGED Ledger!ledgerVars
  BY <1>1 DEF Ledger!ledgerVars
<1>3. ASSUME NEW j \in Job, StarterStep(j) \/ FaultStep(j)
      PROVE  Ledger!LedgerNext \/ UNCHANGED Ledger!ledgerVars
  <2>1. CASE StartRecord(j)
    BY <1>1, <2>1 DEF StartRecord, StarterInv, GroupView, processVars, Ledger!Open,
       Ledger!LedgerNext
  <2>2. CASE StartFork(j)
    <3>1. /\ state[j] = "running" /\ sup[j] = "none" /\ work[j] = "none"
          /\ \E x \in {"launch", "gone"} : sup' = [sup EXCEPT ![j] = x]
          /\ UNCHANGED <<state, work>>
      BY <2>2 DEF StartFork, StarterInv, recordVars
    <3>2. view[j] = "unborn" /\ view'[j] \in {"alive", "over"}
      BY <3>1 DEF GroupView, OwnAlive, Asleep
    <3>3. view' = [view EXCEPT ![j] = view'[j]]
      BY <3>1 DEF GroupView, OwnAlive
    <3>4. Ledger!Spawn(j)
      BY <3>1, <3>2, <3>3 DEF Ledger!Spawn
    <3>5. QED
      BY <3>4 DEF Ledger!LedgerNext
  <2>3. CASE SupKilled(j)
    BY <2>3, ProcessRefines DEF Ledger!LedgerNext
  <2>4. CASE StartPrune(j) \/ StartArgv(j) \/ StarterDies(j) \/ PidReused(j) \/ StrangerEnds(j)
    BY <1>2, <2>4 DEF StartPrune, StartArgv, StarterDies, PidReused, StrangerEnds,
       recordVars, processVars
  <2>5. QED
    BY <1>3, <2>1, <2>2, <2>3, <2>4 DEF StarterStep, FaultStep
<1>4. ASSUME NEW j \in Job, SupervisorStep(j) \/ WorkEnds(j) \/ GroupDies(j)
      PROVE  Ledger!LedgerNext \/ UNCHANGED Ledger!ledgerVars
  BY <1>4, ProcessRefines DEF Ledger!LedgerNext
<1>5. ASSUME NEW c \in Canceller, CancelStep(c) \/ CancellerDies(c)
      PROVE  Ledger!LedgerNext \/ UNCHANGED Ledger!ledgerVars
  <2>1. CASE CancelWrite(c) /\ state' # state
    <3>1. /\ state' = [state EXCEPT ![target[c]] = "cancelled"]
          /\ state[target[c]] \in {"running", "absent", "cancelled"}
          /\ sup[target[c]] \in {"wait", "final", "exit", "gone"} /\ ~OwnAlive(target[c])
          /\ UNCHANGED <<sup, work>>
      BY <2>1 DEF CancelWrite, CancellerInv, State, Terminal, processVars
    <3>2. view[target[c]] = "over" /\ view' = view
      BY <1>1, <3>1 DEF GroupView
    <3>3. Ledger!Cancel(target[c])
      BY <3>1, <3>2 DEF Ledger!Cancel
    <3>4. QED
      BY <3>3 DEF Ledger!LedgerNext
  <2>2. CASE CancelWrite(c) /\ state' = state
    BY <1>2, <2>2 DEF CancelWrite, processVars
  <2>3. CASE ~CancelWrite(c)
    BY <1>2, <1>5, <2>3 DEF CancelStep, CancelRead, CancelProbe, CancelLocate, CancelReprobe,
       CancelTerm, CancelTermWait, CancelRecheck, CancelKill, CancelKillWait, CancelRaced,
       CancelReread, CancellerDies, Probe, WaitGroup, recordVars, processVars
  <2>4. QED
    BY <2>1, <2>2, <2>3
<1>6. ASSUME NEW s \in Sweeper, Sweep(s) \/ SweeperDies(s)
      PROVE  UNCHANGED Ledger!ledgerVars
  BY <1>2, <1>6 DEF Sweep, SweeperDies, recordVars, processVars
<1>7. ASSUME NEW a \in Job \cup Sweeper, NEW j \in Job, RemoveVictim(a, j)
      PROVE  Ledger!LedgerNext \/ UNCHANGED Ledger!ledgerVars
  <2>1. CASE state' = state
    BY <1>2, <1>7, <2>1 DEF RemoveVictim, processVars
  <2>2. CASE state' # state
    <3>1. state[j] \in Terminal /\ state' = [state EXCEPT ![j] = "absent"] /\ view' = view
      BY <1>1, <1>7, <2>2 DEF RemoveVictim, SweepInv, processVars
    <3>2. QED
      BY <3>1 DEF Ledger!Remove, Ledger!LedgerNext, Ledger!Terminal, Terminal
  <2>3. QED
    BY <2>1, <2>2
<1>8. CASE UNCHANGED vars
  BY <1>2, <1>8 DEF vars, recordVars, processVars
<1>9. QED
  BY <1>3, <1>4, <1>5, <1>6, <1>7, <1>8 DEF Next, RetryPrune, StarterStep

\* The job runner, with all its races and faults, behaves as the ledger promises.
THEOREM Refinement == Spec => ImplementsLedger
<1>1. Init => Ledger!LedgerInit
  BY DEF Init, Ledger!LedgerInit, GroupView
<1>2. QED
  BY <1>1, StepRefines, StoreSafe, PTL DEF Spec, ImplementsLedger, Ledger!LedgerSpec

------------------------------------------------------------------------------
(* What the outcomes say.                                                   *)

\* The supervisor comes to its final write only when its worker has ended, and gives up before
\* there is one unless its pid could not be written.
OutcomeInv ==
    \A j \in Job :
        /\ sup[j] \in {"register", "wait"} => work[j] # "none"
        /\ sup[j] = "final" => work[j] \in {"ok", "bad"}
        /\ state[j] = "done" => work[j] = "ok"
        /\ "io" \notin Faults =>
              /\ sup[j] = "abort" => work[j] = "none"
              /\ IsTerminal(j) => work[j] # "run"

\* Only a running record gets an outcome, from a supervisor that knows it or from a canceller
\* that has seen the group end; a worker that has ended does not run again.
LEMMA OutcomeStep ==
    ASSUME StoreInv, OutcomeInv, [Next]_vars
    PROVE  OutcomeInv'
<1> USE DEF StoreInv, TypeOK
<1>1. ASSUME NEW j \in Job, StarterStep(j) \/ StarterDies(j)
      PROVE  OutcomeInv'
  BY <1>1 DEF OutcomeInv, IsTerminal, Terminal, StarterInv, StarterStep, StartPrune, StartRecord,
     StartArgv, StartFork, StarterDies, recordVars, processVars
<1>2. ASSUME NEW j \in Job, SupervisorStep(j)
      PROVE  OutcomeInv'
  <2>1. CASE Launch(j)
    BY <2>1 DEF OutcomeInv, IsTerminal, Terminal, StarterInv, Launch, MarkLaunchFailed
  <2>2. CASE SupPopen(j)
    BY <2>2 DEF OutcomeInv, IsTerminal, Terminal, StarterInv, SupervisorInv, SupPopen, recordVars
  <2>3. CASE SupRegister(j)
    BY <2>3 DEF OutcomeInv, IsTerminal, Terminal, SupRegister
  <2>4. CASE SupWait(j) \/ SupExit(j)
    BY <2>4 DEF OutcomeInv, IsTerminal, StarterInv, SupWait, SupExit, recordVars
  <2>5. CASE SupFinal(j)
    BY <2>5 DEF OutcomeInv, IsTerminal, Terminal, SupFinal, Outcome
  <2>6. QED
    BY <1>2, <2>1, <2>2, <2>3, <2>4, <2>5 DEF SupervisorStep
<1>3. ASSUME NEW j \in Job, WorkEnds(j) \/ GroupDies(j) \/ FaultStep(j)
      PROVE  OutcomeInv'
  <2>1. CASE WorkEnds(j)
    BY <2>1 DEF OutcomeInv, IsTerminal, WorkEnds, recordVars
  <2>2. CASE GroupDies(j)
    BY <2>2 DEF OutcomeInv, IsTerminal, GroupDies, recordVars
  <2>3. CASE FaultStep(j)
    BY <2>3 DEF OutcomeInv, IsTerminal, FaultStep, StarterDies, SupKilled, PidReused, StrangerEnds,
       recordVars, processVars
  <2>4. QED
    BY <1>3, <2>1, <2>2, <2>3
<1>4. ASSUME NEW c \in Canceller, CancelStep(c) \/ CancellerDies(c)
      PROVE  OutcomeInv'
  <2>1. UNCHANGED <<sup, work>>
    BY <1>4 DEF CancelStep, CancelRead, CancelProbe, CancelLocate, CancelReprobe, CancelTerm,
       CancelTermWait, CancelRecheck, CancelKill, CancelKillWait, CancelRaced, CancelReread,
       CancelWrite, CancellerDies, Probe, WaitGroup, processVars
  <2>2. CASE CancelWrite(c)
    BY <2>1, <2>2 DEF OutcomeInv, IsTerminal, Terminal, CancellerInv, OwnAlive, CancelWrite
  <2>3. CASE ~CancelWrite(c)
    <3>1. UNCHANGED state
      BY <1>4, <2>3 DEF CancelStep, CancelRead, CancelProbe, CancelLocate, CancelReprobe,
         CancelTerm, CancelTermWait, CancelRecheck, CancelKill, CancelKillWait, CancelRaced,
         CancelReread, CancellerDies, Probe, WaitGroup, recordVars
    <3>2. QED
      BY <2>1, <3>1 DEF OutcomeInv, IsTerminal
  <2>4. QED
    BY <2>2, <2>3
<1>5. ASSUME NEW s \in Sweeper, Sweep(s) \/ SweeperDies(s)
      PROVE  OutcomeInv'
  BY <1>5 DEF OutcomeInv, IsTerminal, Sweep, SweeperDies, recordVars, processVars
<1>6. ASSUME NEW a \in Job \cup Sweeper, NEW j \in Job, RemoveVictim(a, j)
      PROVE  OutcomeInv'
  BY <1>6 DEF OutcomeInv, IsTerminal, Terminal, RemoveVictim, processVars
<1>7. CASE UNCHANGED vars
  BY <1>7 DEF OutcomeInv, IsTerminal, vars, recordVars, processVars
<1>8. QED
  BY <1>1, <1>2, <1>3, <1>4, <1>5, <1>6, <1>7 DEF Next, RetryPrune, StarterStep

\* A record that says "done" had a worker that exited with 0, whatever fails.
THEOREM OutcomesKnown == Spec => []OutcomeInv
<1>1. Init => OutcomeInv
  BY DEF Init, OutcomeInv, IsTerminal, Terminal
<1>2. QED
  BY <1>1, OutcomeStep, StoreSafe, PTL DEF Spec

\* A record with an outcome has no worker behind it (jobs.py 19-21).  Where metadata writes
\* fail it may: a supervisor that cannot register its pid reports "failed" and leaves the
\* worker it has started (jobs.py 754-776).
THEOREM OutcomesAreTrue ==
    ASSUME "io" \notin Faults
    PROVE  Spec => []OutcomeIsTrue
<1>1. OutcomeInv => OutcomeIsTrue
  BY DEF OutcomeInv, OutcomeIsTrue
<1>2. QED
  BY <1>1, OutcomesKnown, PTL

------------------------------------------------------------------------------
(* Retention.                                                               *)

Newer(j) == {k \in Job : IsTerminal(k) /\ started[k] > started[j]}

\* A record some prune has listed has Keep newer outcomes for good.
RetentionInv == \A a \in Job \cup Sweeper : \A j \in victims[a] : Cardinality(Newer(j)) >= Keep

\* A set of jobs that holds enough for Keep.
LEMMA Enough ==
    ASSUME NEW S \in SUBSET Job, NEW T \in SUBSET S, Cardinality(T) >= Keep
    PROVE  Cardinality(S) >= Keep
<1>1. IsFiniteSet(S)
  BY JobsAssumption, FS_Subset
<1>2. Cardinality(T) <= Cardinality(S) /\ Cardinality(S) \in Nat /\ Cardinality(T) \in Nat
  BY <1>1, FS_Subset, FS_CardinalityType
<1>3. QED
  BY <1>2, KeepAssumption

\* A record with an outcome is not started again.
LEMMA StartedStep ==
    ASSUME StoreInv, [Next]_vars, NEW j \in Job, sup[j] # "none"
    PROVE  started'[j] = started[j]
<1> USE DEF StoreInv, TypeOK
<1>1. ASSUME NEW k \in Job, StarterStep(k) \/ StarterDies(k)
      PROVE  started'[j] = started[j]
  BY <1>1 DEF StarterStep, StartPrune, StartRecord, StartArgv, StartFork, StarterDies, StarterInv,
     recordVars
<1>2. ASSUME NEW k \in Job, SupervisorStep(k) \/ WorkEnds(k) \/ GroupDies(k) \/ FaultStep(k)
      PROVE  started' = started
  BY <1>2 DEF SupervisorStep, Launch, SupPopen, SupRegister, SupWait, SupFinal, SupExit, WorkEnds,
     GroupDies, FaultStep, StarterDies, SupKilled, PidReused, StrangerEnds, recordVars
<1>3. ASSUME NEW c \in Canceller, CancelStep(c) \/ CancellerDies(c)
      PROVE  started' = started
  BY <1>3 DEF CancelStep, CancelRead, CancelProbe, CancelLocate, CancelReprobe, CancelTerm,
     CancelTermWait, CancelRecheck, CancelKill, CancelKillWait, CancelRaced, CancelReread,
     CancelWrite, CancellerDies, Probe, WaitGroup, recordVars
<1>4. ASSUME NEW s \in Sweeper, Sweep(s) \/ SweeperDies(s)
      PROVE  started' = started
  BY <1>4 DEF Sweep, SweeperDies, recordVars
<1>5. ASSUME NEW a \in Job \cup Sweeper, NEW k \in Job, RemoveVictim(a, k)
      PROVE  started' = started
  BY <1>5 DEF RemoveVictim
<1>6. CASE UNCHANGED vars
  BY <1>6 DEF vars, recordVars
<1>7. QED
  BY <1>1, <1>2, <1>3, <1>4, <1>5, <1>6 DEF Next, RetryPrune, StarterStep

\* A prune lists what has Keep newer outcomes; nobody else lists anything.
LEMMA ListingStep ==
    ASSUME StoreInv, Clearer = {}, [Next]_vars,
           NEW a \in Job \cup Sweeper, NEW j \in victims'[a], j \notin victims[a]
    PROVE  j \in Prunable /\ UNCHANGED <<state, started>>
<1> USE DEF StoreInv, TypeOK
<1>1. ASSUME NEW k \in Job, StarterStep(k) \/ StarterDies(k)
      PROVE  j \in Prunable /\ UNCHANGED <<state, started>>
  <2>1. CASE StartPrune(k)
    BY <2>1 DEF StartPrune, recordVars
  <2>2. CASE ~StartPrune(k)
    BY <1>1, <2>2 DEF StarterStep, StartRecord, StartArgv, StartFork, StarterDies, recordVars
  <2>3. QED
    BY <2>1, <2>2
<1>2. ASSUME NEW k \in Job, SupervisorStep(k) \/ WorkEnds(k) \/ GroupDies(k) \/ FaultStep(k),
             ~StarterDies(k)
      PROVE  victims' = victims
  BY <1>2 DEF SupervisorStep, Launch, SupPopen, SupRegister, SupWait, SupFinal, SupExit, WorkEnds,
     GroupDies, FaultStep, SupKilled, PidReused, StrangerEnds, panelVars
<1>3. ASSUME NEW c \in Canceller, CancelStep(c) \/ CancellerDies(c)
      PROVE  victims' = victims
  BY <1>3 DEF CancelStep, CancelRead, CancelProbe, CancelLocate, CancelReprobe, CancelTerm,
     CancelTermWait, CancelRecheck, CancelKill, CancelKillWait, CancelRaced, CancelReread,
     CancelWrite, CancellerDies, Probe, WaitGroup
<1>4. ASSUME NEW s \in Sweeper, Sweep(s)
      PROVE  j \in Prunable /\ UNCHANGED <<state, started>>
  BY <1>4 DEF Sweep, recordVars
<1>5. ASSUME NEW s \in Sweeper, SweeperDies(s)
      PROVE  j \in victims[a]
  BY <1>5 DEF SweeperDies
<1>6. ASSUME NEW b \in Job \cup Sweeper, NEW k \in Job, RemoveVictim(b, k)
      PROVE  j \in victims[a]
  BY <1>6 DEF RemoveVictim
<1>7. CASE UNCHANGED vars
  BY <1>7 DEF vars, panelVars
<1>8. QED
  BY <1>1, <1>2, <1>3, <1>4, <1>5, <1>6, <1>7 DEF Next, RetryPrune, StarterStep

\* A record disappears only because somebody has listed it, and alone.
LEMMA RemovalStep ==
    ASSUME StoreInv, [Next]_vars, NEW j \in Job, state[j] # "absent", state'[j] = "absent"
    PROVE  /\ \E a \in Job \cup Sweeper : j \in victims[a]
           /\ \A k \in Job \ {j} : state'[k] = state[k]
<1> USE DEF StoreInv, TypeOK
<1>1. ASSUME NEW k \in Job, StarterStep(k) \/ StarterDies(k)
      PROVE  FALSE
  BY <1>1 DEF StarterStep, StartPrune, StartRecord, StartArgv, StartFork, StarterDies, recordVars
<1>2. ASSUME NEW k \in Job, SupervisorStep(k) \/ WorkEnds(k) \/ GroupDies(k) \/ FaultStep(k)
      PROVE  FALSE
  BY <1>2 DEF SupervisorStep, Launch, MarkLaunchFailed, SupPopen, SupRegister, SupWait, SupFinal,
     Outcome, SupExit, WorkEnds, GroupDies, FaultStep, StarterDies, SupKilled, PidReused,
     StrangerEnds, recordVars
<1>3. ASSUME NEW c \in Canceller, CancelStep(c) \/ CancellerDies(c)
      PROVE  FALSE
  BY <1>3 DEF CancelStep, CancelRead, CancelProbe, CancelLocate, CancelReprobe, CancelTerm,
     CancelTermWait, CancelRecheck, CancelKill, CancelKillWait, CancelRaced, CancelReread,
     CancelWrite, CancellerDies, Probe, WaitGroup, recordVars
<1>4. ASSUME NEW s \in Sweeper, Sweep(s) \/ SweeperDies(s)
      PROVE  FALSE
  BY <1>4 DEF Sweep, SweeperDies, recordVars
<1>5. ASSUME NEW a \in Job \cup Sweeper, NEW k \in Job, RemoveVictim(a, k)
      PROVE  j = k /\ j \in victims[a] /\ \A i \in Job \ {j} : state'[i] = state[i]
  BY <1>5 DEF RemoveVictim
<1>6. ~UNCHANGED vars
  BY DEF vars, recordVars
<1>7. QED
  BY <1>1, <1>2, <1>3, <1>4, <1>5, <1>6 DEF Next, RetryPrune, StarterStep

\* What stays when a listed record goes: what it was listed for is newer than it, and than
\* whatever else is older.
LEMMA RetentionStep ==
    ASSUME StoreInv, RetentionInv, Clearer = {}, [Next]_vars
    PROVE  RetentionInv'
<1> SUFFICES ASSUME NEW a \in Job \cup Sweeper, NEW j \in victims'[a]
             PROVE  Cardinality(Newer(j)') >= Keep
  BY DEF RetentionInv, Newer
<1>1. CASE j \notin victims[a]
  <2>1. j \in Prunable /\ UNCHANGED <<state, started>>
    BY <1>1, ListingStep
  <2>2. Newer(j)' = Newer(j)
    BY <2>1 DEF Newer, IsTerminal
  <2>3. Newer(j) = {k \in Listed : IsTerminal(k) /\ started[k] > started[j]}
    BY DEF Newer, Listed, IsTerminal, Terminal
  <2>4. QED
    BY <2>1, <2>2, <2>3 DEF Prunable
<1>2. CASE j \in victims[a]
  <2>1. j \in Job /\ started'[j] = started[j] /\ Cardinality(Newer(j)) >= Keep
    BY <1>2, StartedStep DEF StoreInv, TypeOK, SweepInv, RetentionInv
  <2>2. \A k \in Job : IsTerminal(k) => started'[k] = started[k]
    BY TerminalIsOver, StartedStep
  <2>3. CASE \A k \in Newer(j) : IsTerminal(k)'
    <3>1. Newer(j) \subseteq Newer(j)'
      BY <2>1, <2>2, <2>3 DEF Newer
    <3>2. Newer(j)' \in SUBSET Job
      BY DEF Newer
    <3>3. QED
      BY <2>1, <3>1, <3>2, Enough
  <2>4. CASE \E k \in Newer(j) : ~IsTerminal(k)'
    <3>1. PICK k \in Newer(j) : ~IsTerminal(k)'
      BY <2>4
    <3>2. k \in Job /\ IsTerminal(k) /\ state'[k] = "absent"
      BY <3>1, RecordStep DEF Newer, MayWrite, IsTerminal, Terminal
    <3>3. /\ \E b \in Job \cup Sweeper : k \in victims[b]
          /\ \A i \in Job \ {k} : state'[i] = state[i]
      BY <3>2, RemovalStep DEF IsTerminal, Terminal
    <3>4. Cardinality(Newer(k)) >= Keep
      BY <3>3 DEF RetentionInv
    <3>5. Newer(k) \subseteq Newer(j)'
      <4> SUFFICES ASSUME NEW i \in Newer(k) PROVE i \in Newer(j)'
        OBVIOUS
      <4>1. i \in Job /\ IsTerminal(i) /\ started[i] > started[k] /\ started[k] > started[j]
        BY <3>1 DEF Newer
      <4>2. started[i] \in Nat /\ started[k] \in Nat /\ started[j] \in Nat
        BY <2>1, <3>2, <4>1 DEF StoreInv, TypeOK
      <4>3. i # k /\ started[i] > started[j]
        BY <4>1, <4>2
      <4>4. QED
        BY <2>1, <2>2, <3>3, <4>1, <4>3 DEF Newer, IsTerminal
    <3>6. Newer(j)' \in SUBSET Job
      BY DEF Newer
    <3>7. QED
      BY <3>4, <3>5, <3>6, Enough
  <2>5. QED
    BY <2>3, <2>4
<1>3. QED
  BY <1>1, <1>2

\* Where nobody clears, however prunes overlap, a record goes only while Keep others with an
\* outcome stay (jobs.py 349-374).
THEOREM RetentionAlwaysKept ==
    ASSUME Clearer = {}
    PROVE  Spec => RetentionKept
<1>1. Init => RetentionInv
  BY DEF Init, RetentionInv
<1>2. StoreInv /\ RetentionInv /\ [Next]_vars => RetentionInv'
  BY RetentionStep
<1>3. ASSUME StoreInv, RetentionInv, [Next]_vars, NEW j \in Job,
             state[j] # "absent", state'[j] = "absent"
      PROVE  Cardinality({k \in Job : state'[k] \in Terminal}) >= Keep
  <2>1. PICK a \in Job \cup Sweeper : j \in victims[a]
    BY <1>3, RemovalStep
  <2>2. Newer(j) \subseteq {k \in Job : state'[k] \in Terminal}
    <3>1. \A k \in Newer(j) : k \in Job \ {j} /\ IsTerminal(k)
      BY <1>3 DEF Newer, StoreInv, TypeOK
    <3>2. QED
      BY <1>3, <3>1, RemovalStep DEF IsTerminal
  <2>3. QED
    BY <1>3, <2>1, <2>2, Enough DEF RetentionInv
<1>4. StoreInv /\ RetentionInv /\ [Next]_vars =>
         [\A j \in Job : state[j] # "absent" /\ state'[j] = "absent"
                          => Cardinality({k \in Job : state'[k] \in Terminal}) >= Keep]_vars
  BY <1>3
<1>5. QED
  BY <1>1, <1>2, <1>4, StoreSafe, PTL DEF Spec, RetentionKept
===============================================================================
