-------------------------------- MODULE Jobs ---------------------------------
(***************************************************************************)
(* core/jobs.py: the detached background-job runner.                       *)
(*                                                                         *)
(* A panel request calls start(), which records the job and double-forks   *)
(* a supervisor; the supervisor runs the worker and finalizes the record.  *)
(* Other panel requests cancel, retry, poll (which prunes) and clear.      *)
(* Nothing is locked: every actor reads and replaces <job>/meta.json by    *)
(* itself, so every read, probe, signal and write below is a step of its   *)
(* own.                                                                    *)
(***************************************************************************)
EXTENDS Integers, FiniteSets

CONSTANTS
    Job,        \* job ids ever minted; start() never mints one twice
    Canceller,  \* CancelJob requests, each serving one call
    Clearer,    \* ClearJobs requests
    Poller,     \* GetJobs requests, which prune
    Keep,       \* DEFAULT_TERMINAL_RETENTION
    Faults      \* which faults of the environment may happen

\* launch : fork, exec or the log redirection fails     io : a metadata write fails
\* procfs : /proc is unreadable or a signal is denied    crash : a process is killed
\* reuse  : the kernel hands an ended job's pid and group id to a stranger
\* stuck  : a killed process lingers in an uninterruptible call
FaultKind == {"launch", "io", "procfs", "crash", "reuse", "stuck"}

Sweeper == Clearer \cup Poller

ASSUME KeepAssumption   == Keep \in Nat
ASSUME FaultsAssumption == Faults \subseteq FaultKind
ASSUME JobsAssumption   == IsFiniteSet(Job) /\ Job \cap Sweeper = {}

VARIABLES
    \* the store, JOBS_ROOT/<job>/
    state,      \* meta.json "state"; "absent" when the directory is not there
    pid,        \* meta.json "pid": has the supervisor registered its pid?
    argv,       \* argv.json was written
    started,    \* meta.json "started": the order in which jobs were recorded
    clock,
    \* the detached process group of each job
    sup,        \* program counter of the launcher and supervisor process
    work,       \* the worker: "none", "run", or ended "ok" / "bad"
    asked,      \* the supervisor's cancel_requested flag
    doomed,     \* SIGKILL was sent to the group
    verdict,    \* history: the outcome the supervisor itself recorded
    stranger,   \* the job's pid and group id now belong to a stranger
    \* panel requests
    starter,    \* program counter of the request that starts each job
    victims,    \* records a sweep has listed and has still to remove
    pc,         \* program counter of each cancel() call
    target,     \* the job it cancels
    answer      \* what it returned to the operator

recordVars  == <<state, pid, argv, started, clock>>
processVars == <<sup, work, asked, doomed, verdict, stranger>>
cancelVars  == <<pc, target, answer>>
panelVars   == <<starter, victims, cancelVars>>
vars        == <<recordVars, processVars, panelVars>>

Terminal == {"done", "failed", "cancelled"}
State    == {"absent", "running"} \cup Terminal

Asleep == {"none", "gone"}
SupPC  == Asleep \cup {"launch", "boot", "register", "wait", "final", "abort", "exit"}
StarterPC == {"new", "prune", "record", "argv", "fork", "returned"}
CancelPC  == {"idle", "probe", "locate", "reprobe", "term", "termwait", "recheck",
              "kill", "killwait", "reread", "write", "raced", "returned"}

\* A member of the job's own group is alive: launcher, supervisor or worker.
OwnAlive(j) == sup[j] \notin Asleep \/ work[j] = "run"

\* _process_group_exists: killpg(pgid, 0) cannot tell a stranger's group.
GroupExists(j) == OwnAlive(j) \/ stranger[j]

\* _capture_supervisor_identity: the recorded pid runs exactly this job's
\* supervisor argv, with the birth time seen before.
IdentityHolds(j) == sup[j] \notin Asleep \cup {"launch", "boot"}

IsTerminal(j) == state[j] \in Terminal

\* list_jobs(): what is there; the order is that of started.
Listed == {j \in Job : state[j] # "absent"}

\* prune(): the terminal records that have at least Keep newer ones.  The faulty
\* variant counts every newer record.
PrunableByAll ==
    {j \in Listed : /\ IsTerminal(j)
                    /\ Cardinality({k \in Listed : started[k] > started[j]}) >= Keep}

Prunable ==
    {j \in Listed : /\ IsTerminal(j)
                    /\ Cardinality({k \in Listed : IsTerminal(k) /\ started[k] > started[j]}) >= Keep}

Init ==
    /\ state = [j \in Job |-> "absent"]
    /\ pid = [j \in Job |-> FALSE]
    /\ argv = [j \in Job |-> FALSE]
    /\ started = [j \in Job |-> 0]
    /\ clock = 0
    /\ sup = [j \in Job |-> "none"]
    /\ work = [j \in Job |-> "none"]
    /\ asked = [j \in Job |-> FALSE]
    /\ doomed = [j \in Job |-> FALSE]
    /\ verdict = [j \in Job |-> "none"]
    /\ stranger = [j \in Job |-> FALSE]
    /\ starter = [j \in Job |-> "new"]
    /\ victims = [a \in Job \cup Sweeper |-> {}]
    /\ pc = [c \in Canceller |-> "idle"]
    /\ target \in [Canceller -> Job]
    /\ answer = [c \in Canceller |-> "none"]

------------------------------------------------------------------------------
(* start() and retry(): the panel request that creates job j.              *)

StartPrune(j) ==
    /\ starter[j] = "new"
    /\ starter' = [starter EXCEPT ![j] = "prune"]
    /\ victims' = [victims EXCEPT ![j] = Prunable]
    /\ UNCHANGED <<recordVars, processVars, cancelVars>>

\* retry() only needs a readable record and argv.json, whatever the state is.
RetryPrune(old, j) ==
    /\ state[old] # "absent" /\ argv[old]
    /\ StartPrune(j)

StartRecord(j) ==
    /\ starter[j] = "prune" /\ victims[j] = {}
    /\ starter' = [starter EXCEPT ![j] = "argv"]
    /\ clock' = clock + 1
    /\ started' = [started EXCEPT ![j] = clock + 1]
    /\ state' = [state EXCEPT ![j] = "running"]
    /\ UNCHANGED <<pid, argv, processVars, victims, cancelVars>>

StartArgv(j) ==
    /\ starter[j] = "argv"
    /\ starter' = [starter EXCEPT ![j] = "fork"]
    /\ \/ argv' = [argv EXCEPT ![j] = TRUE]
       \/ "io" \in Faults /\ UNCHANGED argv
    /\ UNCHANGED <<state, pid, started, clock, processVars, victims, cancelVars>>

\* _spawn_detached in the parent: it reaps the intermediate child and returns.
StartFork(j) ==
    /\ starter[j] = "fork"
    /\ starter' = [starter EXCEPT ![j] = "returned"]
    /\ \/ sup' = [sup EXCEPT ![j] = "launch"]
       \/ "launch" \in Faults /\ sup' = [sup EXCEPT ![j] = "gone"]
    /\ UNCHANGED <<recordVars, work, asked, doomed, verdict, stranger, victims, cancelVars>>

StarterDies(j) ==
    /\ "crash" \in Faults
    /\ starter[j] \notin {"new", "returned"}
    /\ starter' = [starter EXCEPT ![j] = "returned"]
    /\ victims' = [victims EXCEPT ![j] = {}]
    /\ UNCHANGED <<recordVars, processVars, cancelVars>>

------------------------------------------------------------------------------
(* The grandchild: it execs the supervisor, which runs _supervise().       *)

MarkLaunchFailed(j) ==
    \/ state' = [state EXCEPT ![j] = "failed"]
    \/ "io" \in Faults /\ UNCHANGED state

\* Only a failing exec marks the record; an earlier failure ends in the outer
\* handler's os._exit(127) and leaves the record alone.
Launch(j) ==
    /\ sup[j] = "launch"
    /\ \/ /\ sup' = [sup EXCEPT ![j] = "boot"]
          /\ UNCHANGED state
       \/ /\ "launch" \in Faults
          /\ sup' = [sup EXCEPT ![j] = "gone"]
          /\ UNCHANGED state
       \/ /\ "launch" \in Faults
          /\ sup' = [sup EXCEPT ![j] = "gone"]
          /\ MarkLaunchFailed(j)
    /\ UNCHANGED <<pid, argv, started, clock, work, asked, doomed, verdict, stranger, panelVars>>

\* Read the record, install the SIGTERM handler and Popen the worker.
SupPopen(j) ==
    /\ sup[j] = "boot"
    /\ \/ /\ sup' = [sup EXCEPT ![j] = "register"]
          /\ work' = [work EXCEPT ![j] = "run"]
       \/ /\ "launch" \in Faults
          /\ sup' = [sup EXCEPT ![j] = "abort"]
          /\ UNCHANGED work
    /\ UNCHANGED <<recordVars, asked, doomed, verdict, stranger, panelVars>>

\* Publish the pid; a failed write drops into the exception handler while the
\* worker goes on.
SupRegister(j) ==
    /\ sup[j] = "register"
    /\ \/ /\ state' = [state EXCEPT ![j] = "running"]
          /\ pid' = [pid EXCEPT ![j] = TRUE]
          /\ sup' = [sup EXCEPT ![j] = "wait"]
       \/ /\ "io" \in Faults
          /\ sup' = [sup EXCEPT ![j] = "abort"]
          /\ UNCHANGED <<state, pid>>
    /\ UNCHANGED <<argv, started, clock, work, asked, doomed, verdict, stranger, panelVars>>

\* Faulty variant: only a successful worker is finalized.
SupWaitForSuccess(j) ==
    /\ sup[j] = "wait" /\ work[j] # "run" /\ ~doomed[j]
    /\ sup' = [sup EXCEPT ![j] = IF work[j] = "bad" THEN "exit" ELSE "final"]
    /\ UNCHANGED <<recordVars, work, asked, doomed, verdict, stranger, panelVars>>

\* proc.wait() returns; after a SIGTERM the canceller owns the transition.
SupWait(j) ==
    /\ sup[j] = "wait" /\ work[j] # "run" /\ ~doomed[j]
    /\ sup' = [sup EXCEPT ![j] = IF asked[j] THEN "exit" ELSE "final"]
    /\ UNCHANGED <<recordVars, work, asked, doomed, verdict, stranger, panelVars>>

\* Faulty variant: the worker's exit code is ignored.
OutcomeOfAnyExit(j) == IF sup[j] = "final" THEN "done" ELSE "failed"

\* rc == 0 is "done"; the exception path always has rc = 127.
Outcome(j) == IF sup[j] = "final" /\ work[j] = "ok" THEN "done" ELSE "failed"

\* The final write.  Not guarded by doomed: a rename already in the kernel lands
\* even when SIGKILL is pending.
SupFinal(j) ==
    /\ sup[j] \in {"final", "abort"}
    /\ sup' = [sup EXCEPT ![j] = "exit"]
    /\ \/ /\ state' = [state EXCEPT ![j] = Outcome(j)]
          /\ verdict' = [verdict EXCEPT ![j] = Outcome(j)]
          /\ pid' = [pid EXCEPT ![j] = work[j] # "none"]
       \/ /\ "io" \in Faults
          /\ UNCHANGED <<state, verdict, pid>>
    /\ UNCHANGED <<argv, started, clock, work, asked, doomed, stranger, panelVars>>

SupExit(j) ==
    /\ sup[j] = "exit" /\ ~doomed[j]
    /\ sup' = [sup EXCEPT ![j] = "gone"]
    /\ UNCHANGED <<recordVars, work, asked, doomed, verdict, stranger, panelVars>>

\* The worker ends by itself or because of a SIGTERM, with any exit code.
WorkEnds(j) ==
    /\ work[j] = "run" /\ ~doomed[j]
    /\ \E rc \in {"ok", "bad"} : work' = [work EXCEPT ![j] = rc]
    /\ UNCHANGED <<recordVars, sup, asked, doomed, verdict, stranger, panelVars>>

\* SIGKILL takes effect, at once or when an uninterruptible call returns.
GroupDies(j) ==
    /\ doomed[j] /\ OwnAlive(j)
    /\ sup' = [sup EXCEPT ![j] = "gone"]
    /\ work' = [work EXCEPT ![j] = IF work[j] = "run" THEN "bad" ELSE work[j]]
    /\ UNCHANGED <<recordVars, asked, doomed, verdict, stranger, panelVars>>

\* The supervisor alone is killed, by the kernel or at a reboot.
SupKilled(j) ==
    /\ "crash" \in Faults
    /\ sup[j] \notin Asleep
    /\ sup' = [sup EXCEPT ![j] = "gone"]
    /\ UNCHANGED <<recordVars, work, asked, doomed, verdict, stranger, panelVars>>

\* The kernel hands the ids out again.  Two adjacent system calls of a
\* canceller (probe, then killpg) are assumed to be closer than a pid wrap-around.
PidReused(j) ==
    /\ "reuse" \in Faults
    /\ sup[j] = "gone" /\ ~OwnAlive(j) /\ ~stranger[j]
    /\ \A c \in Canceller : ~(target[c] = j /\ pc[c] \in {"term", "kill"})
    /\ stranger' = [stranger EXCEPT ![j] = TRUE]
    /\ UNCHANGED <<recordVars, sup, work, asked, doomed, verdict, panelVars>>

StrangerEnds(j) ==
    /\ stranger[j]
    /\ stranger' = [stranger EXCEPT ![j] = FALSE]
    /\ UNCHANGED <<recordVars, sup, work, asked, doomed, verdict, panelVars>>

------------------------------------------------------------------------------
(* cancel(): one panel request c, for job target[c].                       *)

Goto(c, l) ==
    /\ pc' = [pc EXCEPT ![c] = l]
    /\ UNCHANGED answer

Return(c, r) ==
    /\ pc' = [pc EXCEPT ![c] = "returned"]
    /\ answer' = [answer EXCEPT ![c] = r]

CancelRead(c) ==
    /\ pc[c] = "idle"
    /\ \/ state[target[c]] = "running" /\ pid[target[c]] /\ Goto(c, "probe")
       \/ ~(state[target[c]] = "running" /\ pid[target[c]]) /\ Return(c, "refused")
    /\ UNCHANGED <<recordVars, processVars, starter, victims, target>>

\* An identity probe passes only on proof; unreadable procfs fails closed.
Probe(c, at, next) ==
    /\ pc[c] = at
    /\ \/ IdentityHolds(target[c]) /\ Goto(c, next)
       \/ (~IdentityHolds(target[c]) \/ "procfs" \in Faults) /\ Goto(c, "raced")
    /\ UNCHANGED <<recordVars, processVars, starter, victims, target>>

CancelProbe(c) == Probe(c, "probe", "locate")

\* os.getpgid answers for whichever process has the pid now.
CancelLocate(c) ==
    /\ pc[c] = "locate"
    /\ \/ (sup[target[c]] # "gone" \/ stranger[target[c]]) /\ Goto(c, "reprobe")
       \/ sup[target[c]] = "gone" /\ ~stranger[target[c]] /\ Goto(c, "raced")
    /\ UNCHANGED <<recordVars, processVars, starter, victims, target>>

CancelReprobe(c) == Probe(c, "reprobe", "term")

\* _signal_process_group: finds the group gone, signals it, or is denied.
SignalGroup(c, next) ==
    \/ ~GroupExists(target[c]) /\ Goto(c, "reread")
    \/ GroupExists(target[c]) /\ Goto(c, next)
    \/ "procfs" \in Faults /\ Goto(c, "raced")

\* SIGTERM: the supervisor only notes it, the worker may end.
CancelTerm(c) ==
    /\ pc[c] = "term"
    /\ SignalGroup(c, "termwait")
    /\ asked' = [asked EXCEPT ![target[c]] =
                    @ \/ (pc'[c] = "termwait" /\ sup[target[c]] # "gone")]
    /\ UNCHANGED <<recordVars, sup, work, doomed, verdict, stranger, starter, victims, target>>

\* _wait_for_process_group_exit: sees the group end, gives up after its two
\* seconds while the group still exists, or cannot tell.
WaitGroup(c, at, giveUp) ==
    /\ pc[c] = at
    /\ \/ ~GroupExists(target[c]) /\ Goto(c, "reread")
       \/ GroupExists(target[c]) /\ giveUp
       \/ "procfs" \in Faults /\ Goto(c, "raced")
    /\ UNCHANGED <<recordVars, processVars, starter, victims, target>>

\* Faulty variant: no deadline.
TermWaitForever(c) == WaitGroup(c, "termwait", FALSE)
CancelTermWait(c)  == WaitGroup(c, "termwait", Goto(c, "recheck"))

\* Faulty variant: SIGKILL relies on the probe made before SIGTERM.
SkipRecheck(c) ==
    /\ pc[c] = "recheck"
    /\ Goto(c, "kill")
    /\ UNCHANGED <<recordVars, processVars, starter, victims, target>>

CancelRecheck(c) == Probe(c, "recheck", "kill")

CancelKill(c) ==
    /\ pc[c] = "kill"
    /\ SignalGroup(c, "killwait")
    /\ doomed' = [doomed EXCEPT ![target[c]] =
                     @ \/ (pc'[c] = "killwait" /\ OwnAlive(target[c]))]
    /\ UNCHANGED <<recordVars, sup, work, asked, verdict, stranger, starter, victims, target>>

\* Faulty variant: the kill is taken for granted.
KillWaitAssumesDeath(c) ==
    /\ pc[c] = "killwait"
    /\ Goto(c, "reread")
    /\ UNCHANGED <<recordVars, processVars, starter, victims, target>>

CancelKillWait(c) ==
    WaitGroup(c, "killwait", /\ "stuck" \in Faults \/ stranger[target[c]]
                             /\ Return(c, "error"))

\* Faulty variant: reports whatever the record says.
RacedAnswersAny(c) ==
    /\ pc[c] = "raced"
    /\ Return(c, state[target[c]])
    /\ UNCHANGED <<recordVars, processVars, starter, victims, target>>

\* _terminal_cancel_result: the supervisor may have won the race.
CancelRaced(c) ==
    /\ pc[c] = "raced"
    /\ \/ IsTerminal(target[c]) /\ Return(c, state[target[c]])
       \/ ~IsTerminal(target[c]) /\ Return(c, "error")
    /\ UNCHANGED <<recordVars, processVars, starter, victims, target>>

\* Faulty variant: no re-read.
SkipReread(c) ==
    /\ pc[c] = "reread"
    /\ Goto(c, "write")
    /\ UNCHANGED <<recordVars, processVars, starter, victims, target>>

\* The re-read after the group is gone.  An unreadable (removed) record keeps
\* the "running" record read at the start.
CancelReread(c) ==
    /\ pc[c] = "reread"
    /\ \/ IsTerminal(target[c]) /\ Return(c, state[target[c]])
       \/ ~IsTerminal(target[c]) /\ Goto(c, "write")
    /\ UNCHANGED <<recordVars, processVars, starter, victims, target>>

\* _write_meta re-creates the directory when it is not there.
CancelWrite(c) ==
    /\ pc[c] = "write"
    /\ \/ /\ state' = [state EXCEPT ![target[c]] = "cancelled"]
          /\ pid' = [pid EXCEPT ![target[c]] = TRUE]
          /\ Return(c, "cancelled")
       \/ /\ "io" \in Faults
          /\ Return(c, "error")
          /\ UNCHANGED <<state, pid>>
    /\ UNCHANGED <<argv, started, clock, processVars, starter, victims, target>>

CancellerDies(c) ==
    /\ "crash" \in Faults
    /\ pc[c] \notin {"idle", "returned"}
    /\ Return(c, "none")
    /\ UNCHANGED <<recordVars, processVars, starter, victims, target>>

------------------------------------------------------------------------------
(* clear() and the prune() of GetJobs.                                     *)

\* Faulty variant: lists whatever is there.
SweepsAll(s) ==
    /\ victims[s] = {}
    /\ victims' = [victims EXCEPT ![s] = Listed]
    /\ UNCHANGED <<recordVars, processVars, starter, cancelVars>>

Sweep(s) ==
    /\ victims[s] = {}
    /\ victims' = [victims EXCEPT ![s] = IF s \in Clearer THEN {j \in Listed : IsTerminal(j)}
                                                          ELSE Prunable]
    /\ UNCHANGED <<recordVars, processVars, starter, cancelVars>>

\* rmtree of one listed record, without looking at it again.
RemoveVictim(a, j) ==
    /\ j \in victims[a]
    /\ victims' = [victims EXCEPT ![a] = @ \ {j}]
    /\ \/ /\ state' = [state EXCEPT ![j] = "absent"]
          /\ pid' = [pid EXCEPT ![j] = FALSE]
          /\ argv' = [argv EXCEPT ![j] = FALSE]
       \/ /\ "io" \in Faults
          /\ UNCHANGED <<state, pid, argv>>
    /\ UNCHANGED <<started, clock, processVars, starter, cancelVars>>

SweeperDies(s) ==
    /\ "crash" \in Faults
    /\ victims' = [victims EXCEPT ![s] = {}]
    /\ UNCHANGED <<recordVars, processVars, starter, cancelVars>>

------------------------------------------------------------------------------
StarterStep(j)    == StartPrune(j) \/ StartRecord(j) \/ StartArgv(j) \/ StartFork(j)
SupervisorStep(j) == \/ Launch(j) \/ SupPopen(j) \/ SupRegister(j) \/ SupWait(j)
                     \/ SupFinal(j) \/ SupExit(j)
CancelStep(c)     == \/ CancelRead(c) \/ CancelProbe(c) \/ CancelLocate(c) \/ CancelReprobe(c)
                     \/ CancelTerm(c) \/ CancelTermWait(c) \/ CancelRecheck(c) \/ CancelKill(c)
                     \/ CancelKillWait(c) \/ CancelRaced(c) \/ CancelReread(c) \/ CancelWrite(c)
FaultStep(j)      == StarterDies(j) \/ SupKilled(j) \/ PidReused(j) \/ StrangerEnds(j)

Next ==
    \/ \E j \in Job : StarterStep(j) \/ SupervisorStep(j) \/ WorkEnds(j) \/ GroupDies(j)
                      \/ FaultStep(j)
    \/ \E old, j \in Job : RetryPrune(old, j)
    \/ \E c \in Canceller : CancelStep(c) \/ CancellerDies(c)
    \/ \E s \in Sweeper : Sweep(s) \/ SweeperDies(s)
    \/ \E a \in Job \cup Sweeper, j \in Job : RemoveVictim(a, j)

Spec == Init /\ [][Next]_vars

\* A process that can take a step takes it: the kernel schedules them all, and
\* the waits of cancel() are bounded by the clock.  Operators need not ask for
\* anything, faults need not happen and a worker may run for ever.
Fairness ==
    /\ \A j \in Job : /\ WF_vars(StartRecord(j) \/ StartArgv(j) \/ StartFork(j))
                      /\ WF_vars(\E k \in Job : RemoveVictim(j, k))
                      /\ WF_vars(SupervisorStep(j))
                      /\ WF_vars(GroupDies(j))
    /\ \A c \in Canceller : WF_vars(CancelStep(c))

FairSpec == Spec /\ Fairness

\* In addition every worker ends: installs and backups are finite commands.
WorkSpec == FairSpec /\ \A j \in Job : WF_vars(WorkEnds(j))

------------------------------------------------------------------------------
TypeOK ==
    /\ state \in [Job -> State]
    /\ pid \in [Job -> BOOLEAN]
    /\ argv \in [Job -> BOOLEAN]
    /\ started \in [Job -> Nat]
    /\ clock \in Nat
    /\ sup \in [Job -> SupPC]
    /\ work \in [Job -> {"none", "run", "ok", "bad"}]
    /\ asked \in [Job -> BOOLEAN]
    /\ doomed \in [Job -> BOOLEAN]
    /\ verdict \in [Job -> {"none", "done", "failed"}]
    /\ stranger \in [Job -> BOOLEAN]
    /\ starter \in [Job -> StarterPC]
    /\ victims \in [Job \cup Sweeper -> SUBSET Job]
    /\ pc \in [Canceller -> CancelPC]
    /\ target \in [Canceller -> Job]
    /\ answer \in [Canceller -> {"none", "refused", "error"} \cup Terminal]

\* A job is recorded or reported as cancelled only when its whole process group
\* is over: cancel() claims nothing that may not have happened (jobs.py 584-591).
CancelledMeansGone ==
    /\ \A j \in Job : state[j] = "cancelled" => ~OwnAlive(j)
    /\ \A c \in Canceller : answer[c] = "cancelled" => ~OwnAlive(target[c])

\* An outcome is never replaced by another one, whoever raced to write it: the
\* supervisor, the launcher and any number of cancellers share one meta.json.
TerminalIsFinal ==
    [][\A j \in Job : IsTerminal(j) => state'[j] \in {state[j], "absent"}]_vars

\* clear() and prune() act on a listing made earlier, and still never take a
\* record that is running or being started.
ActiveNeverRemoved ==
    [][\A j \in Job : state[j] = "running" => state'[j] # "absent"]_vars

\* SIGTERM and SIGKILL reach the job's own group, although cancel() knows it only
\* by numbers the kernel may hand to a stranger between the probes (jobs.py 621-625).
SignalsOwnGroup ==
    [][\A c \in Canceller : pc[c] \in {"term", "kill"} /\ pc'[c] \in {"termwait", "killwait"}
                              => OwnAlive(target[c])]_vars

\* A record with an outcome has no worker behind it, and "done" is only said of
\* a worker that exited with 0: the supervisor finalizes on completion (jobs.py 19-21).
OutcomeIsTrue ==
    \A j \in Job : /\ IsTerminal(j) => work[j] # "run"
                   /\ state[j] = "done" => work[j] = "ok"

\* An outcome the supervisor recorded is respected, not clobbered with
\* "cancelled" by a canceller that lost the race (jobs.py 653-655).
VerdictRespected ==
    \A j \in Job : verdict[j] # "none" => state[j] # "cancelled"

\* However prunes overlap, pruning takes a record only while at least Keep other
\* terminal records stay: the audit history is never shorter than asked for.
RetentionKept ==
    [][\A j \in Job : state[j] # "absent" /\ state'[j] = "absent"
                       => Cardinality({k \in Job : state'[k] \in Terminal}) >= Keep]_vars

\* A job that nobody signals finalizes itself: from any moment on, its record
\* leaves "running" or its worker is (still or again) at work.
FinalizesUnlessSignalled ==
    \A j \in Job : state[j] = "running" ~>
                      (state[j] # "running" \/ asked[j] \/ work[j] = "run")

\* Every cancel() call returns to the operator, also when the worker ignores
\* SIGTERM and when it is stuck beyond SIGKILL.
CancelReturns ==
    \A c \in Canceller : pc[c] # "idle" ~> pc[c] = "returned"

\* The docstring's "jobs run concurrently and are self-finalizing" (jobs.py 25-26):
\* no record stays "running" for ever.
SelfFinalizing ==
    \A j \in Job : state[j] = "running" ~> state[j] # "running"

------------------------------------------------------------------------------
\* The inductive invariant behind the safety properties, by who may still write
\* the record: its starter, its supervisor, a canceller, a sweep.

\* Until it forks, the starter owns a job that has no process.
StarterInv ==
    \A j \in Job :
        /\ starter[j] \in {"new", "prune"} => sup[j] = "none" /\ state[j] = "absent"
        /\ starter[j] \in {"argv", "fork"} => sup[j] = "none" /\ state[j] = "running"
        /\ sup[j] = "none" => state[j] \in {"absent", "running"}
        /\ sup[j] \in {"none", "launch", "boot"} => work[j] = "none"

\* A supervisor with a write ahead of it finds the record running, and the pid is
\* published only while or after it waits.
SupervisorInv ==
    \A j \in Job :
        /\ sup[j] \notin {"none", "exit", "gone"} => state[j] = "running"
        /\ pid[j] => sup[j] \in {"wait", "final", "exit", "gone"}
        /\ state[j] = "cancelled" => ~OwnAlive(j)
        /\ stranger[j] => sup[j] = "gone" /\ ~OwnAlive(j)

\* A canceller works on a registered supervisor, signals while no stranger has the
\* ids, and re-reads and writes only when the group is over and no outcome is there.
CancellerInv ==
    \A c \in Canceller :
        /\ pc[c] \notin {"idle", "returned"} =>
               sup[target[c]] \in {"wait", "final", "exit", "gone"}
        /\ pc[c] \in {"term", "kill"} => ~stranger[target[c]]
        /\ pc[c] \in {"reread", "write"} => ~OwnAlive(target[c])
        /\ pc[c] = "write" => state[target[c]] \notin {"done", "failed"}
        /\ answer[c] = "cancelled" => sup[target[c]] = "gone" /\ ~OwnAlive(target[c])

\* A listed record keeps an outcome until somebody removes it, however old the listing.
SweepInv ==
    \A a \in Job \cup Sweeper : \A j \in victims[a] :
        /\ state[j] \in Terminal \cup {"absent"}
        /\ sup[j] \in {"exit", "gone"}

StoreInv == TypeOK /\ StarterInv /\ SupervisorInv /\ CancellerInv /\ SweepInv

------------------------------------------------------------------------------
\* What the panel sees of a job: its status, and whether its group is alive.
GroupView(j) == IF sup[j] = "none" THEN "unborn"
                ELSE IF OwnAlive(j) THEN "alive" ELSE "over"

Ledger == INSTANCE JobLedger WITH status <- state,
                                  group <- [j \in Job |-> GroupView(j)]

\* Jobs implements the abstract ledger of jobs.
ImplementsLedger == Ledger!LedgerSpec
==============================================================================
