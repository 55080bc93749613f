------------------------------ MODULE JobLedger ------------------------------
(***************************************************************************)
(* What core/jobs.py promises about one background job, seen from outside: *)
(* the job has a record whose status the panel shows, and a process group  *)
(* that does the work.  The record is finalized by the work itself, or     *)
(* marked cancelled once the group is over, and only a record that has     *)
(* reached a terminal status is ever removed.  Jobs implements this.       *)
(***************************************************************************)
CONSTANT Job

VARIABLES
    status,     \* status[j]: what <JOBS_ROOT>/j/meta.json says, or "absent"
    group       \* group[j]: "unborn", "alive" or "over", the detached process group

ledgerVars == <<status, group>>

Terminal == {"done", "failed", "cancelled"}
Status   == {"absent", "running"} \cup Terminal
Group    == {"unborn", "alive", "over"}

LedgerInit ==
    /\ status = [j \in Job |-> "absent"]
    /\ group = [j \in Job |-> "unborn"]

\* A job is recorded before anything runs for it.
Open(j) ==
    /\ status[j] = "absent" /\ group[j] = "unborn"
    /\ status' = [status EXCEPT ![j] = "running"]
    /\ UNCHANGED group

\* Its process group is created, or cannot be.
Spawn(j) ==
    /\ status[j] = "running" /\ group[j] = "unborn"
    /\ \E g \in {"alive", "over"} : group' = [group EXCEPT ![j] = g]
    /\ UNCHANGED status

\* The group writes its own outcome, and may end in the same step.
Finish(j) ==
    /\ status[j] = "running" /\ group[j] = "alive"
    /\ \E s \in {"done", "failed"} : status' = [status EXCEPT ![j] = s]
    /\ \E g \in {"alive", "over"} : group' = [group EXCEPT ![j] = g]

\* The last process of the group ends, with or without an outcome.
End(j) ==
    /\ group[j] = "alive"
    /\ group' = [group EXCEPT ![j] = "over"]
    /\ UNCHANGED status

\* An operator's cancellation is recorded: only for a group that is over, and
\* never over an outcome that is there.  From "absent" it brings back a record
\* that was removed meanwhile, which the code does not prevent.
Cancel(j) ==
    /\ group[j] = "over"
    /\ status[j] \in {"running", "absent", "cancelled"}
    /\ status' = [status EXCEPT ![j] = "cancelled"]
    /\ UNCHANGED group

\* Clearing and pruning take terminal records only.
Remove(j) ==
    /\ status[j] \in Terminal
    /\ status' = [status EXCEPT ![j] = "absent"]
    /\ UNCHANGED group

LedgerNext ==
    \E j \in Job : \/ Open(j) \/ Spawn(j) \/ Finish(j)
                   \/ End(j) \/ Cancel(j) \/ Remove(j)

LedgerSpec == LedgerInit /\ [][LedgerNext]_ledgerVars
==============================================================================
