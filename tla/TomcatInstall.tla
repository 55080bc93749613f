---------------------------- MODULE TomcatInstall -----------------------------
(***************************************************************************)
(* core/tomcat/installer.py: installing, updating and removing the shared  *)
(* CATALINA_HOME of one Tomcat line.                                       *)
(*                                                                         *)
(* Unlike the JDK installer it takes no lock: two requests share the one   *)
(* staging directory, and nothing puts the old home back when the second   *)
(* rename of the swap fails.                                               *)
(***************************************************************************)
EXTENDS Integers, FiniteSets

CONSTANTS
    Installer,  \* InstallTomcat / UpdateTomcat requests, each for a release of its own
    Remover,    \* UninstallTomcat requests
    App,        \* apps whose CATALINA_HOME is this line
    Faults

\* fetch : download, verification, extraction or hardening fails
\* swap  : one of the two renames fails       io  : a removal fails half-way
\* unit  : a service does not stop            kill: the request's process dies
FaultKind == {"fetch", "swap", "io", "unit", "kill"}

Op == Installer \cup Remover

ASSUME OpsAssumption    == Installer \cap Remover = {} /\ {"none", "partial", "base"} \cap Op = {}
ASSUME FaultsAssumption == Faults \subseteq FaultKind

VARIABLES
    dest,       \* the tree at tomcat/<major>
    staging,    \* the tree at tomcat/<major>.staging
    old,        \* the tree at tomcat/<major>.old
    up,         \* apps that are running
    pc,
    force,      \* the uninstall's force flag
    todo,       \* dependents a forced uninstall has still to stop
    owned,      \* history: a home was installed and nobody has removed it
    before,     \* history: the tree each request found at dest
    late,       \* history: apps an operator has started since each uninstall began
    alone       \* history: no request has begun while another one was busy

diskVars == <<dest, staging, old>>
histVars == <<owned, before, late, alone>>
vars == <<diskVars, up, pc, force, todo, histVars>>

Release == {"base"} \cup Installer
Tree    == {"none", "partial"} \cup Release

InstallPC == {"stage", "extract", "finish", "look", "dropold", "swapout", "swapin", "movein", "cleanup", "discard"}
RemovePC  == {"gate", "stop", "check", "remove"}
Answer    == {"ok", "failed", "refused", "dead"}
Busy(o)   == pc[o] \in InstallPC \cup RemovePC

Init ==
    /\ dest \in {"none", "base"} /\ staging = "none" /\ old = "none"
    /\ up \in SUBSET App /\ (dest = "none" => up = {})
    /\ pc = [o \in Op |-> "idle"]
    /\ force \in [Remover -> BOOLEAN]
    /\ todo = [o \in Op |-> {}]
    /\ owned = (dest = "base")
    /\ before = [o \in Op |-> dest]
    /\ late = [o \in Remover |-> {}]
    /\ alone = TRUE

Goto(o, l) == pc' = [pc EXCEPT ![o] = l]

Begin(o) ==
    /\ pc[o] = "idle"
    /\ Goto(o, IF o \in Installer THEN "stage" ELSE "gate")
    /\ before' = [before EXCEPT ![o] = dest]
    /\ late' = [r \in Remover |-> IF r = o THEN {} ELSE late[r]]
    /\ alone' = (alone /\ \A p \in Op : ~Busy(p))
    /\ UNCHANGED <<diskVars, up, force, todo, owned>>

Dies(o) ==
    /\ "kill" \in Faults /\ Busy(o)
    /\ Goto(o, "dead")
    /\ UNCHANGED <<diskVars, up, force, todo, histVars>>

\* What one step of install() does, or the exception that discards staging.
Try(o, l, next, fault) ==
    /\ pc[o] = l
    /\ \/ Goto(o, next)
       \/ fault \in Faults /\ Goto(o, "discard")
    /\ UNCHANGED <<up, force, todo, histVars>>

Went(o) == pc'[o] # "discard"

\* Download and verify, then a fresh staging directory.
Stage(o) ==
    /\ Try(o, "stage", "extract", "fetch")
    /\ staging' = IF Went(o) THEN "partial" ELSE staging
    /\ UNCHANGED <<dest, old>>

\* Faulty variant: the tree is swapped in while it is being extracted.
ExtractLate(o) ==
    /\ staging # "none"
    /\ Try(o, "extract", "look", "fetch")
    /\ UNCHANGED diskVars

\* tar needs the directory, which another request may have moved or removed; of two
\* extractions into one directory the last names the tree.
Extract(o) ==
    /\ staging # "none"
    /\ Try(o, "extract", "finish", "fetch")
    /\ staging' = IF Went(o) THEN o ELSE staging
    /\ UNCHANGED <<dest, old>>

Finish(o) ==
    /\ staging # "none"
    /\ Try(o, "finish", "look", "fetch")
    /\ UNCHANGED diskVars

\* The staging directory of this request is gone: the next step raises.
StagingGone(o) ==
    /\ pc[o] \in {"extract", "finish", "swapin", "movein"} /\ staging = "none"
    /\ Goto(o, "discard")
    /\ UNCHANGED <<diskVars, up, force, todo, histVars>>

Look(o) ==
    /\ pc[o] = "look"
    /\ Goto(o, IF dest = "none" THEN "movein" ELSE "dropold")
    /\ UNCHANGED <<diskVars, up, force, todo, histVars>>

DropOld(o) ==
    /\ Try(o, "dropold", "swapout", "io")
    /\ old' \in (IF Went(o) THEN {"none"} ELSE {old} \cup (IF old = "none" THEN {} ELSE {"partial"}))
    /\ UNCHANGED <<dest, staging>>

\* Faulty variant: the live tree is moved to staging.
SwapOutWrong(o) ==
    /\ Try(o, "swapout", "swapin", "swap")
    /\ staging' = IF Went(o) THEN dest ELSE staging
    /\ UNCHANGED <<dest, old>>

\* rename(dest, old) raises when dest is gone or old is back.
SwapOut(o) ==
    /\ Try(o, "swapout", "swapin", "swap")
    /\ Went(o) => dest # "none" /\ old = "none"
    /\ old' = IF Went(o) THEN dest ELSE old
    /\ dest' = IF Went(o) THEN "none" ELSE dest
    /\ UNCHANGED staging

SwapRaises(o) ==
    /\ \/ pc[o] = "swapout" /\ (dest = "none" \/ old # "none")
       \/ pc[o] \in {"swapin", "movein"} /\ dest # "none"
    /\ Goto(o, "discard")
    /\ UNCHANGED <<diskVars, up, force, todo, histVars>>

\* rename(staging, dest).  A first install has no .old to drop.
SwapIn(o) ==
    /\ pc[o] \in {"swapin", "movein"}
    /\ staging # "none" /\ dest = "none"
    /\ \/ /\ dest' = staging /\ staging' = "none" /\ owned' = TRUE
          /\ Goto(o, IF pc[o] = "swapin" THEN "cleanup" ELSE "ok")
       \/ "swap" \in Faults /\ Goto(o, "discard") /\ UNCHANGED <<dest, staging, owned>>
    /\ UNCHANGED <<old, up, force, todo, before, late, alone>>

\* Dropping .old is the last step; its failure is reported as a failed install.
Cleanup(o) ==
    /\ Try(o, "cleanup", "ok", "io")
    /\ old' \in (IF Went(o) THEN {"none"} ELSE {old, "partial"})
    /\ UNCHANGED <<dest, staging>>

\* Faulty variant: the handler removes the live home as well.
DiscardAll(o) ==
    /\ pc[o] = "discard"
    /\ Goto(o, "failed")
    /\ staging' = "none" /\ dest' = "none"
    /\ UNCHANGED <<old, up, force, todo, histVars>>

\* The exception handler: staging only.
Discard(o) ==
    /\ pc[o] = "discard"
    /\ Goto(o, "failed")
    /\ staging' \in {"none"} \cup (IF "io" \in Faults /\ staging # "none" THEN {"partial"} ELSE {})
    /\ UNCHANGED <<dest, old, up, force, todo, histVars>>

------------------------------------------------------------------------------
(* uninstall()                                                             *)

Gate(o) ==
    /\ pc[o] = "gate"
    /\ \/ App # {} /\ ~force[o] /\ Goto(o, "refused") /\ UNCHANGED todo
       \/ (App = {} \/ force[o]) /\ Goto(o, "stop") /\ todo' = [todo EXCEPT ![o] = App]
    /\ UNCHANGED <<diskVars, up, force, histVars>>

\* Faulty variant: a failing stop is passed over and not looked at again.
StopUnverified(o) ==
    /\ pc[o] = "stop"
    /\ \/ \E a \in todo[o] :
             /\ todo' = [todo EXCEPT ![o] = @ \ {a}]
             /\ (up' = up \ {a} \/ ("unit" \in Faults /\ UNCHANGED up))
             /\ UNCHANGED pc
       \/ todo[o] = {} /\ Goto(o, "remove") /\ UNCHANGED <<up, todo>>
    /\ UNCHANGED <<diskVars, force, histVars>>

\* Every dependent is stopped and then seen inactive, or the uninstall raises: the
\* stop fails, or it returns and the service is still there.
StopDependent(o) ==
    /\ pc[o] = "stop"
    /\ \/ \E a \in todo[o] :
             \/ /\ todo' = [todo EXCEPT ![o] = @ \ {a}]
                /\ up' = up \ {a} /\ UNCHANGED pc
             \/ "unit" \in Faults /\ Goto(o, "failed") /\ up' \in {up, up \ {a}} /\ UNCHANGED todo
       \/ todo[o] = {} /\ Goto(o, "remove") /\ UNCHANGED <<up, todo>>
    /\ UNCHANGED <<diskVars, force, histVars>>

Remove(o) ==
    /\ pc[o] = "remove"
    /\ owned' = FALSE
    /\ \/ dest' = "none" /\ Goto(o, "ok")
       \/ /\ "io" \in Faults /\ dest # "none"
          /\ dest' = "partial" /\ Goto(o, "failed")
    /\ UNCHANGED <<staging, old, up, force, todo, before, late, alone>>

------------------------------------------------------------------------------
(* StartAppAction, which knows nothing of the requests above.              *)

OperatorStart(a) ==
    /\ a \notin up /\ dest \in Release
    /\ up' = up \cup {a}
    /\ late' = [o \in Remover |-> late[o] \cup {a}]
    /\ UNCHANGED <<diskVars, pc, force, todo, owned, before, alone>>

OperatorStop(a) ==
    /\ a \in up
    /\ up' = up \ {a}
    /\ UNCHANGED <<diskVars, pc, force, todo, histVars>>

Install(o) ==
    \/ Begin(o) \/ Dies(o)
    \/ Stage(o) \/ Extract(o) \/ Finish(o) \/ StagingGone(o) \/ Look(o) \/ DropOld(o)
    \/ SwapOut(o) \/ SwapRaises(o) \/ SwapIn(o) \/ Cleanup(o) \/ Discard(o)

Uninstall(o) == Begin(o) \/ Dies(o) \/ Gate(o) \/ StopDependent(o) \/ Remove(o)

Next ==
    \/ \E o \in Installer : Install(o)
    \/ \E o \in Remover : Uninstall(o)
    \/ \E a \in App : OperatorStart(a) \/ OperatorStop(a)

Spec == Init /\ [][Next]_vars

------------------------------------------------------------------------------
TypeOK ==
    /\ dest \in Tree /\ old \in Tree
    /\ staging \in {"none", "partial"} \cup Installer
    /\ up \subseteq App
    /\ pc \in [Op -> {"idle"} \cup InstallPC \cup RemovePC \cup Answer]
    /\ force \in [Remover -> BOOLEAN] /\ todo \in [Op -> SUBSET App]
    /\ owned \in BOOLEAN /\ before \in [Op -> Tree] /\ late \in [Remover -> SUBSET App] /\ alone \in BOOLEAN

\* Of requests that do not overlap, whatever fails and whenever they die, only a
\* complete tree is live; half a tree is live only after an uninstall that was cut
\* short (installer.py 7-8).  Overlapping installs share the staging directory and
\* can move each other's half-extracted tree into place.
LiveIsComplete == alone /\ owned => dest # "partial"

\* Requests that do not overlap never lose the installed home: it is live, or still
\* at .old.
HomeKept == alone /\ owned => {dest, old} \cap Release # {}

\* A forced uninstall removes the home only when every dependent is down, but for an
\* app an operator has started after it looked (installer.py 161-162, 185-188).
RemovedOnlyWhenDown ==
    [][\A o \in Remover : pc[o] = "remove" /\ dest' # dest => up \subseteq late[o]]_vars

\* A failed install leaves the existing one intact (installer.py 8-9).
FailureKeepsInstall ==
    [][\A o \in Installer : pc[o] # "failed" /\ pc'[o] = "failed" /\ before[o] = "base"
                              => dest' \in {"base", o}]_vars
==============================================================================
