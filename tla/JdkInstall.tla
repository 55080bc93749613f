------------------------------ MODULE JdkInstall ------------------------------
(***************************************************************************)
(* core/runtime/java.py: installing, updating and removing one managed JDK *)
(* major under runtimes/jdk-<major>.                                       *)
(*                                                                         *)
(* The requests serialize on a fail-fast file lock.  An update extracts    *)
(* beside the live tree, stops the apps that run on it, swaps the trees    *)
(* with two renames, proves the result, starts the apps and only then      *)
(* drops the old tree; any failure before that is rolled back.  Operators  *)
(* start, stop and create apps meanwhile: they take no lock.               *)
(***************************************************************************)
EXTENDS Integers, FiniteSets

CONSTANTS
    Installer,  \* InstallJava / StartReinstallJava requests; each fetches a release of its own
    Remover,    \* UninstallJava requests
    App,        \* apps of the panel
    Distro,     \* does the system ship a JDK of this major elsewhere?
    Faults      \* which faults of the environment may happen

\* fetch : download, extraction or a probe fails      io  : a rename or a removal fails
\* unit  : a service does not stop or start           kill: the request's process dies
\* hands : operators start, stop and create apps while a request runs
FaultKind == {"fetch", "io", "unit", "kill", "hands"}

Op == Installer \cup Remover

ASSUME OpsAssumption    == Installer \cap Remover = {} /\ IsFiniteSet(App)
ASSUME NamesAssumption  == {"none", "partial", "base", "distro", "free"} \cap Op = {}
ASSUME FaultsAssumption == Faults \subseteq FaultKind /\ Distro \in BOOLEAN

VARIABLES
    \* the disk
    dest,       \* the tree at jdk-<major>
    staging,    \* the tree at jdk-<major>.staging
    old,        \* the tree at jdk-<major>.old
    lock,       \* the holder of .jdk-<major>.lock
    \* the apps
    pinned,     \* apps whose JAVA_HOME resolves to jdk-<major>
    jvm,        \* the tree each app's JVM runs on, "none" when the app is down
    \* the requests
    pc,
    force,      \* the uninstall's force flag
    todo,       \* apps the current loop has still to handle
    stopped,    \* apps this request stopped
    restarted,  \* apps it started again on the new tree
    hadLive,    \* had_live
    moved,      \* rollback_created
    swapped,
    errors,     \* rollback_errors is not empty
    \* history
    probed,     \* releases whose staged tree was probed
    owned,      \* a runtime was installed and nobody has asked to remove it
    before,     \* what each request found under the lock
    touched,    \* apps an operator has started or stopped since the lock was taken
    doubt       \* apps whose stop failed or was given up since then: up or down

diskVars  == <<dest, staging, old>>
appVars   == <<pinned, jvm>>
flowVars  == <<todo, stopped, restarted>>
flagVars  == <<hadLive, moved, swapped, errors>>
histVars  == <<probed, owned, before, touched, doubt>>
vars == <<diskVars, lock, appVars, pc, force, flowVars, flagVars, histVars>>

\* A complete tree is named by the release it holds; "base" was there initially.
Release == {"base"} \cup Installer
Tree    == {"none", "partial"} \cup Release

Answer == {"ok", "stale", "failed", "incomplete", "busy", "refused", "shared", "absent", "dead"}
InstallPC == {"stage", "extract", "verify", "live", "stopping", "swapout", "swapin", "prove",
              "starting", "clean", "undo_stop", "undo_tree", "undo_start", "undo_clean"}
RemovePC  == {"gate", "takedown", "remove"}

Found == [dest |-> dest, staging |-> staging, old |-> old, jvm |-> jvm]

Init ==
    /\ dest \in {"none", "base"}
    /\ staging = "none" /\ old = "none" /\ lock = "free"
    /\ pinned \in SUBSET App
    /\ jvm \in [App -> {"none", "distro", dest}]
    /\ \A a \in App : jvm[a] \in {"none", IF a \in pinned THEN dest ELSE "distro"}
    /\ pc = [o \in Op |-> "idle"]
    /\ force \in [Remover -> BOOLEAN]
    /\ todo = [o \in Op |-> {}] /\ stopped = [o \in Op |-> {}] /\ restarted = [o \in Op |-> {}]
    /\ hadLive = [o \in Op |-> FALSE] /\ moved = [o \in Op |-> FALSE]
    /\ swapped = [o \in Op |-> FALSE] /\ errors = [o \in Op |-> FALSE]
    /\ probed = {"base"}
    /\ owned = (dest = "base")
    /\ before = [o \in Op |-> Found]
    /\ touched = {} /\ doubt = {}

Goto(o, l) == pc' = [pc EXCEPT ![o] = l]

\* Leaving the locked block, by return or exception.
Leave(o, r) == Goto(o, r) /\ lock' = "free"

\* usage(major, home=dest): the apps that resolve to this very tree.
Usage == pinned

------------------------------------------------------------------------------
(* _jdk_major_lock                                                         *)

\* Faulty variant: a lock that everybody gets.
AcquireAnyway(o) ==
    /\ pc[o] = "idle"
    /\ lock' = o
    /\ Goto(o, IF o \in Installer THEN "stage" ELSE "gate")
    /\ before' = [before EXCEPT ![o] = Found]
    /\ touched' = {} /\ doubt' = {}
    /\ UNCHANGED <<diskVars, appVars, force, flowVars, flagVars, probed, owned>>

Acquire(o) ==
    /\ pc[o] = "idle" /\ lock = "free"
    /\ lock' = o
    /\ Goto(o, IF o \in Installer THEN "stage" ELSE "gate")
    /\ before' = [before EXCEPT ![o] = Found]
    /\ touched' = {} /\ doubt' = {}
    /\ UNCHANGED <<diskVars, appVars, force, flowVars, flagVars, probed, owned>>

Busy(o) ==
    /\ pc[o] = "idle" /\ lock # "free"
    /\ Goto(o, "busy")
    /\ UNCHANGED <<diskVars, lock, appVars, force, flowVars, flagVars, histVars>>

\* The process is killed (CancelJob signals the job it runs in): the kernel drops
\* the lock, nothing is rolled back.
Dies(o) ==
    /\ "kill" \in Faults
    /\ pc[o] \in InstallPC \cup RemovePC
    /\ Leave(o, "dead")
    /\ UNCHANGED <<diskVars, appVars, force, flowVars, flagVars, histVars>>

------------------------------------------------------------------------------
(* _install_temurin_locked                                                 *)

Installing(o, l) == o \in Installer /\ pc[o] = l

\* An exception before the commit: the handler first stops what was restarted.
Fail(o) == Goto(o, "undo_stop") /\ todo' = [todo EXCEPT ![o] = restarted[o]]

\* Look the release up, download it, drop an earlier staging tree, start extracting.
\* A failing look-up is still outside of the try: it leaves that tree where it is.
Stage(o) ==
    /\ Installing(o, "stage")
    /\ \/ staging' = "partial" /\ Goto(o, "extract") /\ UNCHANGED <<lock, todo>>
       \/ "fetch" \in Faults /\ Leave(o, "failed") /\ UNCHANGED <<staging, todo>>
       \/ "fetch" \in Faults /\ Fail(o) /\ UNCHANGED <<staging, lock>>
       \/ "io" \in Faults /\ Fail(o) /\ staging' \in {staging, "partial", "none"} /\ UNCHANGED lock
    /\ UNCHANGED <<dest, old, appVars, force, stopped, restarted, flagVars, histVars>>

Extract(o) ==
    /\ Installing(o, "extract")
    /\ \/ staging' = o /\ Goto(o, "verify") /\ UNCHANGED todo
       \/ "fetch" \in Faults /\ Fail(o) /\ UNCHANGED staging
    /\ UNCHANGED <<dest, old, lock, appVars, force, stopped, restarted, flagVars, histVars>>

\* Faulty variant: the staged tree is not probed.
SkipVerify(o) ==
    /\ Installing(o, "verify")
    /\ Goto(o, "live")
    /\ UNCHANGED <<diskVars, lock, appVars, force, flowVars, flagVars, histVars>>

Verify(o) ==
    /\ Installing(o, "verify")
    /\ \/ probed' = probed \cup {o} /\ Goto(o, "live") /\ UNCHANGED todo
       \/ "fetch" \in Faults /\ Fail(o) /\ UNCHANGED probed
    /\ UNCHANGED <<diskVars, lock, appVars, force, stopped, restarted, flagVars,
                   owned, before, touched, doubt>>

\* A live tree with a rollback tree beside it is never updated.
FindLive(o) ==
    /\ Installing(o, "live")
    /\ hadLive' = [hadLive EXCEPT ![o] = dest # "none"]
    /\ \/ dest = "none" /\ Goto(o, "swapin") /\ UNCHANGED todo
       \/ dest # "none" /\ old # "none" /\ Fail(o)
       \/ dest # "none" /\ old = "none" /\ Goto(o, "stopping") /\ todo' = [todo EXCEPT ![o] = Usage]
    /\ UNCHANGED <<diskVars, lock, appVars, force, stopped, restarted, moved, swapped, errors, histVars>>

\* Faulty variant: also the apps that were down are remembered.
RememberAll(o) ==
    /\ Installing(o, "stopping")
    /\ \E a \in todo[o] :
          /\ jvm' = [jvm EXCEPT ![a] = "none"]
          /\ stopped' = [stopped EXCEPT ![o] = @ \cup {a}]
          /\ todo' = [todo EXCEPT ![o] = @ \ {a}]
    /\ UNCHANGED <<diskVars, lock, pinned, pc, force, restarted, flagVars, histVars>>

\* Only a running dependent is stopped and remembered.  A failing status changes
\* nothing; a stop that fails or is given up may have taken the app down all the
\* same, and is not remembered.
StopDependent(o) ==
    /\ Installing(o, "stopping")
    /\ \E a \in todo[o] :
          \/ /\ jvm[a] # "none"
             /\ jvm' = [jvm EXCEPT ![a] = "none"]
             /\ stopped' = [stopped EXCEPT ![o] = @ \cup {a}]
             /\ todo' = [todo EXCEPT ![o] = @ \ {a}]
             /\ UNCHANGED <<pc, doubt>>
          \/ /\ jvm[a] = "none"
             /\ todo' = [todo EXCEPT ![o] = @ \ {a}]
             /\ UNCHANGED <<pc, jvm, stopped, doubt>>
          \/ "unit" \in Faults /\ Fail(o) /\ UNCHANGED <<jvm, stopped, doubt>>
          \/ /\ jvm[a] # "none" /\ "unit" \in Faults
             /\ jvm' \in {jvm, [jvm EXCEPT ![a] = "none"]}
             /\ doubt' = doubt \cup {a}
             /\ Fail(o) /\ UNCHANGED stopped
    /\ UNCHANGED <<diskVars, lock, pinned, force, restarted, flagVars,
                   probed, owned, before, touched>>

Stopped(o) ==
    /\ Installing(o, "stopping") /\ todo[o] = {}
    /\ Goto(o, "swapout")
    /\ UNCHANGED <<diskVars, lock, appVars, force, flowVars, flagVars, histVars>>

\* rename(dest, rollback)
SwapOut(o) ==
    /\ Installing(o, "swapout")
    /\ \/ /\ old' = dest /\ dest' = "none"
          /\ moved' = [moved EXCEPT ![o] = TRUE]
          /\ Goto(o, "swapin") /\ UNCHANGED todo
       \/ "io" \in Faults /\ Fail(o) /\ UNCHANGED <<old, dest, moved>>
    /\ UNCHANGED <<staging, lock, appVars, force, stopped, restarted, hadLive, swapped, errors, histVars>>

\* rename(staging, dest)
SwapIn(o) ==
    /\ Installing(o, "swapin")
    /\ \/ /\ dest' = staging /\ staging' = "none"
          /\ swapped' = [swapped EXCEPT ![o] = TRUE]
          /\ Goto(o, "prove") /\ UNCHANGED todo
       \/ "io" \in Faults /\ Fail(o) /\ UNCHANGED <<dest, staging, swapped>>
    /\ UNCHANGED <<old, lock, appVars, force, stopped, restarted, hadLive, moved, errors, histVars>>

\* The swapped tree is probed before the apps are started on it.
Prove(o) ==
    /\ Installing(o, "prove")
    /\ \/ Goto(o, "starting") /\ todo' = [todo EXCEPT ![o] = stopped[o]]
       \/ "fetch" \in Faults /\ Fail(o)
    /\ UNCHANGED <<diskVars, lock, appVars, force, stopped, restarted, flagVars, histVars>>

\* Starting a running service is a no-op of the service manager.
StartApp(a) == jvm' = [jvm EXCEPT ![a] = IF @ = "none" THEN dest ELSE @]

\* A start that fails or is given up may have brought the app up all the same.
StartDependent(o) ==
    /\ Installing(o, "starting")
    /\ \E a \in todo[o] :
          \/ /\ StartApp(a)
             /\ restarted' = [restarted EXCEPT ![o] = @ \cup {a}]
             /\ todo' = [todo EXCEPT ![o] = @ \ {a}]
             /\ UNCHANGED pc
          \/ "unit" \in Faults /\ Fail(o) /\ (StartApp(a) \/ UNCHANGED jvm) /\ UNCHANGED restarted
    /\ UNCHANGED <<diskVars, lock, pinned, force, stopped, flagVars, histVars>>

\* committed = True; without a tree to drop the request is over.
Commit(o) ==
    /\ Installing(o, "starting") /\ todo[o] = {}
    /\ owned' = TRUE
    /\ IF hadLive[o] THEN Goto(o, "clean") /\ UNCHANGED lock ELSE Leave(o, "ok")
    /\ UNCHANGED <<diskVars, appVars, force, flowVars, flagVars, probed, before, touched, doubt>>

\* Dropping .old is no longer grounds for a rollback.
DropOld(o) ==
    /\ Installing(o, "clean")
    /\ \/ old' = "none" /\ Leave(o, "ok")
       \/ "io" \in Faults /\ old' \in {old, "partial"} /\ Leave(o, "stale")
       \/ "kill" \in Faults /\ old' = "partial" /\ Leave(o, "dead")
    /\ UNCHANGED <<dest, staging, appVars, force, flowVars, flagVars, histVars>>

------------------------------------------------------------------------------
(* The exception handler.                                                  *)

Note(o) == errors' = [errors EXCEPT ![o] = TRUE]

\* What already runs on the new tree is stopped first.
UndoStop(o) ==
    /\ Installing(o, "undo_stop")
    /\ \/ \E a \in todo[o] :
             /\ todo' = [todo EXCEPT ![o] = @ \ {a}]
             /\ \/ jvm' = [jvm EXCEPT ![a] = "none"] /\ UNCHANGED errors
                \/ "unit" \in Faults /\ Note(o) /\ jvm' \in {jvm, [jvm EXCEPT ![a] = "none"]}
             /\ UNCHANGED pc
       \/ todo[o] = {} /\ Goto(o, "undo_tree") /\ UNCHANGED <<todo, jvm, errors>>
    /\ UNCHANGED <<diskVars, lock, pinned, force, stopped, restarted, hadLive, moved, swapped, histVars>>

\* Faulty variant: only a completed swap is undone.
UndoSwappedOnly(o) ==
    /\ Installing(o, "undo_tree")
    /\ IF swapped[o] /\ moved[o]
       THEN staging' = dest /\ dest' = old /\ old' = "none"
       ELSE UNCHANGED diskVars
    /\ Goto(o, "undo_start")
    /\ todo' = [todo EXCEPT ![o] = IF dest' = "none" THEN {} ELSE stopped[o]]
    /\ UNCHANGED <<lock, appVars, force, stopped, restarted, flagVars, histVars>>

\* Faulty variant: the rollback tree itself is moved to staging.
PutBackWrong == staging' = old /\ old' = "none" /\ UNCHANGED dest

\* Put the old tree back, moving a failed one to staging, which the swap has left
\* free; a failing rename keeps .old as the recovery artifact.
PutBack ==
    /\ dest' = old /\ old' = "none"
    /\ staging' = IF dest = "none" THEN staging ELSE dest

Half == dest # "none" /\ dest' = "none" /\ staging' = dest /\ UNCHANGED old

UndoTree(o) ==
    /\ Installing(o, "undo_tree")
    /\ \/ /\ moved[o]
          /\ \/ PutBack /\ UNCHANGED errors
             \/ "io" \in Faults /\ Note(o) /\ (UNCHANGED diskVars \/ Half)
       \/ /\ ~moved[o] /\ swapped[o]
          /\ \/ staging' = dest /\ dest' = "none" /\ UNCHANGED <<old, errors>>
             \/ "io" \in Faults /\ Note(o) /\ UNCHANGED diskVars
       \/ ~moved[o] /\ ~swapped[o] /\ UNCHANGED <<diskVars, errors>>
    /\ Goto(o, "undo_start")
    /\ todo' = [todo EXCEPT ![o] = IF dest' = "none" THEN {} ELSE stopped[o]]
    /\ UNCHANGED <<lock, appVars, force, stopped, restarted, hadLive, moved, swapped, histVars>>

\* Every service this request stopped is started again; a half-removed runtime
\* starts none.
UndoStart(o) ==
    /\ Installing(o, "undo_start")
    /\ \/ \E a \in todo[o] :
             /\ todo' = [todo EXCEPT ![o] = @ \ {a}]
             /\ \/ dest \in Release /\ StartApp(a) /\ (UNCHANGED errors \/ ("unit" \in Faults /\ Note(o)))
                \/ (dest \notin Release \/ "unit" \in Faults) /\ Note(o) /\ UNCHANGED jvm
             /\ UNCHANGED pc
       \/ todo[o] = {} /\ Goto(o, "undo_clean") /\ UNCHANGED <<todo, jvm, errors>>
    /\ UNCHANGED <<diskVars, lock, pinned, force, stopped, restarted, hadLive, moved, swapped, histVars>>

UndoClean(o) ==
    /\ Installing(o, "undo_clean")
    /\ \/ staging' = "none" /\ Leave(o, IF errors[o] THEN "incomplete" ELSE "failed")
       \/ /\ "io" \in Faults /\ staging # "none"
          /\ staging' \in {staging, "partial"} /\ Leave(o, "incomplete")
    /\ UNCHANGED <<dest, old, appVars, force, flowVars, flagVars, histVars>>

------------------------------------------------------------------------------
(* _uninstall_locked                                                       *)

Removing(o, l) == o \in Remover /\ pc[o] = l

\* Faulty variant: the dependents are listed but nobody asks whether to go on.
GateOpen(o) ==
    /\ Removing(o, "gate")
    /\ dest \in Release
    /\ Goto(o, "takedown") /\ todo' = [todo EXCEPT ![o] = Usage]
    /\ UNCHANGED <<diskVars, lock, appVars, force, stopped, restarted, flagVars, histVars>>

\* detect() looks in the plugin's tree first; a tree that does not answer leaves
\* the distribution's JDK, which is refused.
Gate(o) ==
    /\ Removing(o, "gate")
    /\ \/ /\ dest \notin Release /\ Distro /\ Leave(o, "shared")
          /\ UNCHANGED todo
       \/ /\ dest = "none" /\ ~Distro /\ Leave(o, "absent")
          /\ UNCHANGED todo
       \/ /\ dest \in Release \/ (dest # "none" /\ ~Distro)
          /\ \/ /\ Usage # {} /\ ~force[o] /\ Leave(o, "refused")
                /\ UNCHANGED todo
             \/ /\ Usage = {} \/ force[o]
                /\ Goto(o, "takedown")
                /\ todo' = [todo EXCEPT ![o] = Usage]
                /\ UNCHANGED lock
    /\ UNCHANGED <<diskVars, appVars, force, stopped, restarted, flagVars, histVars>>

\* A service that does not stop is passed over.
TakeDown(o) ==
    /\ Removing(o, "takedown")
    /\ \/ \E a \in todo[o] :
             /\ todo' = [todo EXCEPT ![o] = @ \ {a}]
             /\ \/ jvm' = [jvm EXCEPT ![a] = "none"]
                \/ "unit" \in Faults /\ UNCHANGED jvm
             /\ UNCHANGED pc
       \/ todo[o] = {} /\ Goto(o, "remove") /\ UNCHANGED <<todo, jvm>>
    /\ UNCHANGED <<diskVars, lock, pinned, force, stopped, restarted, flagVars, histVars>>

\* rmtree, which may stop half-way.
Remove(o) ==
    /\ Removing(o, "remove")
    /\ owned' = FALSE
    /\ \/ dest' = "none" /\ Leave(o, "ok")
       \/ "io" \in Faults /\ dest' \in {dest, "partial"} /\ Leave(o, "failed")
       \/ "kill" \in Faults /\ dest' = "partial" /\ Leave(o, "dead")
    /\ UNCHANGED <<staging, old, appVars, force, flowVars, flagVars, probed, before, touched, doubt>>

------------------------------------------------------------------------------
(* The rest of the panel, which takes no lock.                             *)

Hands == "hands" \in Faults

\* StartAppAction, the service manager's Restart=on-failure, or a late start.
OperatorStart(a) ==
    /\ Hands /\ a \in pinned /\ jvm[a] = "none" /\ dest \in Release
    /\ StartApp(a)
    /\ touched' = touched \cup {a}
    /\ UNCHANGED <<diskVars, lock, pinned, pc, force, flowVars, flagVars, probed, owned, before, doubt>>

\* StopAppAction, or a stop a request gave up waiting for that takes effect late.
OperatorStop(a) ==
    /\ Hands /\ jvm[a] # "none"
    /\ jvm' = [jvm EXCEPT ![a] = "none"]
    /\ touched' = touched \cup {a}
    /\ UNCHANGED <<diskVars, lock, pinned, pc, force, flowVars, flagVars, probed, owned, before, doubt>>

\* CreateApp resolves a JAVA_HOME and pins it.
OperatorPin(a) ==
    /\ Hands /\ a \notin pinned /\ jvm[a] = "none" /\ dest \in Release
    /\ pinned' = pinned \cup {a}
    /\ touched' = touched \cup {a}
    /\ UNCHANGED <<diskVars, lock, jvm, pc, force, flowVars, flagVars, probed, owned, before, doubt>>

Install(o) ==
    \/ Acquire(o) \/ Busy(o) \/ Dies(o)
    \/ Stage(o) \/ Extract(o) \/ Verify(o) \/ FindLive(o)
    \/ StopDependent(o) \/ Stopped(o) \/ SwapOut(o) \/ SwapIn(o) \/ Prove(o)
    \/ StartDependent(o) \/ Commit(o) \/ DropOld(o)
    \/ UndoStop(o) \/ UndoTree(o) \/ UndoStart(o) \/ UndoClean(o)

Uninstall(o) == Acquire(o) \/ Busy(o) \/ Dies(o) \/ Gate(o) \/ TakeDown(o) \/ Remove(o)

Next ==
    \/ \E o \in Installer : Install(o)
    \/ \E o \in Remover : Uninstall(o)
    \/ \E a \in App : OperatorStart(a) \/ OperatorStop(a) \/ OperatorPin(a)

Spec == Init /\ [][Next]_vars

------------------------------------------------------------------------------
TypeOK ==
    /\ dest \in Tree /\ old \in Tree
    /\ staging \in {"none", "partial"} \cup Installer
    /\ lock \in {"free"} \cup Op
    /\ pinned \subseteq App
    /\ jvm \in [App -> {"distro", "none"} \cup Release]
    /\ pc \in [Op -> {"idle"} \cup InstallPC \cup RemovePC \cup Answer]
    /\ force \in [Remover -> BOOLEAN]
    /\ todo \in [Op -> SUBSET App] /\ stopped \in [Op -> SUBSET App] /\ restarted \in [Op -> SUBSET App]
    /\ hadLive \in [Op -> BOOLEAN] /\ moved \in [Op -> BOOLEAN]
    /\ swapped \in [Op -> BOOLEAN] /\ errors \in [Op -> BOOLEAN]
    /\ probed \subseteq Release /\ owned \in BOOLEAN
    /\ touched \subseteq App /\ doubt \subseteq App

\* Only a release whose staged tree was probed ever becomes the live runtime, and a
\* half-written tree is live only after an uninstall that was cut short.
LiveIsProven ==
    /\ dest \in Release => dest \in probed
    /\ owned => dest # "partial"

\* Whatever fails, and whenever the process dies, a runtime that was installed and
\* that nobody removed is still there, live or as the recovery artifact
\* (java.py 324-325).
RuntimeKept == owned => dest \in probed \/ old \in probed

\* Request o ends in this step with an answer of R.
Ends(o, R) == pc[o] \notin R /\ pc'[o] \in R

Running(f) == {a \in App : f[a] # "none"}

\* A failed update without "rollback incomplete" is undone: the trees are the ones it
\* found, nothing is staged but what it found staged, no app that was down runs, and
\* of those that ran only one whose very stop failed may be down: it was not
\* "successfully stopped", so nobody starts it again (java.py 210-213, 272-274,
\* 346-347).
FailureRestores ==
    [][\A o \in Installer : Ends(o, {"failed"}) =>
          /\ dest' = before[o].dest /\ old' = before[o].old
          /\ staging' \in {"none", before[o].staging}
          /\ Running(jvm') \ touched \subseteq Running(before[o].jvm)
          /\ Running(before[o].jvm) \ (touched \cup doubt) \subseteq Running(jvm')]_vars

\* After an update the apps of this runtime that ran before run on the new tree, a
\* stopped one stays stopped, and an app on another JDK was not touched (java.py
\* 211-213, 290-291).
UpdateKeepsServices ==
    [][\A o \in Installer : Ends(o, {"ok", "stale"}) /\ hadLive[o] =>
          \A a \in App \ touched :
              jvm'[a] = IF before[o].jvm[a] # "none" /\ a \in pinned THEN dest'
                        ELSE before[o].jvm[a]]_vars

\* An unforced uninstall removes no runtime that an app pins (java.py 446-447), but
\* for an app that an operator has created since the uninstall took the lock.
PinsRespected ==
    [][\A o \in Remover : pc[o] = "remove" /\ dest' # dest /\ ~force[o]
                              => pinned \subseteq touched]_vars
==============================================================================
