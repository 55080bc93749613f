------------------------------- MODULE JdkProofs ------------------------------
(***************************************************************************)
(* The lock of one JDK major lets a single request at its trees; what that *)
(* request has done so far is known at each of its steps from what it      *)
(* found, and so is what a rollback restores (core/runtime/java.py), for   *)
(* any number of requests and apps and any faults.                         *)
(***************************************************************************)
EXTENDS JdkInstall, TLAPS

Working(o) == pc[o] \in InstallPC \cup RemovePC
Locals(o)  == <<todo[o], stopped[o], restarted[o], hadLive[o], moved[o], swapped[o], errors[o]>>
Undone     == {"undo_start", "undo_clean"}
Forward    == {"stage", "extract", "verify", "live", "stopping", "swapout", "swapin", "prove",
               "starting", "clean"}

\* Nothing is known to live that was not probed, and what is owned is somewhere.
SafeInv ==
    /\ dest \in Release => dest \in probed
    /\ old \in Release => old \in probed
    /\ owned => dest # "partial"
    /\ owned => dest \in probed \/ old \in probed

\* A working request holds the lock; one that has not begun has done nothing.
HoldInv(o) ==
    /\ Working(o) => lock = o
    /\ pc[o] \in InstallPC => o \in Installer
    /\ pc[o] \in RemovePC => o \in Remover
    /\ pc[o] = "idle" => /\ stopped[o] = {} /\ restarted[o] = {}
                         /\ ~hadLive[o] /\ ~moved[o] /\ ~swapped[o] /\ ~errors[o]

\* Where an install stands, by what it has renamed.
StageInv(o) ==
    /\ pc[o] = "stage" => staging = before[o].staging
    /\ pc[o] \in {"verify", "live", "stopping", "swapout", "swapin"} => staging = o
    /\ pc[o] \in {"live", "stopping", "swapout", "swapin"} => o \in probed
    /\ pc[o] \in {"stage", "extract", "verify", "live", "stopping", "swapout"} => ~moved[o] /\ ~swapped[o]
    /\ pc[o] \in {"stopping", "swapout"} => hadLive[o] /\ before[o].old = "none"
    /\ pc[o] = "swapin" => ~swapped[o] /\ moved[o] = hadLive[o]
    /\ pc[o] \in {"prove", "starting", "clean"} => swapped[o] /\ moved[o] = hadLive[o]
    /\ pc[o] \in {"stopping", "swapout", "swapin", "prove", "starting", "clean"}
          => hadLive[o] = (before[o].dest # "none")

\* The trees are those it found, but for its renames.
TreeInv(o) ==
    /\ pc[o] \in InstallPC \ Undone =>
          /\ dest = IF swapped[o] THEN o ELSE IF moved[o] THEN "none" ELSE before[o].dest
          /\ old = IF moved[o] THEN before[o].dest ELSE before[o].old
          /\ moved[o] => before[o].dest # "none" /\ before[o].old = "none"
          /\ swapped[o] /\ ~moved[o] => before[o].dest = "none"
          /\ swapped[o] /\ pc[o] # "clean" /\ owned => old \in probed
    /\ pc[o] \in Undone => errors[o] \/ (dest = before[o].dest /\ old = before[o].old)

\* The apps it stopped are apps of this runtime.
StopInv(o) ==
    /\ pc[o] \in InstallPC =>
          /\ restarted[o] \subseteq stopped[o] /\ stopped[o] \subseteq pinned
          /\ stopped[o] # {} => before[o].dest # "none"
    /\ pc[o] \in {"stage", "extract", "verify", "live"} => stopped[o] = {}
    /\ pc[o] = "stopping" => todo[o] \subseteq pinned
    /\ pc[o] = "undo_stop" => todo[o] \subseteq restarted[o]
    /\ pc[o] \in {"starting", "undo_start"} => todo[o] \subseteq stopped[o]

\* The apps no operator has touched are as it found them, but for those it stopped and
\* the one whose stop failed, which may be down.
AppInv(o, a) ==
    /\ pc[o] \in InstallPC /\ a \notin stopped[o]
          => jvm[a] = before[o].jvm[a] \/ (a \in doubt /\ jvm[a] = "none")
    /\ pc[o] \in Forward => a \notin doubt
    /\ pc[o] \in InstallPC /\ a \in stopped[o] => before[o].jvm[a] # "none"
    /\ pc[o] \in {"stopping", "swapout", "swapin", "prove"} /\ a \in stopped[o] => jvm[a] = "none"
    /\ pc[o] = "starting" /\ a \in stopped[o] => jvm[a] = IF a \in todo[o] THEN "none" ELSE dest
    /\ pc[o] = "clean" /\ a \in stopped[o] => jvm[a] = dest
    /\ pc[o] = "undo_start" /\ a \in stopped[o] => errors[o] \/ a \in todo[o] \/ jvm[a] # "none"
    /\ pc[o] = "undo_clean" /\ a \in stopped[o] => errors[o] \/ jvm[a] # "none"
    /\ pc[o] = "stopping" /\ a \in pinned \ stopped[o] => a \in todo[o] \/ before[o].jvm[a] = "none"
    /\ pc[o] \in {"swapout", "swapin", "prove", "starting", "clean"} /\ hadLive[o] /\ a \in pinned \ stopped[o]
          => before[o].jvm[a] = "none"

ServiceInv(o) == StopInv(o) /\ \A a \in App \ touched : AppInv(o, a)

\* An unforced uninstall that goes on has seen no app but those that came since.
GateInv(o) == pc[o] \in {"takedown", "remove"} /\ ~force[o] => pinned \subseteq touched

Own(o) == HoldInv(o) /\ StageInv(o) /\ TreeInv(o) /\ ServiceInv(o) /\ GateInv(o)

FoundType == [dest : Tree, staging : {"none", "partial"} \cup Installer, old : Tree,
              jvm : [App -> {"distro", "none"} \cup Release]]
FoundTyped == before \in [Op -> FoundType]

JdkInv == TypeOK /\ FoundTyped /\ SafeInv /\ \A o \in Op : Own(o)

------------------------------------------------------------------------------
\* Names that stand for no tree are not releases.
LEMMA Names == /\ \A x \in Release : x \notin {"none", "partial"}
               /\ \A o \in Op : o \notin {"none", "partial", "base", "distro", "free"}
               /\ Installer \subseteq Op /\ Remover \subseteq Op
               /\ \A o \in Installer : o \notin Remover
BY OpsAssumption, NamesAssumption DEF Release, Op

\* The initial states satisfy the invariant.
LEMMA JdkInitial == Init => JdkInv
<1> SUFFICES ASSUME Init PROVE JdkInv
  OBVIOUS
<1>1. TypeOK /\ FoundTyped
  BY DEF Init, TypeOK, FoundTyped, FoundType, Found, Tree, Release
<1>2. SafeInv
  BY Names DEF Init, SafeInv, Release
<1>3. \A o \in Op : Own(o)
  BY DEF Init, Own, HoldInv, StageInv, TreeInv, ServiceInv, StopInv, AppInv, GateInv, Working,
     Forward,
     InstallPC, RemovePC, Undone
<1>4. QED
  BY <1>1, <1>2, <1>3 DEF JdkInv

\* While one request works, no other one does.
LEMMA Alone == ASSUME JdkInv, NEW o \in Op, Working(o)
               PROVE  \A q \in Op \ {o} : ~Working(q)
BY DEF JdkInv, Own, HoldInv

\* A step of one request, while no other one works, has its own invariant to keep.
LEMMA OwnStep ==
    ASSUME JdkInv, TypeOK', FoundTyped', SafeInv',
           NEW o \in Op, Own(o)',
           \A q \in Op \ {o} : ~Working(q),
           \A q \in Op \ {o} : pc'[q] = pc[q] /\ Locals(q)' = Locals(q)
    PROVE  JdkInv'
<1> SUFFICES ASSUME NEW q \in Op, q # o PROVE Own(q)'
  BY DEF JdkInv
<1>1. ~Working(q)' /\ pc'[q] \notin InstallPC \cup RemovePC
  BY DEF Working
<1>2. pc'[q] = "idle" => /\ stopped'[q] = {} /\ restarted'[q] = {}
                         /\ ~hadLive'[q] /\ ~moved'[q] /\ ~swapped'[q] /\ ~errors'[q]
  BY DEF JdkInv, Own, HoldInv, Locals
<1>3. HoldInv(q)'
  BY <1>1, <1>2 DEF HoldInv
<1>4. StageInv(q)' /\ TreeInv(q)' /\ ServiceInv(q)' /\ GateInv(q)'
  BY <1>1 DEF StageInv, TreeInv, ServiceInv, StopInv, AppInv, GateInv, Forward, InstallPC,
     RemovePC,
     Undone
<1>5. QED
  BY <1>3, <1>4 DEF Own

------------------------------------------------------------------------------
\* How a step is written: where it goes next, and what it leaves alone.
USE DEF Installing, Removing, Goto, Leave, Fail, Note, diskVars, appVars, flowVars, flagVars,
   histVars

LEMMA StageKeeps == ASSUME JdkInv, NEW o \in Installer, Stage(o) PROVE JdkInv'
<1>1. o \in Op /\ Working(o) /\ Own(o) /\ TypeOK /\ FoundTyped /\ SafeInv
  BY Names DEF JdkInv, Working, InstallPC, RemovePC, Stage
<1>2. TypeOK' /\ FoundTyped'
  BY <1>1, Names DEF TypeOK, FoundTyped, Tree, InstallPC, RemovePC, Answer, Stage
<1>3. \A q \in Op \ {o} : pc'[q] = pc[q] /\ Locals(q)' = Locals(q)
  BY <1>1 DEF TypeOK, Locals, Stage
<1>4. SafeInv'
  BY <1>1, Names DEF TypeOK, SafeInv, Release, Tree, Own, StageInv, TreeInv, InstallPC, Undone,
     Stage
<1>5. HoldInv(o)' /\ GateInv(o)'
  BY <1>1, Names DEF TypeOK, Own, HoldInv, GateInv, Working, InstallPC, RemovePC, Stage
<1>6. StageInv(o)'
  BY <1>1, Names DEF TypeOK, Own, StageInv, TreeInv, InstallPC, Undone, Stage
<1>7. TreeInv(o)'
  BY <1>1, Names DEF TypeOK, SafeInv, Own, StageInv, TreeInv, InstallPC, Undone, Stage
<1>8. StopInv(o)'
  BY <1>1, Names DEF TypeOK, Own, HoldInv, StageInv, TreeInv, ServiceInv, StopInv, InstallPC,
     Undone, Stage
<1>9. ASSUME NEW a \in App \ touched PROVE AppInv(o, a)'
  BY <1>1, Names DEF TypeOK, Own, StageInv, TreeInv, ServiceInv, StopInv, AppInv, Forward,
     InstallPC,
     Undone, Release, Stage
<1>10. Own(o)'
  <2>1. touched' = touched
    BY DEF Stage
  <2>2. QED
    BY <1>5, <1>6, <1>7, <1>8, <1>9, <2>1 DEF Own, ServiceInv
<1>11. QED
  BY <1>1, <1>2, <1>3, <1>4, <1>10, Alone, OwnStep

LEMMA ExtractKeeps == ASSUME JdkInv, NEW o \in Installer, Extract(o) PROVE JdkInv'
<1>1. o \in Op /\ Working(o) /\ Own(o) /\ TypeOK /\ FoundTyped /\ SafeInv
  BY Names DEF JdkInv, Working, InstallPC, RemovePC, Extract
<1>2. TypeOK' /\ FoundTyped'
  BY <1>1, Names DEF TypeOK, FoundTyped, Tree, InstallPC, RemovePC, Answer, Extract
<1>3. \A q \in Op \ {o} : pc'[q] = pc[q] /\ Locals(q)' = Locals(q)
  BY <1>1 DEF TypeOK, Locals, Extract
<1>4. SafeInv'
  BY <1>1, Names DEF TypeOK, SafeInv, Release, Tree, Own, StageInv, TreeInv, InstallPC, Undone,
     Extract
<1>5. HoldInv(o)' /\ GateInv(o)'
  BY <1>1, Names DEF TypeOK, Own, HoldInv, GateInv, Working, InstallPC, RemovePC, Extract
<1>6. StageInv(o)'
  BY <1>1, Names DEF TypeOK, Own, StageInv, TreeInv, InstallPC, Undone, Extract
<1>7. TreeInv(o)'
  BY <1>1, Names DEF TypeOK, SafeInv, Own, StageInv, TreeInv, InstallPC, Undone, Extract
<1>8. StopInv(o)'
  BY <1>1, Names DEF TypeOK, Own, HoldInv, StageInv, TreeInv, ServiceInv, StopInv, InstallPC,
     Undone, Extract
<1>9. ASSUME NEW a \in App \ touched PROVE AppInv(o, a)'
  BY <1>1, Names DEF TypeOK, Own, StageInv, TreeInv, ServiceInv, StopInv, AppInv, Forward,
     InstallPC,
     Undone, Release, Extract
<1>10. Own(o)'
  <2>1. touched' = touched
    BY DEF Extract
  <2>2. QED
    BY <1>5, <1>6, <1>7, <1>8, <1>9, <2>1 DEF Own, ServiceInv
<1>11. QED
  BY <1>1, <1>2, <1>3, <1>4, <1>10, Alone, OwnStep

LEMMA VerifyKeeps == ASSUME JdkInv, NEW o \in Installer, Verify(o) PROVE JdkInv'
<1>1. o \in Op /\ Working(o) /\ Own(o) /\ TypeOK /\ FoundTyped /\ SafeInv
  BY Names DEF JdkInv, Working, InstallPC, RemovePC, Verify
<1>2. TypeOK' /\ FoundTyped'
  <2>1. /\ dest' \in Tree /\ old' \in Tree
        /\ staging' \in {"none", "partial"} \cup Installer
        /\ lock' \in {"free"} \cup Op /\ probed' \subseteq Release /\ owned' \in BOOLEAN
        /\ FoundTyped' /\ pinned' = pinned /\ force' = force /\ touched' = touched
        /\ doubt' \subseteq App
    BY <1>1, Names DEF TypeOK, FoundTyped, Tree, Release, Verify
  <2>2. pc' \in [Op -> {"idle"} \cup InstallPC \cup RemovePC \cup Answer]
    BY <1>1 DEF TypeOK, InstallPC, RemovePC, Answer, Verify
  <2>3. jvm' \in [App -> {"distro", "none"} \cup Release]
    BY <1>1 DEF TypeOK, Tree, Verify
  <2>4. /\ todo' \in [Op -> SUBSET App] /\ stopped' \in [Op -> SUBSET App]
        /\ restarted' \in [Op -> SUBSET App]
    BY <1>1 DEF TypeOK, Verify
  <2>5. /\ hadLive' \in [Op -> BOOLEAN] /\ moved' \in [Op -> BOOLEAN]
        /\ swapped' \in [Op -> BOOLEAN] /\ errors' \in [Op -> BOOLEAN]
    BY <1>1 DEF TypeOK, Verify
  <2>6. QED
    BY <1>1, <2>1, <2>2, <2>3, <2>4, <2>5 DEF TypeOK
<1>3. \A q \in Op \ {o} : pc'[q] = pc[q] /\ Locals(q)' = Locals(q)
  BY <1>1 DEF TypeOK, Locals, Verify
<1>4. SafeInv'
  BY <1>1, Names DEF TypeOK, SafeInv, Release, Tree, Own, StageInv, TreeInv, InstallPC, Undone,
     Verify
<1>5. HoldInv(o)' /\ GateInv(o)'
  BY <1>1, Names DEF TypeOK, Own, HoldInv, GateInv, Working, InstallPC, RemovePC, Verify
<1>6. StageInv(o)'
  BY <1>1, Names DEF TypeOK, Own, StageInv, TreeInv, InstallPC, Undone, Verify
<1>7. TreeInv(o)'
  BY <1>1, Names DEF TypeOK, SafeInv, Own, StageInv, TreeInv, InstallPC, Undone, Verify
<1>8. StopInv(o)'
  BY <1>1, Names DEF TypeOK, Own, HoldInv, StageInv, TreeInv, ServiceInv, StopInv, InstallPC,
     Undone, Verify
<1>9. ASSUME NEW a \in App \ touched PROVE AppInv(o, a)'
  BY <1>1, Names DEF TypeOK, Own, StageInv, TreeInv, ServiceInv, StopInv, AppInv, Forward,
     InstallPC,
     Undone, Release, Verify
<1>10. Own(o)'
  <2>1. touched' = touched
    BY DEF Verify
  <2>2. QED
    BY <1>5, <1>6, <1>7, <1>8, <1>9, <2>1 DEF Own, ServiceInv
<1>11. QED
  BY <1>1, <1>2, <1>3, <1>4, <1>10, Alone, OwnStep

LEMMA FindLiveKeeps == ASSUME JdkInv, NEW o \in Installer, FindLive(o) PROVE JdkInv'
<1>1. o \in Op /\ Working(o) /\ Own(o) /\ TypeOK /\ FoundTyped /\ SafeInv
  BY Names DEF JdkInv, Working, InstallPC, RemovePC, FindLive
<1>2. TypeOK' /\ FoundTyped'
  BY <1>1, Names DEF TypeOK, FoundTyped, Tree, InstallPC, RemovePC, Answer, FindLive, Usage
<1>3. \A q \in Op \ {o} : pc'[q] = pc[q] /\ Locals(q)' = Locals(q)
  BY <1>1 DEF TypeOK, Locals, FindLive, Usage
<1>4. SafeInv'
  BY <1>1, Names DEF TypeOK, SafeInv, Release, Tree, Own, StageInv, TreeInv, InstallPC, Undone,
     FindLive, Usage
<1>5. HoldInv(o)' /\ GateInv(o)'
  BY <1>1, Names DEF TypeOK, Own, HoldInv, GateInv, Working, InstallPC, RemovePC, FindLive,
     Usage
<1>6. StageInv(o)'
  BY <1>1, Names DEF TypeOK, Own, StageInv, TreeInv, InstallPC, Undone, FindLive, Usage
<1>7. TreeInv(o)'
  BY <1>1, Names DEF TypeOK, SafeInv, Own, StageInv, TreeInv, InstallPC, Undone, FindLive,
     Usage
<1>8. StopInv(o)'
  BY <1>1, Names DEF TypeOK, Own, HoldInv, StageInv, TreeInv, ServiceInv, StopInv, InstallPC,
     Undone, FindLive, Usage
<1>9. ASSUME NEW a \in App \ touched PROVE AppInv(o, a)'
  BY <1>1, Names DEF TypeOK, Own, StageInv, TreeInv, ServiceInv, StopInv, AppInv, Forward,
     InstallPC,
     Undone, Release, FindLive, Usage
<1>10. Own(o)'
  <2>1. touched' = touched
    BY DEF FindLive
  <2>2. QED
    BY <1>5, <1>6, <1>7, <1>8, <1>9, <2>1 DEF Own, ServiceInv
<1>11. QED
  BY <1>1, <1>2, <1>3, <1>4, <1>10, Alone, OwnStep

LEMMA StopDependentKeeps == ASSUME JdkInv, NEW o \in Installer, StopDependent(o) PROVE JdkInv'
<1>1. o \in Op /\ Working(o) /\ Own(o) /\ TypeOK /\ FoundTyped /\ SafeInv
  BY Names DEF JdkInv, Working, InstallPC, RemovePC, StopDependent
<1>2. TypeOK' /\ FoundTyped'
  <2>1. /\ dest' \in Tree /\ old' \in Tree
        /\ staging' \in {"none", "partial"} \cup Installer
        /\ lock' \in {"free"} \cup Op /\ probed' \subseteq Release /\ owned' \in BOOLEAN
        /\ FoundTyped' /\ pinned' = pinned /\ force' = force /\ touched' = touched
        /\ doubt' \subseteq App
    BY <1>1, Names DEF TypeOK, FoundTyped, Tree, Release, StopDependent, Own, StageInv,
       TreeInv, InstallPC, Undone
  <2>2. pc' \in [Op -> {"idle"} \cup InstallPC \cup RemovePC \cup Answer]
    BY <1>1 DEF TypeOK, InstallPC, RemovePC, Answer, StopDependent
  <2>3. jvm' \in [App -> {"distro", "none"} \cup Release]
    BY <1>1 DEF TypeOK, Tree, StopDependent
  <2>4. /\ todo' \in [Op -> SUBSET App] /\ stopped' \in [Op -> SUBSET App]
        /\ restarted' \in [Op -> SUBSET App]
    BY <1>1 DEF TypeOK, StopDependent
  <2>5. /\ hadLive' \in [Op -> BOOLEAN] /\ moved' \in [Op -> BOOLEAN]
        /\ swapped' \in [Op -> BOOLEAN] /\ errors' \in [Op -> BOOLEAN]
    BY <1>1 DEF TypeOK, StopDependent
  <2>6. QED
    BY <1>1, <2>1, <2>2, <2>3, <2>4, <2>5 DEF TypeOK
<1>3. \A q \in Op \ {o} : pc'[q] = pc[q] /\ Locals(q)' = Locals(q)
  BY <1>1 DEF TypeOK, Locals, StopDependent
<1>4. SafeInv'
  BY <1>1, Names DEF TypeOK, SafeInv, Release, Tree, Own, StageInv, TreeInv, InstallPC, Undone,
     StopDependent
<1>5. HoldInv(o)' /\ GateInv(o)'
  BY <1>1, Names DEF TypeOK, Own, HoldInv, GateInv, Working, InstallPC, RemovePC, StopDependent
<1>6. StageInv(o)'
  BY <1>1, Names DEF TypeOK, Own, StageInv, TreeInv, InstallPC, Undone, StopDependent
<1>7. TreeInv(o)'
  BY <1>1, Names DEF TypeOK, SafeInv, Own, StageInv, TreeInv, InstallPC, Undone, StopDependent
<1>8. StopInv(o)'
  BY <1>1, Names DEF TypeOK, Own, HoldInv, StageInv, TreeInv, ServiceInv, StopInv, InstallPC,
     Undone, StopDependent
<1>9. ASSUME NEW a \in App \ touched PROVE AppInv(o, a)'
  BY <1>1, Names DEF TypeOK, Own, StageInv, TreeInv, ServiceInv, StopInv, AppInv, Forward,
     InstallPC,
     Undone, Release, StopDependent
<1>10. Own(o)'
  <2>1. touched' = touched
    BY DEF StopDependent
  <2>2. QED
    BY <1>5, <1>6, <1>7, <1>8, <1>9, <2>1 DEF Own, ServiceInv
<1>11. QED
  BY <1>1, <1>2, <1>3, <1>4, <1>10, Alone, OwnStep

LEMMA StoppedKeeps == ASSUME JdkInv, NEW o \in Installer, Stopped(o) PROVE JdkInv'
<1>1. o \in Op /\ Working(o) /\ Own(o) /\ TypeOK /\ FoundTyped /\ SafeInv
  BY Names DEF JdkInv, Working, InstallPC, RemovePC, Stopped
<1>2. TypeOK' /\ FoundTyped'
  BY <1>1, Names DEF TypeOK, FoundTyped, Tree, InstallPC, RemovePC, Answer, Stopped
<1>3. \A q \in Op \ {o} : pc'[q] = pc[q] /\ Locals(q)' = Locals(q)
  BY <1>1 DEF TypeOK, Locals, Stopped
<1>4. SafeInv'
  BY <1>1, Names DEF TypeOK, SafeInv, Release, Tree, Own, StageInv, TreeInv, InstallPC, Undone,
     Stopped
<1>5. HoldInv(o)' /\ GateInv(o)'
  BY <1>1, Names DEF TypeOK, Own, HoldInv, GateInv, Working, InstallPC, RemovePC, Stopped
<1>6. StageInv(o)'
  BY <1>1, Names DEF TypeOK, Own, StageInv, TreeInv, InstallPC, Undone, Stopped
<1>7. TreeInv(o)'
  BY <1>1, Names DEF TypeOK, SafeInv, Own, StageInv, TreeInv, InstallPC, Undone, Stopped
<1>8. StopInv(o)'
  BY <1>1, Names DEF TypeOK, Own, HoldInv, StageInv, TreeInv, ServiceInv, StopInv, InstallPC,
     Undone, Stopped
<1>9. ASSUME NEW a \in App \ touched PROVE AppInv(o, a)'
  BY <1>1, Names DEF TypeOK, Own, StageInv, TreeInv, ServiceInv, StopInv, AppInv, Forward,
     InstallPC,
     Undone, Release, Stopped
<1>10. Own(o)'
  <2>1. touched' = touched
    BY DEF Stopped
  <2>2. QED
    BY <1>5, <1>6, <1>7, <1>8, <1>9, <2>1 DEF Own, ServiceInv
<1>11. QED
  BY <1>1, <1>2, <1>3, <1>4, <1>10, Alone, OwnStep

LEMMA SwapOutKeeps == ASSUME JdkInv, NEW o \in Installer, SwapOut(o) PROVE JdkInv'
<1>1. o \in Op /\ Working(o) /\ Own(o) /\ TypeOK /\ FoundTyped /\ SafeInv
  BY Names DEF JdkInv, Working, InstallPC, RemovePC, SwapOut
<1>2. TypeOK' /\ FoundTyped'
  <2>1. /\ dest' \in Tree /\ old' \in Tree
        /\ staging' \in {"none", "partial"} \cup Installer
        /\ lock' \in {"free"} \cup Op /\ probed' \subseteq Release /\ owned' \in BOOLEAN
        /\ FoundTyped' /\ pinned' = pinned /\ force' = force /\ touched' = touched
        /\ doubt' \subseteq App
    BY <1>1, Names DEF TypeOK, FoundTyped, Tree, Release, SwapOut, Own, StageInv, TreeInv,
       InstallPC, Undone
  <2>2. pc' \in [Op -> {"idle"} \cup InstallPC \cup RemovePC \cup Answer]
    BY <1>1 DEF TypeOK, InstallPC, RemovePC, Answer, SwapOut
  <2>3. jvm' \in [App -> {"distro", "none"} \cup Release]
    BY <1>1 DEF TypeOK, Tree, SwapOut
  <2>4. /\ todo' \in [Op -> SUBSET App] /\ stopped' \in [Op -> SUBSET App]
        /\ restarted' \in [Op -> SUBSET App]
    BY <1>1 DEF TypeOK, SwapOut
  <2>5. /\ hadLive' \in [Op -> BOOLEAN] /\ moved' \in [Op -> BOOLEAN]
        /\ swapped' \in [Op -> BOOLEAN] /\ errors' \in [Op -> BOOLEAN]
    BY <1>1 DEF TypeOK, SwapOut
  <2>6. QED
    BY <1>1, <2>1, <2>2, <2>3, <2>4, <2>5 DEF TypeOK
<1>3. \A q \in Op \ {o} : pc'[q] = pc[q] /\ Locals(q)' = Locals(q)
  BY <1>1 DEF TypeOK, Locals, SwapOut
<1>4. SafeInv'
  BY <1>1, Names DEF TypeOK, SafeInv, Release, Tree, Own, StageInv, TreeInv, InstallPC, Undone,
     SwapOut
<1>5. HoldInv(o)' /\ GateInv(o)'
  BY <1>1, Names DEF TypeOK, Own, HoldInv, GateInv, Working, InstallPC, RemovePC, SwapOut
<1>6. StageInv(o)'
  BY <1>1, Names DEF TypeOK, Own, StageInv, TreeInv, InstallPC, Undone, SwapOut
<1>7. TreeInv(o)'
  BY <1>1, Names DEF TypeOK, SafeInv, Own, StageInv, TreeInv, InstallPC, Undone, SwapOut
<1>8. StopInv(o)'
  BY <1>1, Names DEF TypeOK, Own, HoldInv, StageInv, TreeInv, ServiceInv, StopInv, InstallPC,
     Undone, SwapOut
<1>9. ASSUME NEW a \in App \ touched PROVE AppInv(o, a)'
  BY <1>1, Names DEF TypeOK, Own, StageInv, TreeInv, ServiceInv, StopInv, AppInv, Forward,
     InstallPC,
     Undone, Release, SwapOut
<1>10. Own(o)'
  <2>1. touched' = touched
    BY DEF SwapOut
  <2>2. QED
    BY <1>5, <1>6, <1>7, <1>8, <1>9, <2>1 DEF Own, ServiceInv
<1>11. QED
  BY <1>1, <1>2, <1>3, <1>4, <1>10, Alone, OwnStep

LEMMA SwapInKeeps == ASSUME JdkInv, NEW o \in Installer, SwapIn(o) PROVE JdkInv'
<1>1. o \in Op /\ Working(o) /\ Own(o) /\ TypeOK /\ FoundTyped /\ SafeInv
  BY Names DEF JdkInv, Working, InstallPC, RemovePC, SwapIn
<1>2. TypeOK' /\ FoundTyped'
  <2>1. /\ dest' \in Tree /\ old' \in Tree
        /\ staging' \in {"none", "partial"} \cup Installer
        /\ lock' \in {"free"} \cup Op /\ probed' \subseteq Release /\ owned' \in BOOLEAN
        /\ FoundTyped' /\ pinned' = pinned /\ force' = force /\ touched' = touched
        /\ doubt' \subseteq App
    BY <1>1, Names DEF TypeOK, FoundTyped, Tree, Release, SwapIn, Own, StageInv, TreeInv,
       InstallPC, Undone
  <2>2. pc' \in [Op -> {"idle"} \cup InstallPC \cup RemovePC \cup Answer]
    BY <1>1 DEF TypeOK, InstallPC, RemovePC, Answer, SwapIn
  <2>3. jvm' \in [App -> {"distro", "none"} \cup Release]
    BY <1>1 DEF TypeOK, Tree, SwapIn
  <2>4. /\ todo' \in [Op -> SUBSET App] /\ stopped' \in [Op -> SUBSET App]
        /\ restarted' \in [Op -> SUBSET App]
    BY <1>1 DEF TypeOK, SwapIn
  <2>5. /\ hadLive' \in [Op -> BOOLEAN] /\ moved' \in [Op -> BOOLEAN]
        /\ swapped' \in [Op -> BOOLEAN] /\ errors' \in [Op -> BOOLEAN]
    BY <1>1 DEF TypeOK, SwapIn
  <2>6. QED
    BY <1>1, <2>1, <2>2, <2>3, <2>4, <2>5 DEF TypeOK
<1>3. \A q \in Op \ {o} : pc'[q] = pc[q] /\ Locals(q)' = Locals(q)
  BY <1>1 DEF TypeOK, Locals, SwapIn
<1>4. SafeInv'
  BY <1>1, Names DEF TypeOK, SafeInv, Release, Tree, Own, StageInv, TreeInv, InstallPC, Undone,
     SwapIn
<1>5. HoldInv(o)' /\ GateInv(o)'
  BY <1>1, Names DEF TypeOK, Own, HoldInv, GateInv, Working, InstallPC, RemovePC, SwapIn
<1>6. StageInv(o)'
  BY <1>1, Names DEF TypeOK, Own, StageInv, TreeInv, InstallPC, Undone, SwapIn
<1>7. TreeInv(o)'
  BY <1>1, Names DEF TypeOK, SafeInv, Own, StageInv, TreeInv, InstallPC, Undone, SwapIn
<1>8. StopInv(o)'
  BY <1>1, Names DEF TypeOK, Own, HoldInv, StageInv, TreeInv, ServiceInv, StopInv, InstallPC,
     Undone, SwapIn
<1>9. ASSUME NEW a \in App \ touched PROVE AppInv(o, a)'
  BY <1>1, Names DEF TypeOK, Own, StageInv, TreeInv, ServiceInv, StopInv, AppInv, Forward,
     InstallPC,
     Undone, Release, SwapIn
<1>10. Own(o)'
  <2>1. touched' = touched
    BY DEF SwapIn
  <2>2. QED
    BY <1>5, <1>6, <1>7, <1>8, <1>9, <2>1 DEF Own, ServiceInv
<1>11. QED
  BY <1>1, <1>2, <1>3, <1>4, <1>10, Alone, OwnStep

LEMMA ProveKeeps == ASSUME JdkInv, NEW o \in Installer, Prove(o) PROVE JdkInv'
<1>1. o \in Op /\ Working(o) /\ Own(o) /\ TypeOK /\ FoundTyped /\ SafeInv
  BY Names DEF JdkInv, Working, InstallPC, RemovePC, Prove
<1>2. TypeOK' /\ FoundTyped'
  BY <1>1, Names DEF TypeOK, FoundTyped, Tree, InstallPC, RemovePC, Answer, Prove
<1>3. \A q \in Op \ {o} : pc'[q] = pc[q] /\ Locals(q)' = Locals(q)
  BY <1>1 DEF TypeOK, Locals, Prove
<1>4. SafeInv'
  BY <1>1, Names DEF TypeOK, SafeInv, Release, Tree, Own, StageInv, TreeInv, InstallPC, Undone,
     Prove
<1>5. HoldInv(o)' /\ GateInv(o)'
  BY <1>1, Names DEF TypeOK, Own, HoldInv, GateInv, Working, InstallPC, RemovePC, Prove
<1>6. StageInv(o)'
  BY <1>1, Names DEF TypeOK, Own, StageInv, TreeInv, InstallPC, Undone, Prove
<1>7. TreeInv(o)'
  BY <1>1, Names DEF TypeOK, SafeInv, Own, StageInv, TreeInv, InstallPC, Undone, Prove
<1>8. StopInv(o)'
  BY <1>1, Names DEF TypeOK, Own, HoldInv, StageInv, TreeInv, ServiceInv, StopInv, InstallPC,
     Undone, Prove
<1>9. ASSUME NEW a \in App \ touched PROVE AppInv(o, a)'
  BY <1>1, Names DEF TypeOK, Own, StageInv, TreeInv, ServiceInv, StopInv, AppInv, Forward,
     InstallPC,
     Undone, Release, Prove
<1>10. Own(o)'
  <2>1. touched' = touched
    BY DEF Prove
  <2>2. QED
    BY <1>5, <1>6, <1>7, <1>8, <1>9, <2>1 DEF Own, ServiceInv
<1>11. QED
  BY <1>1, <1>2, <1>3, <1>4, <1>10, Alone, OwnStep

LEMMA StartDependentKeeps == ASSUME JdkInv, NEW o \in Installer, StartDependent(o) PROVE JdkInv'
<1>1. o \in Op /\ Working(o) /\ Own(o) /\ TypeOK /\ FoundTyped /\ SafeInv
  BY Names DEF JdkInv, Working, InstallPC, RemovePC, StartDependent
<1>2. TypeOK' /\ FoundTyped'
  <2>1. /\ dest' \in Tree /\ old' \in Tree
        /\ staging' \in {"none", "partial"} \cup Installer
        /\ lock' \in {"free"} \cup Op /\ probed' \subseteq Release /\ owned' \in BOOLEAN
        /\ FoundTyped' /\ pinned' = pinned /\ force' = force /\ touched' = touched
        /\ doubt' \subseteq App
    BY <1>1, Names DEF TypeOK, FoundTyped, Tree, Release, StartDependent, StartApp, Own,
       StageInv, TreeInv, InstallPC, Undone
  <2>2. pc' \in [Op -> {"idle"} \cup InstallPC \cup RemovePC \cup Answer]
    BY <1>1 DEF TypeOK, InstallPC, RemovePC, Answer, StartDependent, StartApp
  <2>3. jvm' \in [App -> {"distro", "none"} \cup Release]
    BY <1>1 DEF TypeOK, Tree, StartDependent, StartApp, Release, Own, StageInv, TreeInv,
       InstallPC, Undone
  <2>4. /\ todo' \in [Op -> SUBSET App] /\ stopped' \in [Op -> SUBSET App]
        /\ restarted' \in [Op -> SUBSET App]
    BY <1>1 DEF TypeOK, StartDependent, StartApp
  <2>5. /\ hadLive' \in [Op -> BOOLEAN] /\ moved' \in [Op -> BOOLEAN]
        /\ swapped' \in [Op -> BOOLEAN] /\ errors' \in [Op -> BOOLEAN]
    BY <1>1 DEF TypeOK, StartDependent, StartApp
  <2>6. QED
    BY <1>1, <2>1, <2>2, <2>3, <2>4, <2>5 DEF TypeOK
<1>3. \A q \in Op \ {o} : pc'[q] = pc[q] /\ Locals(q)' = Locals(q)
  BY <1>1 DEF TypeOK, Locals, StartDependent, StartApp
<1>4. SafeInv'
  BY <1>1, Names DEF TypeOK, SafeInv, Release, Tree, Own, StageInv, TreeInv, InstallPC, Undone,
     StartDependent, StartApp
<1>5. HoldInv(o)' /\ GateInv(o)'
  BY <1>1, Names DEF TypeOK, Own, HoldInv, GateInv, Working, InstallPC, RemovePC,
     StartDependent, StartApp
<1>6. StageInv(o)'
  BY <1>1, Names DEF TypeOK, Own, StageInv, TreeInv, InstallPC, Undone, StartDependent,
     StartApp
<1>7. TreeInv(o)'
  BY <1>1, Names DEF TypeOK, SafeInv, Own, StageInv, TreeInv, InstallPC, Undone,
     StartDependent, StartApp
<1>8. StopInv(o)'
  BY <1>1, Names DEF TypeOK, Own, HoldInv, StageInv, TreeInv, ServiceInv, StopInv, InstallPC,
     Undone, StartDependent, StartApp
<1>9. ASSUME NEW a \in App \ touched PROVE AppInv(o, a)'
  BY <1>1, Names DEF TypeOK, Own, StageInv, TreeInv, ServiceInv, StopInv, AppInv, Forward,
     InstallPC,
     Undone, Release, StartDependent, StartApp
<1>10. Own(o)'
  <2>1. touched' = touched
    BY DEF StartDependent
  <2>2. QED
    BY <1>5, <1>6, <1>7, <1>8, <1>9, <2>1 DEF Own, ServiceInv
<1>11. QED
  BY <1>1, <1>2, <1>3, <1>4, <1>10, Alone, OwnStep

LEMMA CommitKeeps == ASSUME JdkInv, NEW o \in Installer, Commit(o) PROVE JdkInv'
<1>1. o \in Op /\ Working(o) /\ Own(o) /\ TypeOK /\ FoundTyped /\ SafeInv
  BY Names DEF JdkInv, Working, InstallPC, RemovePC, Commit
<1>2. TypeOK' /\ FoundTyped'
  BY <1>1, Names DEF TypeOK, FoundTyped, Tree, InstallPC, RemovePC, Answer, Commit
<1>3. \A q \in Op \ {o} : pc'[q] = pc[q] /\ Locals(q)' = Locals(q)
  BY <1>1 DEF TypeOK, Locals, Commit
<1>4. SafeInv'
  BY <1>1, Names DEF TypeOK, SafeInv, Release, Tree, Own, StageInv, TreeInv, InstallPC, Undone,
     Commit
<1>5. HoldInv(o)' /\ GateInv(o)'
  BY <1>1, Names DEF TypeOK, Own, HoldInv, GateInv, Working, InstallPC, RemovePC, Commit
<1>6. StageInv(o)'
  BY <1>1, Names DEF TypeOK, Own, StageInv, TreeInv, InstallPC, Undone, Commit
<1>7. TreeInv(o)'
  BY <1>1, Names DEF TypeOK, SafeInv, Own, StageInv, TreeInv, InstallPC, Undone, Commit
<1>8. StopInv(o)'
  BY <1>1, Names DEF TypeOK, Own, HoldInv, StageInv, TreeInv, ServiceInv, StopInv, InstallPC,
     Undone, Commit
<1>9. ASSUME NEW a \in App \ touched PROVE AppInv(o, a)'
  BY <1>1, Names DEF TypeOK, Own, StageInv, TreeInv, ServiceInv, StopInv, AppInv, Forward,
     InstallPC,
     Undone, Release, Commit
<1>10. Own(o)'
  <2>1. touched' = touched
    BY DEF Commit
  <2>2. QED
    BY <1>5, <1>6, <1>7, <1>8, <1>9, <2>1 DEF Own, ServiceInv
<1>11. QED
  BY <1>1, <1>2, <1>3, <1>4, <1>10, Alone, OwnStep

LEMMA DropOldKeeps == ASSUME JdkInv, NEW o \in Installer, DropOld(o) PROVE JdkInv'
<1>1. o \in Op /\ Working(o) /\ Own(o) /\ TypeOK /\ FoundTyped /\ SafeInv
  BY Names DEF JdkInv, Working, InstallPC, RemovePC, DropOld
<1>2. TypeOK' /\ FoundTyped'
  BY <1>1, Names DEF TypeOK, FoundTyped, Tree, InstallPC, RemovePC, Answer, DropOld
<1>3. \A q \in Op \ {o} : pc'[q] = pc[q] /\ Locals(q)' = Locals(q)
  BY <1>1 DEF TypeOK, Locals, DropOld
<1>4. SafeInv'
  BY <1>1, Names DEF TypeOK, SafeInv, Release, Tree, Own, StageInv, TreeInv, InstallPC, Undone,
     DropOld
<1>5. HoldInv(o)' /\ GateInv(o)'
  BY <1>1, Names DEF TypeOK, Own, HoldInv, GateInv, Working, InstallPC, RemovePC, DropOld
<1>6. StageInv(o)'
  BY <1>1, Names DEF TypeOK, Own, StageInv, TreeInv, InstallPC, Undone, DropOld
<1>7. TreeInv(o)'
  BY <1>1, Names DEF TypeOK, SafeInv, Own, StageInv, TreeInv, InstallPC, Undone, DropOld
<1>8. StopInv(o)'
  BY <1>1, Names DEF TypeOK, Own, HoldInv, StageInv, TreeInv, ServiceInv, StopInv, InstallPC,
     Undone, DropOld
<1>9. ASSUME NEW a \in App \ touched PROVE AppInv(o, a)'
  BY <1>1, Names DEF TypeOK, Own, StageInv, TreeInv, ServiceInv, StopInv, AppInv, Forward,
     InstallPC,
     Undone, Release, DropOld
<1>10. Own(o)'
  <2>1. touched' = touched
    BY DEF DropOld
  <2>2. QED
    BY <1>5, <1>6, <1>7, <1>8, <1>9, <2>1 DEF Own, ServiceInv
<1>11. QED
  BY <1>1, <1>2, <1>3, <1>4, <1>10, Alone, OwnStep

LEMMA UndoStopKeeps == ASSUME JdkInv, NEW o \in Installer, UndoStop(o) PROVE JdkInv'
<1>1. o \in Op /\ Working(o) /\ Own(o) /\ TypeOK /\ FoundTyped /\ SafeInv
  BY Names DEF JdkInv, Working, InstallPC, RemovePC, UndoStop
<1>2. TypeOK' /\ FoundTyped'
  <2>1. /\ dest' \in Tree /\ old' \in Tree
        /\ staging' \in {"none", "partial"} \cup Installer
        /\ lock' \in {"free"} \cup Op /\ probed' \subseteq Release /\ owned' \in BOOLEAN
        /\ FoundTyped' /\ pinned' = pinned /\ force' = force /\ touched' = touched
        /\ doubt' \subseteq App
    BY <1>1, Names DEF TypeOK, FoundTyped, Tree, Release, UndoStop, Own, StageInv, TreeInv,
       InstallPC, Undone
  <2>2. pc' \in [Op -> {"idle"} \cup InstallPC \cup RemovePC \cup Answer]
    BY <1>1 DEF TypeOK, InstallPC, RemovePC, Answer, UndoStop
  <2>3. jvm' \in [App -> {"distro", "none"} \cup Release]
    BY <1>1 DEF TypeOK, Tree, UndoStop
  <2>4. /\ todo' \in [Op -> SUBSET App] /\ stopped' \in [Op -> SUBSET App]
        /\ restarted' \in [Op -> SUBSET App]
    BY <1>1 DEF TypeOK, UndoStop
  <2>5. /\ hadLive' \in [Op -> BOOLEAN] /\ moved' \in [Op -> BOOLEAN]
        /\ swapped' \in [Op -> BOOLEAN] /\ errors' \in [Op -> BOOLEAN]
    BY <1>1 DEF TypeOK, UndoStop
  <2>6. QED
    BY <1>1, <2>1, <2>2, <2>3, <2>4, <2>5 DEF TypeOK
<1>3. \A q \in Op \ {o} : pc'[q] = pc[q] /\ Locals(q)' = Locals(q)
  BY <1>1 DEF TypeOK, Locals, UndoStop
<1>4. SafeInv'
  BY <1>1, Names DEF TypeOK, SafeInv, Release, Tree, Own, StageInv, TreeInv, InstallPC, Undone,
     UndoStop
<1>5. HoldInv(o)' /\ GateInv(o)'
  BY <1>1, Names DEF TypeOK, Own, HoldInv, GateInv, Working, InstallPC, RemovePC, UndoStop
<1>6. StageInv(o)'
  BY <1>1, Names DEF TypeOK, Own, StageInv, TreeInv, InstallPC, Undone, UndoStop
<1>7. TreeInv(o)'
  BY <1>1, Names DEF TypeOK, SafeInv, Own, StageInv, TreeInv, InstallPC, Undone, UndoStop
<1>8. StopInv(o)'
  BY <1>1, Names DEF TypeOK, Own, HoldInv, StageInv, TreeInv, ServiceInv, StopInv, InstallPC,
     Undone, UndoStop
<1>9. ASSUME NEW a \in App \ touched PROVE AppInv(o, a)'
  BY <1>1, Names DEF TypeOK, Own, StageInv, TreeInv, ServiceInv, StopInv, AppInv, Forward,
     InstallPC,
     Undone, Release, UndoStop
<1>10. Own(o)'
  <2>1. touched' = touched
    BY DEF UndoStop
  <2>2. QED
    BY <1>5, <1>6, <1>7, <1>8, <1>9, <2>1 DEF Own, ServiceInv
<1>11. QED
  BY <1>1, <1>2, <1>3, <1>4, <1>10, Alone, OwnStep

LEMMA UndoTreeKeeps == ASSUME JdkInv, NEW o \in Installer, UndoTree(o) PROVE JdkInv'
<1>1. o \in Op /\ Working(o) /\ Own(o) /\ TypeOK /\ FoundTyped /\ SafeInv
  BY Names DEF JdkInv, Working, InstallPC, RemovePC, UndoTree
<1>2. TypeOK' /\ FoundTyped'
  <2>1. /\ dest' \in Tree /\ old' \in Tree
        /\ staging' \in {"none", "partial"} \cup Installer
        /\ lock' \in {"free"} \cup Op /\ probed' \subseteq Release /\ owned' \in BOOLEAN
        /\ FoundTyped' /\ pinned' = pinned /\ force' = force /\ touched' = touched
        /\ doubt' \subseteq App
    BY <1>1, Names DEF TypeOK, FoundTyped, Tree, Release, UndoTree, PutBack, Half, Own,
       StageInv, TreeInv, InstallPC, Undone
  <2>2. pc' \in [Op -> {"idle"} \cup InstallPC \cup RemovePC \cup Answer]
    BY <1>1 DEF TypeOK, InstallPC, RemovePC, Answer, UndoTree, PutBack, Half
  <2>3. jvm' \in [App -> {"distro", "none"} \cup Release]
    BY <1>1 DEF TypeOK, Tree, UndoTree, PutBack, Half
  <2>4. /\ todo' \in [Op -> SUBSET App] /\ stopped' \in [Op -> SUBSET App]
        /\ restarted' \in [Op -> SUBSET App]
    BY <1>1 DEF TypeOK, UndoTree, PutBack, Half
  <2>5. /\ hadLive' \in [Op -> BOOLEAN] /\ moved' \in [Op -> BOOLEAN]
        /\ swapped' \in [Op -> BOOLEAN] /\ errors' \in [Op -> BOOLEAN]
    BY <1>1 DEF TypeOK, UndoTree, PutBack, Half
  <2>6. QED
    BY <1>1, <2>1, <2>2, <2>3, <2>4, <2>5 DEF TypeOK
<1>3. \A q \in Op \ {o} : pc'[q] = pc[q] /\ Locals(q)' = Locals(q)
  BY <1>1 DEF TypeOK, Locals, UndoTree, PutBack, Half
<1>4. SafeInv'
  BY <1>1, Names DEF TypeOK, SafeInv, Release, Tree, Own, StageInv, TreeInv, InstallPC, Undone,
     UndoTree, PutBack, Half
<1>5. HoldInv(o)' /\ GateInv(o)'
  BY <1>1, Names DEF TypeOK, Own, HoldInv, GateInv, Working, InstallPC, RemovePC, UndoTree,
     PutBack, Half
<1>6. StageInv(o)'
  BY <1>1, Names DEF TypeOK, Own, StageInv, TreeInv, InstallPC, Undone, UndoTree, PutBack, Half
<1>7. TreeInv(o)'
  BY <1>1, Names DEF TypeOK, SafeInv, Own, StageInv, TreeInv, InstallPC, Undone, UndoTree,
     PutBack, Half
<1>8. StopInv(o)'
  BY <1>1, Names DEF TypeOK, Own, HoldInv, StageInv, TreeInv, ServiceInv, StopInv, InstallPC,
     Undone, UndoTree, PutBack, Half
<1>9. ASSUME NEW a \in App \ touched PROVE AppInv(o, a)'
  BY <1>1, Names DEF TypeOK, Own, StageInv, TreeInv, ServiceInv, StopInv, AppInv, Forward,
     InstallPC,
     Undone, Release, UndoTree, PutBack, Half
<1>10. Own(o)'
  <2>1. touched' = touched
    BY DEF UndoTree
  <2>2. QED
    BY <1>5, <1>6, <1>7, <1>8, <1>9, <2>1 DEF Own, ServiceInv
<1>11. QED
  BY <1>1, <1>2, <1>3, <1>4, <1>10, Alone, OwnStep

LEMMA UndoStartKeeps == ASSUME JdkInv, NEW o \in Installer, UndoStart(o) PROVE JdkInv'
<1>1. o \in Op /\ Working(o) /\ Own(o) /\ TypeOK /\ FoundTyped /\ SafeInv
  BY Names DEF JdkInv, Working, InstallPC, RemovePC, UndoStart
<1>2. TypeOK' /\ FoundTyped'
  <2>1. /\ dest' \in Tree /\ old' \in Tree
        /\ staging' \in {"none", "partial"} \cup Installer
        /\ lock' \in {"free"} \cup Op /\ probed' \subseteq Release /\ owned' \in BOOLEAN
        /\ FoundTyped' /\ pinned' = pinned /\ force' = force /\ touched' = touched
        /\ doubt' \subseteq App
    BY <1>1, Names DEF TypeOK, FoundTyped, Tree, Release, UndoStart, StartApp, Own, StageInv,
       TreeInv, InstallPC, Undone
  <2>2. pc' \in [Op -> {"idle"} \cup InstallPC \cup RemovePC \cup Answer]
    BY <1>1 DEF TypeOK, InstallPC, RemovePC, Answer, UndoStart, StartApp
  <2>3. jvm' \in [App -> {"distro", "none"} \cup Release]
    BY <1>1 DEF TypeOK, Tree, UndoStart, StartApp
  <2>4. /\ todo' \in [Op -> SUBSET App] /\ stopped' \in [Op -> SUBSET App]
        /\ restarted' \in [Op -> SUBSET App]
    BY <1>1 DEF TypeOK, UndoStart, StartApp
  <2>5. /\ hadLive' \in [Op -> BOOLEAN] /\ moved' \in [Op -> BOOLEAN]
        /\ swapped' \in [Op -> BOOLEAN] /\ errors' \in [Op -> BOOLEAN]
    BY <1>1 DEF TypeOK, UndoStart, StartApp
  <2>6. QED
    BY <1>1, <2>1, <2>2, <2>3, <2>4, <2>5 DEF TypeOK
<1>3. \A q \in Op \ {o} : pc'[q] = pc[q] /\ Locals(q)' = Locals(q)
  BY <1>1 DEF TypeOK, Locals, UndoStart, StartApp
<1>4. SafeInv'
  BY <1>1, Names DEF TypeOK, SafeInv, Release, Tree, Own, StageInv, TreeInv, InstallPC, Undone,
     UndoStart, StartApp
<1>5. HoldInv(o)' /\ GateInv(o)'
  BY <1>1, Names DEF TypeOK, Own, HoldInv, GateInv, Working, InstallPC, RemovePC, UndoStart,
     StartApp
<1>6. StageInv(o)'
  BY <1>1, Names DEF TypeOK, Own, StageInv, TreeInv, InstallPC, Undone, UndoStart, StartApp
<1>7. TreeInv(o)'
  BY <1>1, Names DEF TypeOK, SafeInv, Own, StageInv, TreeInv, InstallPC, Undone, UndoStart,
     StartApp
<1>8. StopInv(o)'
  BY <1>1, Names DEF TypeOK, Own, HoldInv, StageInv, TreeInv, ServiceInv, StopInv, InstallPC,
     Undone, UndoStart, StartApp
<1>9. ASSUME NEW a \in App \ touched PROVE AppInv(o, a)'
  BY <1>1, Names DEF TypeOK, Own, StageInv, TreeInv, ServiceInv, StopInv, AppInv, Forward,
     InstallPC,
     Undone, Release, UndoStart, StartApp
<1>10. Own(o)'
  <2>1. touched' = touched
    BY DEF UndoStart
  <2>2. QED
    BY <1>5, <1>6, <1>7, <1>8, <1>9, <2>1 DEF Own, ServiceInv
<1>11. QED
  BY <1>1, <1>2, <1>3, <1>4, <1>10, Alone, OwnStep

LEMMA UndoCleanKeeps == ASSUME JdkInv, NEW o \in Installer, UndoClean(o) PROVE JdkInv'
<1>1. o \in Op /\ Working(o) /\ Own(o) /\ TypeOK /\ FoundTyped /\ SafeInv
  BY Names DEF JdkInv, Working, InstallPC, RemovePC, UndoClean
<1>2. TypeOK' /\ FoundTyped'
  BY <1>1, Names DEF TypeOK, FoundTyped, Tree, InstallPC, RemovePC, Answer, UndoClean
<1>3. \A q \in Op \ {o} : pc'[q] = pc[q] /\ Locals(q)' = Locals(q)
  BY <1>1 DEF TypeOK, Locals, UndoClean
<1>4. SafeInv'
  BY <1>1, Names DEF TypeOK, SafeInv, Release, Tree, Own, StageInv, TreeInv, InstallPC, Undone,
     UndoClean
<1>5. HoldInv(o)' /\ GateInv(o)'
  BY <1>1, Names DEF TypeOK, Own, HoldInv, GateInv, Working, InstallPC, RemovePC, UndoClean
<1>6. StageInv(o)'
  BY <1>1, Names DEF TypeOK, Own, StageInv, TreeInv, InstallPC, Undone, UndoClean
<1>7. TreeInv(o)'
  BY <1>1, Names DEF TypeOK, SafeInv, Own, StageInv, TreeInv, InstallPC, Undone, UndoClean
<1>8. StopInv(o)'
  BY <1>1, Names DEF TypeOK, Own, HoldInv, StageInv, TreeInv, ServiceInv, StopInv, InstallPC,
     Undone, UndoClean
<1>9. ASSUME NEW a \in App \ touched PROVE AppInv(o, a)'
  BY <1>1, Names DEF TypeOK, Own, StageInv, TreeInv, ServiceInv, StopInv, AppInv, Forward,
     InstallPC,
     Undone, Release, UndoClean
<1>10. Own(o)'
  <2>1. touched' = touched
    BY DEF UndoClean
  <2>2. QED
    BY <1>5, <1>6, <1>7, <1>8, <1>9, <2>1 DEF Own, ServiceInv
<1>11. QED
  BY <1>1, <1>2, <1>3, <1>4, <1>10, Alone, OwnStep

LEMMA GateKeeps == ASSUME JdkInv, NEW o \in Remover, Gate(o) PROVE JdkInv'
<1>1. o \in Op /\ Working(o) /\ Own(o) /\ TypeOK /\ FoundTyped /\ SafeInv
  BY Names DEF JdkInv, Working, InstallPC, RemovePC, Gate
<1>2. TypeOK' /\ FoundTyped'
  BY <1>1, Names DEF TypeOK, FoundTyped, Tree, InstallPC, RemovePC, Answer, Gate, Usage
<1>3. \A q \in Op \ {o} : pc'[q] = pc[q] /\ Locals(q)' = Locals(q)
  BY <1>1 DEF TypeOK, Locals, Gate, Usage
<1>4. SafeInv'
  BY <1>1, Names DEF TypeOK, SafeInv, Release, Tree, Own, StageInv, TreeInv, InstallPC, Undone,
     Gate, Usage
<1>5. HoldInv(o)' /\ GateInv(o)'
  BY <1>1, Names DEF TypeOK, Own, HoldInv, GateInv, Working, InstallPC, RemovePC, Gate, Usage
<1>10. Own(o)'
  BY <1>1, <1>2, <1>5, Names DEF TypeOK, Own, StageInv, TreeInv, ServiceInv, StopInv, AppInv,
     Forward, InstallPC, Undone, Gate, Usage
<1>11. QED
  BY <1>1, <1>2, <1>3, <1>4, <1>10, Alone, OwnStep

LEMMA TakeDownKeeps == ASSUME JdkInv, NEW o \in Remover, TakeDown(o) PROVE JdkInv'
<1>1. o \in Op /\ Working(o) /\ Own(o) /\ TypeOK /\ FoundTyped /\ SafeInv
  BY Names DEF JdkInv, Working, InstallPC, RemovePC, TakeDown
<1>2. TypeOK' /\ FoundTyped'
  <2>1. /\ dest' \in Tree /\ old' \in Tree
        /\ staging' \in {"none", "partial"} \cup Installer
        /\ lock' \in {"free"} \cup Op /\ probed' \subseteq Release /\ owned' \in BOOLEAN
        /\ FoundTyped' /\ pinned' = pinned /\ force' = force /\ touched' = touched
        /\ doubt' \subseteq App
    BY <1>1, Names DEF TypeOK, FoundTyped, Tree, Release, TakeDown, Own, StageInv, TreeInv,
       InstallPC, Undone
  <2>2. pc' \in [Op -> {"idle"} \cup InstallPC \cup RemovePC \cup Answer]
    BY <1>1 DEF TypeOK, InstallPC, RemovePC, Answer, TakeDown
  <2>3. jvm' \in [App -> {"distro", "none"} \cup Release]
    BY <1>1 DEF TypeOK, Tree, TakeDown
  <2>4. /\ todo' \in [Op -> SUBSET App] /\ stopped' \in [Op -> SUBSET App]
        /\ restarted' \in [Op -> SUBSET App]
    BY <1>1 DEF TypeOK, TakeDown
  <2>5. /\ hadLive' \in [Op -> BOOLEAN] /\ moved' \in [Op -> BOOLEAN]
        /\ swapped' \in [Op -> BOOLEAN] /\ errors' \in [Op -> BOOLEAN]
    BY <1>1 DEF TypeOK, TakeDown
  <2>6. QED
    BY <1>1, <2>1, <2>2, <2>3, <2>4, <2>5 DEF TypeOK
<1>3. \A q \in Op \ {o} : pc'[q] = pc[q] /\ Locals(q)' = Locals(q)
  BY <1>1 DEF TypeOK, Locals, TakeDown
<1>4. SafeInv'
  BY <1>1, Names DEF TypeOK, SafeInv, Release, Tree, Own, StageInv, TreeInv, InstallPC, Undone,
     TakeDown
<1>5. HoldInv(o)' /\ GateInv(o)'
  BY <1>1, Names DEF TypeOK, Own, HoldInv, GateInv, Working, InstallPC, RemovePC, TakeDown
<1>10. Own(o)'
  BY <1>1, <1>2, <1>5, Names DEF TypeOK, Own, StageInv, TreeInv, ServiceInv, StopInv, AppInv,
     Forward, InstallPC, Undone, TakeDown
<1>11. QED
  BY <1>1, <1>2, <1>3, <1>4, <1>10, Alone, OwnStep

LEMMA RemoveKeeps == ASSUME JdkInv, NEW o \in Remover, Remove(o) PROVE JdkInv'
<1>1. o \in Op /\ Working(o) /\ Own(o) /\ TypeOK /\ FoundTyped /\ SafeInv
  BY Names DEF JdkInv, Working, InstallPC, RemovePC, Remove
<1>2. TypeOK' /\ FoundTyped'
  BY <1>1, Names DEF TypeOK, FoundTyped, Tree, InstallPC, RemovePC, Answer, Remove
<1>3. \A q \in Op \ {o} : pc'[q] = pc[q] /\ Locals(q)' = Locals(q)
  BY <1>1 DEF TypeOK, Locals, Remove
<1>4. SafeInv'
  BY <1>1, Names DEF TypeOK, SafeInv, Release, Tree, Own, StageInv, TreeInv, InstallPC, Undone,
     Remove
<1>5. HoldInv(o)' /\ GateInv(o)'
  BY <1>1, Names DEF TypeOK, Own, HoldInv, GateInv, Working, InstallPC, RemovePC, Remove
<1>10. Own(o)'
  BY <1>1, <1>2, <1>5, Names DEF TypeOK, Own, StageInv, TreeInv, ServiceInv, StopInv, AppInv,
     Forward, InstallPC, Undone, Remove
<1>11. QED
  BY <1>1, <1>2, <1>3, <1>4, <1>10, Alone, OwnStep

------------------------------------------------------------------------------
\* A request that takes the lock knows what it has found, and that nobody else works.
LEMMA AcquireKeeps == ASSUME JdkInv, NEW o \in Op, Acquire(o) PROVE JdkInv'
<1>1. /\ Own(o) /\ TypeOK /\ FoundTyped /\ SafeInv
      /\ \A q \in Op : ~Working(q)
  BY Names DEF JdkInv, Acquire, Own, HoldInv
<1>2. TypeOK' /\ FoundTyped'
  <2>1. Found \in FoundType
    BY <1>1 DEF TypeOK, Found, FoundType
  <2>2. FoundTyped'
    BY <1>1, <2>1 DEF FoundTyped, Acquire
  <2>3. pc' \in [Op -> {"idle"} \cup InstallPC \cup RemovePC \cup Answer]
    BY <1>1 DEF TypeOK, InstallPC, RemovePC, Acquire
  <2>4. QED
    BY <1>1, <2>2, <2>3 DEF TypeOK, Acquire
<1>3. \A q \in Op \ {o} : pc'[q] = pc[q] /\ Locals(q)' = Locals(q)
  BY <1>1 DEF TypeOK, Locals, Acquire
<1>4. SafeInv'
  BY <1>1 DEF SafeInv, Acquire
<1>5. before'[o] = Found /\ pc'[o] = IF o \in Installer THEN "stage" ELSE "gate"
  BY <1>1 DEF TypeOK, FoundTyped, Acquire
<1>6. HoldInv(o)' /\ StageInv(o)' /\ GateInv(o)'
  BY <1>1, <1>5 DEF Own, HoldInv, StageInv, GateInv, Found, Acquire, InstallPC, RemovePC, Op
<1>7. TreeInv(o)' /\ ServiceInv(o)'
  BY <1>1, <1>5 DEF Own, HoldInv, TreeInv, ServiceInv, StopInv, AppInv, Found, Acquire,
     Forward, InstallPC, Undone
<1>8. QED
  BY <1>1, <1>2, <1>3, <1>4, <1>6, <1>7, OwnStep DEF Own

\* A request that finds the lock taken, or dies, has nothing left to say.
LEMMA OverKeeps ==
    ASSUME JdkInv, NEW o \in Op, NEW l \in {"busy", "dead"}, pc' = [pc EXCEPT ![o] = l],
           \/ UNCHANGED lock /\ ~Working(o)
           \/ lock' = "free" /\ Working(o),
           UNCHANGED <<diskVars, appVars, force, flowVars, flagVars, histVars>>
    PROVE  JdkInv'
<1>1. TypeOK' /\ FoundTyped'
  BY DEF JdkInv, TypeOK, FoundTyped, Answer
<1>2. SafeInv'
  BY DEF JdkInv, SafeInv
<1>3. ASSUME NEW q \in Op PROVE Own(q)'
  <2>1. CASE q = o
    <3>1. pc'[q] \notin InstallPC \cup RemovePC \cup {"idle"}
      BY <2>1 DEF JdkInv, TypeOK, InstallPC, RemovePC
    <3>2. QED
      BY <3>1 DEF Own, HoldInv, StageInv, TreeInv, ServiceInv, StopInv, AppInv, GateInv,
         Working, Forward, InstallPC, RemovePC, Undone
  <2>2. CASE q # o
    <3>1. Own(q) /\ pc'[q] = pc[q]
      BY <2>2 DEF JdkInv, TypeOK
    <3>2. HoldInv(q)'
      BY <2>2, <3>1, Alone DEF Own, HoldInv, Working
    <3>3. StageInv(q)' /\ TreeInv(q)' /\ GateInv(q)'
      BY <3>1 DEF Own, StageInv, TreeInv, GateInv
    <3>4. ServiceInv(q)'
      BY <3>1 DEF Own, ServiceInv, StopInv, AppInv
    <3>5. QED
      BY <3>2, <3>3, <3>4 DEF Own
  <2>3. QED
    BY <2>1, <2>2
<1>4. QED
  BY <1>1, <1>2, <1>3 DEF JdkInv

\* The operators change only what they are then known to have touched.
LEMMA OperatorKeeps ==
    ASSUME JdkInv, NEW a \in App, OperatorStart(a) \/ OperatorStop(a) \/ OperatorPin(a)
    PROVE  JdkInv'
<1>1. /\ touched' = touched \cup {a}
      /\ \A x \in App \ {a} : jvm'[x] = jvm[x]
      /\ pinned' = pinned \/ pinned' = pinned \cup {a}
      /\ UNCHANGED <<diskVars, lock, pc, force, flowVars, flagVars, probed, owned, before, doubt>>
  BY DEF JdkInv, TypeOK, OperatorStart, OperatorStop, OperatorPin, StartApp
<1>2. jvm' \in [App -> {"distro", "none"} \cup Release]
  BY DEF JdkInv, TypeOK, OperatorStart, OperatorStop, OperatorPin, StartApp
<1>3. TypeOK' /\ FoundTyped'
  BY <1>1, <1>2 DEF JdkInv, TypeOK, FoundTyped
<1>4. SafeInv'
  BY <1>1 DEF JdkInv, SafeInv
<1>5. ASSUME NEW q \in Op PROVE Own(q)'
  <2>1. Own(q)
    BY DEF JdkInv
  <2>2. HoldInv(q)' /\ StageInv(q)' /\ TreeInv(q)'
    BY <1>1, <2>1 DEF Own, HoldInv, StageInv, TreeInv, Working
  <2>3. GateInv(q)'
    BY <1>1, <2>1 DEF Own, GateInv
  <2>4. StopInv(q)'
    BY <1>1, <2>1 DEF Own, ServiceInv, StopInv
  <2>5. ASSUME NEW x \in App \ touched' PROVE AppInv(q, x)'
    BY <1>1, <2>1 DEF Own, ServiceInv, AppInv
  <2>6. QED
    BY <2>2, <2>3, <2>4, <2>5 DEF Own, ServiceInv
<1>6. QED
  BY <1>3, <1>4, <1>5 DEF JdkInv

------------------------------------------------------------------------------
LEMMA JdkStep == ASSUME JdkInv, [Next]_vars PROVE JdkInv'
<1>1. ASSUME NEW o \in Op, Busy(o) PROVE JdkInv'
  <2>1. ~Working(o)
    BY <1>1 DEF Busy, Working, InstallPC, RemovePC
  <2>2. QED
    BY <1>1, <2>1, OverKeeps DEF Busy
<1>2. ASSUME NEW o \in Op, Dies(o) PROVE JdkInv'
  BY <1>2, OverKeeps DEF Dies, Working
<1>3. ASSUME NEW o \in Installer, Install(o) PROVE JdkInv'
  BY <1>1, <1>2, <1>3, Names, AcquireKeeps, StageKeeps, ExtractKeeps, VerifyKeeps,
     FindLiveKeeps, StopDependentKeeps, StoppedKeeps, SwapOutKeeps, SwapInKeeps, ProveKeeps,
     StartDependentKeeps, CommitKeeps, DropOldKeeps, UndoStopKeeps, UndoTreeKeeps,
     UndoStartKeeps, UndoCleanKeeps DEF Install
<1>4. ASSUME NEW o \in Remover, Uninstall(o) PROVE JdkInv'
  BY <1>1, <1>2, <1>4, Names, AcquireKeeps, GateKeeps, TakeDownKeeps, RemoveKeeps DEF Uninstall
<1>5. CASE UNCHANGED vars
  <2> USE <1>5 DEF vars
  <2>1. TypeOK' /\ FoundTyped' /\ SafeInv'
    BY DEF JdkInv, TypeOK, FoundTyped, SafeInv
  <2>2. ASSUME NEW q \in Op PROVE Own(q)'
    <3>1. Own(q)
      BY DEF JdkInv
    <3>2. HoldInv(q)' /\ StageInv(q)' /\ TreeInv(q)' /\ GateInv(q)'
      BY <3>1 DEF Own, HoldInv, StageInv, TreeInv, GateInv, Working
    <3>3. ServiceInv(q)'
      BY <3>1 DEF Own, ServiceInv, StopInv, AppInv
    <3>4. QED
      BY <3>2, <3>3 DEF Own
  <2>3. QED
    BY <2>1, <2>2 DEF JdkInv
<1>6. QED
  BY <1>3, <1>4, <1>5, OperatorKeeps DEF Next

\* Types, and what a request that holds the lock knows at each of its steps.
THEOREM JdkSafe == Spec => []JdkInv
BY JdkInitial, JdkStep, PTL DEF Spec

\* Type correctness.
THEOREM JdkTyped == Spec => []TypeOK
<1>1. JdkInv => TypeOK
  BY DEF JdkInv
<1>2. QED
  BY <1>1, JdkSafe, PTL

\* What is live was probed, and half a tree is live only after an uninstall that was cut
\* short (java.py 263-347).
THEOREM LiveAlwaysProven == Spec => []LiveIsProven
<1>1. JdkInv => LiveIsProven
  BY DEF JdkInv, SafeInv, LiveIsProven
<1>2. QED
  BY <1>1, JdkSafe, PTL

\* An installed runtime is never lost, whatever fails and whoever dies (java.py 324-325).
THEOREM RuntimeAlwaysKept == Spec => []RuntimeKept
<1>1. JdkInv => RuntimeKept
  BY DEF JdkInv, SafeInv, RuntimeKept
<1>2. QED
  BY <1>1, JdkSafe, PTL

------------------------------------------------------------------------------
\* Requests give an answer in these steps only.
LEMMA Ending ==
    ASSUME JdkInv, Next, NEW o \in Op, NEW R \in {{"failed"}, {"ok", "stale"}},
           o \in Installer, Ends(o, R)
    PROVE  \/ R = {"failed"} /\ (UndoClean(o) \/ Stage(o))
           \/ R = {"ok", "stale"} /\ (Commit(o) \/ DropOld(o))
<1>1. PICK q \in Op : (q \in Installer /\ Install(q)) \/ (q \in Remover /\ Uninstall(q))
  <2>1. ~\E a \in App : OperatorStart(a) \/ OperatorStop(a) \/ OperatorPin(a)
    BY DEF Ends, OperatorStart, OperatorStop, OperatorPin
  <2>2. QED
    BY <2>1, Names DEF Next
<1>2. q = o
  <2>1. CASE q \in Installer /\ Install(q)
    BY <2>1 DEF JdkInv, TypeOK, Ends, Install, Acquire, Busy, Dies, Stage, Extract, Verify,
       FindLive, StopDependent, Stopped, SwapOut, SwapIn, Prove, StartDependent, Commit,
       DropOld, UndoStop, UndoTree, UndoStart, UndoClean
  <2>2. CASE q \in Remover /\ Uninstall(q)
    BY <2>2 DEF JdkInv, TypeOK, Ends, Uninstall, Acquire, Busy, Dies, Gate, TakeDown, Remove
  <2>3. QED
    BY <1>1, <2>1, <2>2
<1>3. Install(o)
  BY <1>1, <1>2, Names
<1>4. CASE R = {"failed"}
  BY <1>3, <1>4 DEF JdkInv, TypeOK, Ends, Install, Acquire, Busy, Dies, Extract, Verify,
     FindLive, StopDependent, Stopped, SwapOut, SwapIn, Prove, StartDependent, Commit, DropOld,
     UndoStop, UndoTree, UndoStart
<1>5. CASE R = {"ok", "stale"}
  BY <1>3, <1>5 DEF JdkInv, TypeOK, Ends, Install, Acquire, Busy, Dies, Stage, Extract, Verify,
     FindLive, StopDependent, Stopped, SwapOut, SwapIn, Prove, StartDependent, UndoClean,
     UndoStop, UndoTree, UndoStart
<1>6. QED
  BY <1>4, <1>5

\* A failed update that says nothing of an incomplete rollback is undone, but for an app
\* whose very stop failed (java.py 210-213, 272-274, 346-347).
THEOREM FailuresRestore == Spec => FailureRestores
<1> DEFINE Restored(o) ==
          /\ dest' = before[o].dest /\ old' = before[o].old
          /\ staging' \in {"none", before[o].staging}
          /\ Running(jvm') \ touched \subseteq Running(before[o].jvm)
          /\ Running(before[o].jvm) \ (touched \cup doubt) \subseteq Running(jvm')
           Restores == \A o \in Installer : Ends(o, {"failed"}) => Restored(o)
<1>1. JdkInv /\ [Next]_vars => [Restores]_vars
  <2> SUFFICES ASSUME JdkInv, Next, NEW o \in Installer, Ends(o, {"failed"})
               PROVE  Restored(o)
    OBVIOUS
  <2>1. o \in Op /\ (UndoClean(o) \/ Stage(o))
    BY Ending, Names
  <2>2. CASE UndoClean(o)
    <3>1. pc[o] = "undo_clean" /\ ~errors[o] /\ staging' = "none"
      BY <2>1, <2>2 DEF JdkInv, TypeOK, Ends, UndoClean
    <3>2. dest' = before[o].dest /\ old' = before[o].old
      BY <2>1, <2>2, <3>1 DEF JdkInv, Own, TreeInv, Undone, UndoClean
    <3>3. jvm' = jvm
      BY <2>2 DEF UndoClean
    <3>4. \A a \in App \ touched :
             /\ jvm[a] # "none" => before[o].jvm[a] # "none"
             /\ before[o].jvm[a] # "none" => jvm[a] # "none" \/ a \in doubt
      BY <2>1, <3>1 DEF JdkInv, Own, ServiceInv, AppInv, InstallPC
    <3>5. QED
      BY <3>1, <3>2, <3>3, <3>4 DEF Running
  <2>3. CASE Stage(o)
    <3>1. pc[o] = "stage" /\ staging' = staging
      BY <2>1, <2>3 DEF JdkInv, TypeOK, Ends, Stage
    <3>2. dest' = before[o].dest /\ old' = before[o].old /\ staging' = before[o].staging
      BY <2>1, <2>3, <3>1 DEF JdkInv, Own, StageInv, TreeInv, InstallPC, Undone, Stage
    <3>3. jvm' = jvm
      BY <2>3 DEF Stage
    <3>4. \A a \in App \ touched : jvm[a] = before[o].jvm[a]
      BY <2>1, <3>1 DEF JdkInv, Own, ServiceInv, StopInv, AppInv, Forward, InstallPC
    <3>5. QED
      BY <3>2, <3>3, <3>4 DEF Running
  <2>4. QED
    BY <2>1, <2>2, <2>3
<1>2. QED
  BY <1>1, JdkSafe, PTL DEF Spec, FailureRestores

\* An update moves the running apps of its runtime to the new tree, and no other app
\* (java.py 211-213, 290-291).
THEOREM UpdatesKeepServices == Spec => UpdateKeepsServices
<1> DEFINE Keeps ==
       \A o \in Installer : Ends(o, {"ok", "stale"}) /\ hadLive[o] =>
          \A a \in App \ touched :
              jvm'[a] = IF before[o].jvm[a] # "none" /\ a \in pinned THEN dest'
                        ELSE before[o].jvm[a]
<1>1. JdkInv /\ [Next]_vars => [Keeps]_vars
  <2> SUFFICES ASSUME JdkInv, Next, NEW o \in Installer, Ends(o, {"ok", "stale"}), hadLive[o],
                      NEW a \in App \ touched
               PROVE  jvm'[a] = IF before[o].jvm[a] # "none" /\ a \in pinned THEN dest'
                                ELSE before[o].jvm[a]
    OBVIOUS
  <2>1. DropOld(o) /\ o \in Op
    <3>1. o \in Op /\ (Commit(o) \/ DropOld(o))
      BY Ending, Names
    <3>2. ~Commit(o)
      BY <3>1 DEF JdkInv, TypeOK, Ends, Commit
    <3>3. QED
      BY <3>1, <3>2
  <2>2. pc[o] = "clean" /\ jvm' = jvm /\ dest' = dest
    BY <2>1 DEF DropOld
  <2>3. AppInv(o, a) /\ StopInv(o)
    BY <2>1 DEF JdkInv, Own, ServiceInv
  <2>4. QED
    BY <2>2, <2>3 DEF AppInv, StopInv, Forward, InstallPC
<1>2. QED
  BY <1>1, JdkSafe, PTL DEF Spec, UpdateKeepsServices

\* An unforced uninstall removes no runtime under an app that was there when it looked
\* (java.py 446-447).
THEOREM PinsAlwaysRespected == Spec => PinsRespected
<1> DEFINE Respects ==
       \A o \in Remover : pc[o] = "remove" /\ dest' # dest /\ ~force[o] => pinned \subseteq touched
<1>1. JdkInv => Respects
  BY Names DEF JdkInv, Own, GateInv
<1>2. QED
  BY <1>1, JdkSafe, PTL DEF Spec, PinsRespected

===============================================================================
