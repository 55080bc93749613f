----------------------------- MODULE TomcatProofs -----------------------------
(***************************************************************************)
(* What holds of the shared Tomcat home (core/tomcat/installer.py) for any *)
(* number of requests, apps and faults: of requests that do not overlap,   *)
(* the staging directory and the two renames; of all, what a forced        *)
(* uninstall knows of the services when it removes.                        *)
(***************************************************************************)
EXTENDS TomcatInstall, TLAPS

\* Requests that have never overlapped work one at a time.
AloneInv == alone => \A p, q \in Op : Busy(p) /\ Busy(q) => p = q

\* Requests that have never overlapped keep a complete home, live or beside it.
HomeInv ==
    alone /\ owned => /\ dest # "partial"
                      /\ dest \in Release \/ old \in Release

\* What an install that nobody disturbs has staged, and what it has found.
StageInv(o) ==
    alone =>
        /\ pc[o] \in {"finish", "look", "dropold", "swapout", "swapin", "movein"} => staging = o
        /\ pc[o] \in {"dropold", "swapout"} => dest # "none"
        /\ pc[o] = "cleanup" => dest \in Release

\* A running app is one the uninstall has still to stop, or one started since.
DownInv(o) ==
    /\ pc[o] = "stop" => up \subseteq todo[o] \cup late[o]
    /\ pc[o] = "remove" => up \subseteq late[o]

TomcatInv ==
    /\ TypeOK /\ AloneInv /\ HomeInv
    /\ \A o \in Installer : StageInv(o)
    /\ \A o \in Remover : DownInv(o)

------------------------------------------------------------------------------
\* Names that stand for no tree are not releases, and a request is of one kind.
LEMMA Names == /\ \A x \in Release : x \notin {"none", "partial"}
               /\ Installer \subseteq Op /\ Remover \subseteq Op
               /\ \A o \in Installer : o \notin Remover /\ o \in Release
BY OpsAssumption DEF Release, Op

\* The initial states satisfy the invariant.
LEMMA TomcatInitial == Init => TomcatInv
<1> SUFFICES ASSUME Init PROVE TomcatInv
  OBVIOUS
<1>1. TypeOK
  BY DEF Init, TypeOK, Tree, Release
<1>2. AloneInv /\ HomeInv
  BY Names DEF Init, AloneInv, HomeInv, Busy, InstallPC, RemovePC, Release
<1>3. (\A o \in Installer : StageInv(o)) /\ (\A o \in Remover : DownInv(o))
  BY Names DEF Init, StageInv, DownInv
<1>4. QED
  BY <1>1, <1>2, <1>3 DEF TomcatInv

\* A step of a request that is busy has its own part of the invariant to keep: when nothing
\* overlaps nobody else is busy, and it starts no app.
LEMMA OwnStep ==
    ASSUME TomcatInv, TypeOK', HomeInv',
           NEW o \in Op, Busy(o),
           o \in Installer => StageInv(o)', o \in Remover => DownInv(o)',
           \A q \in Op \ {o} : pc'[q] = pc[q] /\ todo'[q] = todo[q],
           up' \subseteq up, UNCHANGED <<late, alone>>
    PROVE  TomcatInv'
<1>1. AloneInv'
  BY DEF TomcatInv, AloneInv, Busy
<1>2. ASSUME NEW q \in Installer, q # o PROVE StageInv(q)'
  <2>1. alone => ~Busy(q)
    BY <1>2, Names DEF TomcatInv, AloneInv
  <2>2. QED
    BY <1>2, <2>1, Names DEF StageInv, Busy, InstallPC
<1>3. ASSUME NEW q \in Remover, q # o PROVE DownInv(q)'
  BY <1>3, Names DEF TomcatInv, DownInv
<1>4. QED
  BY <1>1, <1>2, <1>3 DEF TomcatInv

------------------------------------------------------------------------------
\* How a step is written: where it goes next, and what it leaves alone.
USE DEF Goto, diskVars, histVars

LEMMA StageKeeps == ASSUME TomcatInv, NEW o \in Installer, Stage(o) PROVE TomcatInv'
<1>1. o \in Op /\ Busy(o) /\ TypeOK /\ HomeInv /\ StageInv(o)
  BY Names DEF TomcatInv, Busy, InstallPC, Stage, Try
<1>2. /\ UNCHANGED <<up, todo, late, alone>>
      /\ \A q \in Op \ {o} : pc'[q] = pc[q]
  BY DEF TomcatInv, TypeOK, Stage, Try, Went
<1>3. TypeOK'
  BY <1>1, Names DEF TypeOK, Tree, InstallPC, Answer, Stage, Try, Went
<1>4. HomeInv'
  BY <1>1, Names DEF TypeOK, Tree, HomeInv, StageInv, Stage, Try, Went
<1>5. StageInv(o)'
  BY <1>1, Names DEF TypeOK, Tree, HomeInv, StageInv, Stage, Try, Went
<1>6. QED
  BY <1>1, <1>2, <1>3, <1>4, <1>5, Names, OwnStep

LEMMA ExtractKeeps == ASSUME TomcatInv, NEW o \in Installer, Extract(o) PROVE TomcatInv'
<1>1. o \in Op /\ Busy(o) /\ TypeOK /\ HomeInv /\ StageInv(o)
  BY Names DEF TomcatInv, Busy, InstallPC, Extract, Try
<1>2. /\ UNCHANGED <<up, todo, late, alone>>
      /\ \A q \in Op \ {o} : pc'[q] = pc[q]
  BY DEF TomcatInv, TypeOK, Extract, Try, Went
<1>3. TypeOK'
  BY <1>1, Names DEF TypeOK, Tree, InstallPC, Answer, Extract, Try, Went
<1>4. HomeInv'
  BY <1>1, Names DEF TypeOK, Tree, HomeInv, StageInv, Extract, Try, Went
<1>5. StageInv(o)'
  BY <1>1, Names DEF TypeOK, Tree, HomeInv, StageInv, Extract, Try, Went
<1>6. QED
  BY <1>1, <1>2, <1>3, <1>4, <1>5, Names, OwnStep

LEMMA FinishKeeps == ASSUME TomcatInv, NEW o \in Installer, Finish(o) PROVE TomcatInv'
<1>1. o \in Op /\ Busy(o) /\ TypeOK /\ HomeInv /\ StageInv(o)
  BY Names DEF TomcatInv, Busy, InstallPC, Finish, Try
<1>2. /\ UNCHANGED <<up, todo, late, alone>>
      /\ \A q \in Op \ {o} : pc'[q] = pc[q]
  BY DEF TomcatInv, TypeOK, Finish, Try, Went
<1>3. TypeOK'
  BY <1>1, Names DEF TypeOK, Tree, InstallPC, Answer, Finish, Try, Went
<1>4. HomeInv'
  BY <1>1, Names DEF TypeOK, Tree, HomeInv, StageInv, Finish, Try, Went
<1>5. StageInv(o)'
  BY <1>1, Names DEF TypeOK, Tree, HomeInv, StageInv, Finish, Try, Went
<1>6. QED
  BY <1>1, <1>2, <1>3, <1>4, <1>5, Names, OwnStep

LEMMA StagingGoneKeeps == ASSUME TomcatInv, NEW o \in Installer, StagingGone(o) PROVE TomcatInv'
<1>1. o \in Op /\ Busy(o) /\ TypeOK /\ HomeInv /\ StageInv(o)
  BY Names DEF TomcatInv, Busy, InstallPC, StagingGone
<1>2. /\ UNCHANGED <<up, todo, late, alone>>
      /\ \A q \in Op \ {o} : pc'[q] = pc[q]
  BY DEF TomcatInv, TypeOK, StagingGone
<1>3. TypeOK'
  BY <1>1, Names DEF TypeOK, Tree, InstallPC, Answer, StagingGone
<1>4. HomeInv'
  BY <1>1, Names DEF TypeOK, Tree, HomeInv, StageInv, StagingGone
<1>5. StageInv(o)'
  BY <1>1, Names DEF TypeOK, Tree, HomeInv, StageInv, StagingGone
<1>6. QED
  BY <1>1, <1>2, <1>3, <1>4, <1>5, Names, OwnStep

LEMMA LookKeeps == ASSUME TomcatInv, NEW o \in Installer, Look(o) PROVE TomcatInv'
<1>1. o \in Op /\ Busy(o) /\ TypeOK /\ HomeInv /\ StageInv(o)
  BY Names DEF TomcatInv, Busy, InstallPC, Look
<1>2. /\ UNCHANGED <<up, todo, late, alone>>
      /\ \A q \in Op \ {o} : pc'[q] = pc[q]
  BY DEF TomcatInv, TypeOK, Look
<1>3. TypeOK'
  BY <1>1, Names DEF TypeOK, Tree, InstallPC, Answer, Look
<1>4. HomeInv'
  BY <1>1, Names DEF TypeOK, Tree, HomeInv, StageInv, Look
<1>5. StageInv(o)'
  BY <1>1, Names DEF TypeOK, Tree, HomeInv, StageInv, Look
<1>6. QED
  BY <1>1, <1>2, <1>3, <1>4, <1>5, Names, OwnStep

LEMMA DropOldKeeps == ASSUME TomcatInv, NEW o \in Installer, DropOld(o) PROVE TomcatInv'
<1>1. o \in Op /\ Busy(o) /\ TypeOK /\ HomeInv /\ StageInv(o)
  BY Names DEF TomcatInv, Busy, InstallPC, DropOld, Try
<1>2. /\ UNCHANGED <<up, todo, late, alone>>
      /\ \A q \in Op \ {o} : pc'[q] = pc[q]
  BY DEF TomcatInv, TypeOK, DropOld, Try, Went
<1>3. TypeOK'
  BY <1>1, Names DEF TypeOK, Tree, InstallPC, Answer, DropOld, Try, Went
<1>4. HomeInv'
  BY <1>1, Names DEF TypeOK, Tree, HomeInv, StageInv, DropOld, Try, Went
<1>5. StageInv(o)'
  BY <1>1, Names DEF TypeOK, Tree, HomeInv, StageInv, DropOld, Try, Went
<1>6. QED
  BY <1>1, <1>2, <1>3, <1>4, <1>5, Names, OwnStep

LEMMA SwapOutKeeps == ASSUME TomcatInv, NEW o \in Installer, SwapOut(o) PROVE TomcatInv'
<1>1. o \in Op /\ Busy(o) /\ TypeOK /\ HomeInv /\ StageInv(o)
  BY Names DEF TomcatInv, Busy, InstallPC, SwapOut, Try
<1>2. /\ UNCHANGED <<up, todo, late, alone>>
      /\ \A q \in Op \ {o} : pc'[q] = pc[q]
  BY DEF TomcatInv, TypeOK, SwapOut, Try, Went
<1>3. TypeOK'
  BY <1>1, Names DEF TypeOK, Tree, InstallPC, Answer, SwapOut, Try, Went
<1>4. HomeInv'
  BY <1>1, Names DEF TypeOK, Tree, HomeInv, StageInv, SwapOut, Try, Went
<1>5. StageInv(o)'
  BY <1>1, Names DEF TypeOK, Tree, HomeInv, StageInv, SwapOut, Try, Went
<1>6. QED
  BY <1>1, <1>2, <1>3, <1>4, <1>5, Names, OwnStep

LEMMA SwapRaisesKeeps == ASSUME TomcatInv, NEW o \in Installer, SwapRaises(o) PROVE TomcatInv'
<1>1. o \in Op /\ Busy(o) /\ TypeOK /\ HomeInv /\ StageInv(o)
  BY Names DEF TomcatInv, Busy, InstallPC, SwapRaises
<1>2. /\ UNCHANGED <<up, todo, late, alone>>
      /\ \A q \in Op \ {o} : pc'[q] = pc[q]
  BY DEF TomcatInv, TypeOK, SwapRaises
<1>3. TypeOK'
  BY <1>1, Names DEF TypeOK, Tree, InstallPC, Answer, SwapRaises
<1>4. HomeInv'
  BY <1>1, Names DEF TypeOK, Tree, HomeInv, StageInv, SwapRaises
<1>5. StageInv(o)'
  BY <1>1, Names DEF TypeOK, Tree, HomeInv, StageInv, SwapRaises
<1>6. QED
  BY <1>1, <1>2, <1>3, <1>4, <1>5, Names, OwnStep

LEMMA SwapInKeeps == ASSUME TomcatInv, NEW o \in Installer, SwapIn(o) PROVE TomcatInv'
<1>1. o \in Op /\ Busy(o) /\ TypeOK /\ HomeInv /\ StageInv(o)
  BY Names DEF TomcatInv, Busy, InstallPC, SwapIn
<1>2. /\ UNCHANGED <<up, todo, late, alone>>
      /\ \A q \in Op \ {o} : pc'[q] = pc[q]
  BY DEF TomcatInv, TypeOK, SwapIn
<1>3. TypeOK'
  BY <1>1, Names DEF TypeOK, Tree, InstallPC, Answer, SwapIn
<1>4. HomeInv'
  <2>1. CASE dest' = staging /\ pc[o] \in {"swapin", "movein"}
    BY <1>1, <1>2, <2>1, Names DEF HomeInv, StageInv
  <2>2. CASE UNCHANGED <<dest, old, owned>>
    BY <1>1, <1>2, <2>2 DEF HomeInv
  <2>3. QED
    BY <2>1, <2>2 DEF SwapIn
<1>5. StageInv(o)'
  BY <1>1, Names DEF TypeOK, Tree, HomeInv, StageInv, SwapIn
<1>6. QED
  BY <1>1, <1>2, <1>3, <1>4, <1>5, Names, OwnStep

LEMMA CleanupKeeps == ASSUME TomcatInv, NEW o \in Installer, Cleanup(o) PROVE TomcatInv'
<1>1. o \in Op /\ Busy(o) /\ TypeOK /\ HomeInv /\ StageInv(o)
  BY Names DEF TomcatInv, Busy, InstallPC, Cleanup, Try
<1>2. /\ UNCHANGED <<up, todo, late, alone>>
      /\ \A q \in Op \ {o} : pc'[q] = pc[q]
  BY DEF TomcatInv, TypeOK, Cleanup, Try, Went
<1>3. TypeOK'
  BY <1>1, Names DEF TypeOK, Tree, InstallPC, Answer, Cleanup, Try, Went
<1>4. HomeInv'
  BY <1>1, Names DEF TypeOK, Tree, HomeInv, StageInv, Cleanup, Try, Went
<1>5. StageInv(o)'
  BY <1>1, Names DEF TypeOK, Tree, HomeInv, StageInv, Cleanup, Try, Went
<1>6. QED
  BY <1>1, <1>2, <1>3, <1>4, <1>5, Names, OwnStep

LEMMA DiscardKeeps == ASSUME TomcatInv, NEW o \in Installer, Discard(o) PROVE TomcatInv'
<1>1. o \in Op /\ Busy(o) /\ TypeOK /\ HomeInv /\ StageInv(o)
  BY Names DEF TomcatInv, Busy, InstallPC, Discard
<1>2. /\ UNCHANGED <<up, todo, late, alone>>
      /\ \A q \in Op \ {o} : pc'[q] = pc[q]
  BY DEF TomcatInv, TypeOK, Discard
<1>3. TypeOK'
  BY <1>1, Names DEF TypeOK, Tree, InstallPC, Answer, Discard
<1>4. HomeInv'
  BY <1>1, Names DEF TypeOK, Tree, HomeInv, StageInv, Discard
<1>5. StageInv(o)'
  BY <1>1, Names DEF TypeOK, Tree, HomeInv, StageInv, Discard
<1>6. QED
  BY <1>1, <1>2, <1>3, <1>4, <1>5, Names, OwnStep

LEMMA GateKeeps == ASSUME TomcatInv, NEW o \in Remover, Gate(o) PROVE TomcatInv'
<1>1. o \in Op /\ Busy(o) /\ TypeOK /\ HomeInv /\ DownInv(o)
  BY Names DEF TomcatInv, Busy, RemovePC, Gate
<1>2. /\ up' \subseteq up /\ UNCHANGED <<late, alone>>
      /\ \A q \in Op \ {o} : pc'[q] = pc[q] /\ todo'[q] = todo[q]
  BY DEF TomcatInv, TypeOK, Gate
<1>3. TypeOK'
  BY <1>1, Names DEF TypeOK, Tree, RemovePC, Answer, Gate
<1>4. HomeInv'
  BY <1>1 DEF HomeInv, Gate
<1>5. DownInv(o)'
  BY <1>1 DEF TypeOK, DownInv, Gate
<1>6. QED
  BY <1>1, <1>2, <1>3, <1>4, <1>5, Names, OwnStep

LEMMA StopDependentKeeps == ASSUME TomcatInv, NEW o \in Remover, StopDependent(o) PROVE TomcatInv'
<1>1. o \in Op /\ Busy(o) /\ TypeOK /\ HomeInv /\ DownInv(o)
  BY Names DEF TomcatInv, Busy, RemovePC, StopDependent
<1>2. /\ up' \subseteq up /\ UNCHANGED <<late, alone>>
      /\ \A q \in Op \ {o} : pc'[q] = pc[q] /\ todo'[q] = todo[q]
  BY DEF TomcatInv, TypeOK, StopDependent
<1>3. TypeOK'
  BY <1>1, Names DEF TypeOK, Tree, RemovePC, Answer, StopDependent
<1>4. HomeInv'
  BY <1>1 DEF HomeInv, StopDependent
<1>5. DownInv(o)'
  BY <1>1 DEF TypeOK, DownInv, StopDependent
<1>6. QED
  BY <1>1, <1>2, <1>3, <1>4, <1>5, Names, OwnStep

LEMMA RemoveKeeps == ASSUME TomcatInv, NEW o \in Remover, Remove(o) PROVE TomcatInv'
<1>1. o \in Op /\ Busy(o) /\ TypeOK /\ HomeInv /\ DownInv(o)
  BY Names DEF TomcatInv, Busy, RemovePC, Remove
<1>2. /\ up' \subseteq up /\ UNCHANGED <<late, alone>>
      /\ \A q \in Op \ {o} : pc'[q] = pc[q] /\ todo'[q] = todo[q]
  BY DEF TomcatInv, TypeOK, Remove
<1>3. TypeOK'
  BY <1>1, Names DEF TypeOK, Tree, RemovePC, Answer, Remove
<1>4. HomeInv'
  BY <1>1 DEF HomeInv, Remove
<1>5. DownInv(o)'
  BY <1>1 DEF TypeOK, DownInv, Remove
<1>6. QED
  BY <1>1, <1>2, <1>3, <1>4, <1>5, Names, OwnStep

\* A request that begins while another one is busy ends the history of being alone.
LEMMA BeginKeeps == ASSUME TomcatInv, NEW o \in Op, Begin(o) PROVE TomcatInv'
<1>1. TypeOK'
  BY DEF TomcatInv, TypeOK, Begin, InstallPC, RemovePC
<1>2. pc'[o] \in {"stage", "gate"} /\ \A q \in Op \ {o} : pc'[q] = pc[q]
  BY DEF TomcatInv, TypeOK, Begin
<1>3. AloneInv'
  BY <1>2 DEF AloneInv, Begin, Busy
<1>4. HomeInv'
  BY DEF TomcatInv, HomeInv, Begin
<1>5. ASSUME NEW q \in Installer PROVE StageInv(q)'
  BY <1>2, Names DEF TomcatInv, StageInv, Begin
<1>6. ASSUME NEW q \in Remover PROVE DownInv(q)'
  BY <1>2, Names DEF TomcatInv, DownInv, Begin
<1>7. QED
  BY <1>1, <1>3, <1>4, <1>5, <1>6 DEF TomcatInv

\* A request that dies leaves everything as it is.
LEMMA DiesKeeps == ASSUME TomcatInv, NEW o \in Op, Dies(o) PROVE TomcatInv'
<1>1. TypeOK' /\ HomeInv'
  BY DEF TomcatInv, TypeOK, HomeInv, Answer, Dies
<1>2. pc'[o] = "dead" /\ \A q \in Op \ {o} : pc'[q] = pc[q]
  BY DEF TomcatInv, TypeOK, Dies
<1>3. StageInv(o)' /\ DownInv(o)'
  BY <1>2 DEF StageInv, DownInv
<1>4. QED
  BY <1>1, <1>2, <1>3, OwnStep DEF Dies

\* An operator starts an app that every uninstall then knows to be late, or stops one.
LEMMA OperatorKeeps ==
    ASSUME TomcatInv, NEW a \in App, OperatorStart(a) \/ OperatorStop(a)
    PROVE  TomcatInv'
<1>1. TypeOK'
  BY DEF TomcatInv, TypeOK, OperatorStart, OperatorStop
<1>2. UNCHANGED <<diskVars, pc, todo, owned, alone>>
  BY DEF OperatorStart, OperatorStop
<1>3. AloneInv' /\ HomeInv'
  BY <1>2 DEF TomcatInv, AloneInv, HomeInv, Busy
<1>4. ASSUME NEW q \in Installer PROVE StageInv(q)'
  BY <1>2 DEF TomcatInv, StageInv
<1>5. ASSUME NEW q \in Remover PROVE DownInv(q)'
  BY DEF TomcatInv, TypeOK, DownInv, OperatorStart, OperatorStop
<1>6. QED
  BY <1>1, <1>3, <1>4, <1>5 DEF TomcatInv

------------------------------------------------------------------------------
LEMMA TomcatStep == ASSUME TomcatInv, [Next]_vars PROVE TomcatInv'
<1>1. ASSUME NEW o \in Installer, Install(o) PROVE TomcatInv'
  BY <1>1, Names, BeginKeeps, DiesKeeps, StageKeeps, ExtractKeeps, FinishKeeps,
     StagingGoneKeeps, LookKeeps, DropOldKeeps, SwapOutKeeps, SwapRaisesKeeps, SwapInKeeps,
     CleanupKeeps, DiscardKeeps DEF Install
<1>2. ASSUME NEW o \in Remover, Uninstall(o) PROVE TomcatInv'
  BY <1>2, Names, BeginKeeps, DiesKeeps, GateKeeps, StopDependentKeeps, RemoveKeeps
     DEF Uninstall
<1>3. CASE UNCHANGED vars
  BY <1>3 DEF vars, TomcatInv, TypeOK, AloneInv, HomeInv, StageInv, DownInv, Busy
<1>4. QED
  BY <1>1, <1>2, <1>3, OperatorKeeps DEF Next

\* Types, and what requests know at each step.
THEOREM TomcatSafe == Spec => []TomcatInv
BY TomcatInitial, TomcatStep, PTL DEF Spec

\* Type correctness.
THEOREM TomcatTyped == Spec => []TypeOK
<1>1. TomcatInv => TypeOK
  BY DEF TomcatInv
<1>2. QED
  BY <1>1, TomcatSafe, PTL

\* Requests that do not overlap put no partial tree live (installer.py 7-8).
THEOREM LiveAlwaysComplete == Spec => []LiveIsComplete
<1>1. TomcatInv => LiveIsComplete
  BY DEF TomcatInv, HomeInv, LiveIsComplete
<1>2. QED
  BY <1>1, TomcatSafe, PTL

\* Requests that do not overlap never lose the installed home.
THEOREM HomeAlwaysKept == Spec => []HomeKept
<1>1. TomcatInv => HomeKept
  BY DEF TomcatInv, HomeInv, HomeKept
<1>2. QED
  BY <1>1, TomcatSafe, PTL

\* A forced uninstall removes the home only when every dependent is down, but for those
\* started since it looked; overlapping requests included (installer.py 161-162, 185-188).
THEOREM OnlyRemovedWhenDown == Spec => RemovedOnlyWhenDown
<1>1. TomcatInv => \A o \in Remover : pc[o] = "remove" /\ dest' # dest => up \subseteq late[o]
  BY DEF TomcatInv, DownInv
<1>2. QED
  BY <1>1, TomcatSafe, PTL DEF Spec, RemovedOnlyWhenDown

===============================================================================
