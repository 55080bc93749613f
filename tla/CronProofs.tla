------------------------------ MODULE CronProofs ------------------------------
(***************************************************************************)
(* Two results, for any number of requests and any set of faults.         *)
(*                                                                         *)
(* CronInv: no request leaves a hardened path open (immutable.py and the   *)
(* two writers of cron files).  Whoever takes the bit off a path has noted *)
(* that before, and forgets it only after setting the bit again; a path    *)
(* whose file is new or gone has lost its bit only when the host did not   *)
(* want it, because nobody can replace a file that carries it.             *)
(*                                                                         *)
(* FollowInv: config.json is whole until two requests share its temporary  *)
(* file, and the cron files follow what requests that do not overlap have  *)
(* stored (config.py, schedule.py, remote.py, logrotate.py).               *)
(***************************************************************************)
EXTENDS CronFiles, TLAPS

Dest    == {"local"} \cup Profile
Setting == [mh : BOOLEAN, log : When \cup {"torn", "missing"}, api : {"none"} \cup Request]
Work    == [conf : Setting, profiles : SUBSET Profile, sched : [App -> SUBSET Dest],
            file : {"backups", "rotate"}, mh : BOOLEAN, seen : SUBSET CronPath,
            lifted : SUBSET CronPath, stuck : SUBSET CronPath, ok : BOOLEAN]

CronOps ==
    [do : {"none", "setapi"}] \cup [do : {"setlog"}, when : When]
    \cup [do : {"addprof"}, profile : Profile]
    \cup [do : {"delprof"}, profile : Profile, force : BOOLEAN]
    \cup [do : {"setsched"}, app : App, remotes : SUBSET Profile]
    \cup [do : {"rmsched"}, app : App]

\* Labels before a request lifts anything, and all of them.
Early  == {"idle", "cread", "copen", "cwrite", "creplace", "pread", "psave", "sread", "swrite",
           "render", "lookdir", "liftdir"}
Labels == Early \cup Answer \cup {"lookfile", "liftfile", "write", "lockfile", "lockdir"}

CronTypeOK ==
    /\ pc \in [Request -> Labels] /\ op \in [Request -> CronOps]
    /\ conf \in Setting /\ ctmp \in Setting
    /\ profiles \subseteq Profile
    /\ sched \in [App -> SUBSET Dest]
    /\ bits \subseteq CronPath /\ hard \subseteq CronPath
    /\ work \in [Request -> Work]

\* What a request has noted as lifted, and what it has seen and is about to lift.
LiftInv ==
    \A r \in Request :
        /\ pc[r] \in Early => work[r].lifted = {}
        /\ pc[r] \in {"lookfile", "liftfile"} => work[r].lifted \subseteq {"dir"}
        /\ pc[r] \in {"write", "lockfile"} => work[r].lifted \subseteq {"dir", work[r].file}
        /\ pc[r] = "lockdir" => work[r].lifted \subseteq {"dir"} \cup work[r].stuck
        /\ pc[r] \in {"done", "failed", "refused"} => work[r].lifted \subseteq work[r].stuck
        /\ pc[r] = "liftdir" => work[r].seen \subseteq {"dir"}
        /\ pc[r] = "liftfile" => work[r].seen \subseteq {work[r].file}

\* The host wants the bit on files that are there.
WantedInv == \A f \in {"backups", "rotate"} : f \in hard => Exists(f)

\* A path that should carry the bit does, or somebody has noted that he lifted it.
NotedInv == \A p \in hard : p \in bits \/ \E r \in Request : p \in work[r].lifted

CronInv == CronTypeOK /\ LiftInv /\ WantedInv /\ NotedInv
------------------------------------------------------------------------------
\* Settings, schedules and requests are what their names say.
LEMMA OpsAsked ==
    /\ [do |-> "none"] \in CronOps /\ [do |-> "setapi"] \in CronOps
    /\ \A w \in When : [do |-> "setlog", when |-> w] \in CronOps
    /\ \A p \in Profile : [do |-> "addprof", profile |-> p] \in CronOps
    /\ \A p \in Profile, f \in BOOLEAN : [do |-> "delprof", profile |-> p, force |-> f] \in CronOps
    /\ \A a \in App, s \in SUBSET Profile : [do |-> "setsched", app |-> a, remotes |-> s] \in CronOps
    /\ \A a \in App : [do |-> "rmsched", app |-> a] \in CronOps
BY DEF CronOps

LEMMA OpsFields ==
    ASSUME NEW o \in CronOps
    PROVE  /\ o.do = "setlog" => o.when \in When
           /\ o.do = "setsched" => o.remotes \subseteq Profile
           /\ o.do \in {"addprof", "delprof"} => o.profile \in Profile
BY DEF CronOps

LEMMA SettingsTyped ==
    /\ Torn \in Setting /\ Defaults \in Setting /\ Missing \in Setting
    /\ \A c \in Setting : Parsed(c) \in Setting
BY DEF Torn, Defaults, Missing, Setting, When, Parsed

LEMMA UpdatedTyped ==
    ASSUME NEW r \in Request, op[r] \in CronOps, NEW c \in Setting
    PROVE  Updated(c, r) \in Setting
<1>1. CASE op[r].do = "setlog"
  BY <1>1, OpsFields DEF Updated, Setting
<1>2. CASE op[r].do # "setlog"
  BY <1>2 DEF Updated, Setting
<1>3. QED
  BY <1>1, <1>2

LEMMA RescheduledTyped ==
    ASSUME NEW r \in Request, op[r] \in CronOps, NEW s \in [App -> SUBSET Dest]
    PROVE  Rescheduled(r, s) \in [App -> SUBSET Dest]
BY OpsFields DEF Rescheduled, Dest

\* The initial states satisfy the invariant.
LEMMA CronInitial == CronInit => CronInv
<1> SUFFICES ASSUME CronInit PROVE CronInv
  OBVIOUS
<1>1. CronTypeOK
  <2>1. conf \in Setting /\ ctmp \in Setting
    BY SettingsTyped DEF CronInit, Setting
  <2>2. NoWork \in Work
    BY SettingsTyped DEF NoWork, Work, Dest, CronPath
  <2>3. sched \in [App -> SUBSET Dest]
    BY DEF CronInit, Dest
  <2>4. hard \subseteq CronPath /\ bits \subseteq CronPath
    BY DEF CronInit, CronPath
  <2>5. pc \in [Request -> Labels] /\ op \in [Request -> CronOps]
    BY OpsAsked DEF CronInit, NoRequest, Labels, Early
  <2>6. QED
    BY <2>1, <2>2, <2>3, <2>4, <2>5 DEF CronInit, CronTypeOK
<1>2. LiftInv
  BY DEF CronInit, NoRequest, NoWork, LiftInv
<1>3. WantedInv /\ NotedInv
  BY DEF CronInit, WantedInv, NotedInv, Exists
<1>4. QED
  BY <1>1, <1>2, <1>3 DEF CronInv

------------------------------------------------------------------------------
\* Before a request lifts anything its steps cannot touch a cron file.
LEMMA EarlyStep ==
    ASSUME CronInv, CronTypeOK', UNCHANGED <<bits, hard, cron, logcron>>,
           NEW r \in Request, pc[r] \in Early,
           NEW l \in (Early \ {"liftdir"}) \cup {"done", "failed", "refused"},
           pc' = [pc EXCEPT ![r] = l],
           NEW w \in Work, w.lifted = {}, work' = [work EXCEPT ![r] = w]
    PROVE  CronInv'
<1>1. LiftInv'
  BY DEF CronInv, CronTypeOK, LiftInv, Early
<1>2. WantedInv'
  BY DEF CronInv, WantedInv, Exists
<1>3. NotedInv'
  BY DEF CronInv, CronTypeOK, LiftInv, NotedInv
<1>4. QED
  BY <1>1, <1>2, <1>3 DEF CronInv

\* Nor can one that leaves its locals alone.
LEMMA IdleStep ==
    ASSUME CronInv, CronTypeOK', UNCHANGED <<bits, hard, cron, logcron, work>>,
           NEW r \in Request, pc[r] \in Early,
           NEW l \in (Early \ {"liftdir"}) \cup {"done", "failed", "refused"},
           pc' = [pc EXCEPT ![r] = l]
    PROVE  CronInv'
<1>1. work[r] \in Work /\ work[r].lifted = {} /\ work = [work EXCEPT ![r] = work[r]]
  BY DEF CronInv, CronTypeOK, LiftInv
<1>2. QED
  BY <1>1, EarlyStep

\* Settings.
LEMMA OpenTmpKeeps ==
    ASSUME CronInv, NEW r \in Request, OpenTmp(r)
    PROVE  CronInv'
<1>1. CronTypeOK'
  BY SettingsTyped DEF CronInv, CronTypeOK, OpenTmp, Goto, Failing, Labels, Early, Answer
<1>2. pc[r] \in Early /\ \E l \in (Early \ {"liftdir"}) \cup {"done", "failed", "refused"} :
          pc' = [pc EXCEPT ![r] = l]
  BY DEF OpenTmp, Goto, Failing, Early
<1>3. QED
  BY <1>1, <1>2, IdleStep DEF OpenTmp

LEMMA WriteTmpKeeps ==
    ASSUME CronInv, NEW r \in Request, WriteTmp(r)
    PROVE  CronInv'
<1>1. Updated(work[r].conf, r) \in Setting
  BY UpdatedTyped DEF CronInv, CronTypeOK, Work, WriteTmp
<1>2. CronTypeOK'
  BY <1>1, SettingsTyped DEF CronInv, CronTypeOK, WriteTmp, Goto, Labels, Early
<1>3. QED
  BY <1>2, IdleStep DEF WriteTmp, Goto, Early

LEMMA WriteTmpFailsKeeps ==
    ASSUME CronInv, NEW r \in Request, WriteTmpFails(r)
    PROVE  CronInv'
<1>1. CronTypeOK'
  BY SettingsTyped DEF CronInv, CronTypeOK, WriteTmpFails, Goto, Failing, Labels, Early, Answer
<1>2. pc[r] \in Early /\ \E l \in (Early \ {"liftdir"}) \cup {"done", "failed", "refused"} :
          pc' = [pc EXCEPT ![r] = l]
  BY DEF WriteTmpFails, Goto, Failing, Early
<1>3. QED
  BY <1>1, <1>2, IdleStep DEF WriteTmpFails

LEMMA ReplaceConfigKeeps ==
    ASSUME CronInv, NEW r \in Request, ReplaceConfig(r)
    PROVE  CronInv'
<1>1. CronTypeOK'
  BY SettingsTyped DEF CronInv, CronTypeOK, ReplaceConfig, Goto, Failing, Labels, Early, Answer
<1>2. pc[r] \in Early /\ \E l \in (Early \ {"liftdir"}) \cup {"done", "failed", "refused"} :
          pc' = [pc EXCEPT ![r] = l]
  BY DEF ReplaceConfig, Goto, Failing, Early
<1>3. QED
  BY <1>1, <1>2, IdleStep DEF ReplaceConfig

\* Profiles and schedules.
LEMMA SaveProfilesKeeps ==
    ASSUME CronInv, NEW r \in Request, SaveProfiles(r)
    PROVE  CronInv'
<1>1. CronTypeOK'
  BY OpsFields DEF CronInv, CronTypeOK, SaveProfiles, Goto, Failing, Labels, Early, Answer, Work
<1>2. pc[r] \in Early /\ \E l \in (Early \ {"liftdir"}) \cup {"done", "failed", "refused"} :
          pc' = [pc EXCEPT ![r] = l]
  BY DEF SaveProfiles, Goto, Failing, Early
<1>3. QED
  BY <1>1, <1>2, IdleStep DEF SaveProfiles

LEMMA WriteSchedulesKeeps ==
    ASSUME CronInv, NEW r \in Request, WriteSchedules(r)
    PROVE  CronInv'
<1>1. CronTypeOK'
  BY DEF CronInv, CronTypeOK, WriteSchedules, Goto, Failing, Labels, Early, Answer, Work, Failed
<1>2. pc[r] \in Early /\ \E l \in (Early \ {"liftdir"}) \cup {"done", "failed", "refused"} :
          pc' = [pc EXCEPT ![r] = l]
  BY DEF WriteSchedules, Goto, Failing, Early, Failed
<1>3. QED
  BY <1>1, <1>2, IdleStep DEF WriteSchedules

LEMMA ReadConfigKeeps ==
    ASSUME CronInv, NEW r \in Request, ReadConfig(r)
    PROVE  CronInv'
<1> DEFINE w == [work[r] EXCEPT !.conf = Parsed(conf)]
<1>1. pc[r] \in Early /\ work[r] \in Work /\ work[r].lifted = {} /\ work' = [work EXCEPT ![r] = w]
  BY DEF CronInv, CronTypeOK, LiftInv, Early, ReadConfig, Goto
<1>2. w \in Work /\ w.lifted = {}
  BY <1>1, SettingsTyped DEF CronInv, CronTypeOK, Work
<1>3. CronTypeOK'
  <2>1. work' \in [Request -> Work]
    BY <1>1, <1>2 DEF CronInv, CronTypeOK
  <2>2. QED
    BY <2>1 DEF CronInv, CronTypeOK, ReadConfig, Goto, Labels, Early, Answer
<1>4. \E l \in (Early \ {"liftdir"}) \cup {"done", "failed", "refused"} : pc' = [pc EXCEPT ![r] = l]
  BY DEF ReadConfig, Goto, Early
<1> HIDE DEF w
<1>5. QED
  BY <1>1, <1>2, <1>3, <1>4, EarlyStep DEF ReadConfig

LEMMA ReadProfilesKeeps ==
    ASSUME CronInv, NEW r \in Request, ReadProfiles(r)
    PROVE  CronInv'
<1> DEFINE w == [work[r] EXCEPT !.profiles = profiles, !.sched = sched]
<1>1. pc[r] \in Early /\ work[r] \in Work /\ work[r].lifted = {} /\ work' = [work EXCEPT ![r] = w]
  BY DEF CronInv, CronTypeOK, LiftInv, Early, ReadProfiles, Goto
<1>2. w \in Work /\ w.lifted = {}
  BY <1>1 DEF CronInv, CronTypeOK, Work
<1>3. CronTypeOK'
  <2>1. work' \in [Request -> Work]
    BY <1>1, <1>2 DEF CronInv, CronTypeOK
  <2>2. QED
    BY <2>1 DEF CronInv, CronTypeOK, ReadProfiles, Goto, Labels, Early, Answer
<1>4. \E l \in (Early \ {"liftdir"}) \cup {"done", "failed", "refused"} : pc' = [pc EXCEPT ![r] = l]
  BY DEF ReadProfiles, Goto, Early
<1> HIDE DEF w
<1>5. QED
  BY <1>1, <1>2, <1>3, <1>4, EarlyStep DEF ReadProfiles

LEMMA ReadSchedulesKeeps ==
    ASSUME CronInv, NEW r \in Request, ReadSchedules(r)
    PROVE  CronInv'
<1> DEFINE w == [work[r] EXCEPT !.sched = Rescheduled(r, sched)]
<1>1. pc[r] \in Early /\ work[r] \in Work /\ work[r].lifted = {} /\ work' = [work EXCEPT ![r] = w]
  BY DEF CronInv, CronTypeOK, LiftInv, Early, ReadSchedules, Goto
<1>2. w \in Work /\ w.lifted = {}
  BY <1>1, RescheduledTyped DEF CronInv, CronTypeOK, Work
<1>3. CronTypeOK'
  <2>1. work' \in [Request -> Work]
    BY <1>1, <1>2 DEF CronInv, CronTypeOK
  <2>2. QED
    BY <2>1 DEF CronInv, CronTypeOK, ReadSchedules, Goto, Labels, Early, Answer
<1>4. \E l \in (Early \ {"liftdir"}) \cup {"done", "failed", "refused"} : pc' = [pc EXCEPT ![r] = l]
  BY DEF ReadSchedules, Goto, Early
<1> HIDE DEF w
<1>5. QED
  BY <1>1, <1>2, <1>3, <1>4, EarlyStep DEF ReadSchedules

LEMMA RenderKeeps ==
    ASSUME CronInv, NEW r \in Request, Render(r)
    PROVE  CronInv'
<1> DEFINE w == [work[r] EXCEPT !.conf = Parsed(conf), !.mh = Parsed(conf).mh,
                                 !.file = IF Logs(r) THEN "rotate" ELSE "backups"]
<1>1. pc[r] \in Early /\ work[r] \in Work /\ work[r].lifted = {} /\ work' = [work EXCEPT ![r] = w]
  BY DEF CronInv, CronTypeOK, LiftInv, Early, Render, Goto
<1>2. w \in Work /\ w.lifted = {}
  BY <1>1, SettingsTyped DEF CronInv, CronTypeOK, Work, Setting
<1>3. CronTypeOK'
  <2>1. work' \in [Request -> Work]
    BY <1>1, <1>2 DEF CronInv, CronTypeOK
  <2>2. QED
    BY <2>1 DEF CronInv, CronTypeOK, Render, Goto, Labels, Early, Answer
<1>4. \E l \in (Early \ {"liftdir"}) \cup {"done", "failed", "refused"} : pc' = [pc EXCEPT ![r] = l]
  BY DEF Render, Goto, Early
<1> HIDE DEF w
<1>5. QED
  BY <1>1, <1>2, <1>3, <1>4, EarlyStep DEF Render

------------------------------------------------------------------------------
\* Looking, lifting, writing, locking.
LEMMA WorkTyped ==
    ASSUME NEW w \in Work, NEW s \in SUBSET CronPath
    PROVE  /\ [w EXCEPT !.seen = s] \in Work /\ [w EXCEPT !.lifted = s] \in Work
           /\ [w EXCEPT !.stuck = s] \in Work /\ [w EXCEPT !.ok = FALSE] \in Work
BY DEF Work

LEMMA WorkFields == \A w \in Work : w.seen \subseteq CronPath /\ w.lifted \subseteq CronPath
                                     /\ w.stuck \subseteq CronPath /\ w.file \in CronPath
BY DEF Work, CronPath

\* What one attempt to lock path p again leaves.
LEMMA RelockShape ==
    ASSUME CronInv, NEW r \in Request, NEW p \in CronPath, NEW l, Relock(r, p, l)
    PROVE  \E w \in Work :
              /\ work' = [work EXCEPT ![r] = w] /\ w.file = work[r].file
              /\ bits \subseteq bits' /\ bits' \subseteq CronPath
              /\ \/ p \notin work[r].lifted /\ w = work[r]
                 \/ /\ w.lifted = work[r].lifted \ {p} /\ w.stuck = work[r].stuck
                    /\ p = "dir" \/ Exists(p) => p \in bits'
                 \/ w.lifted = work[r].lifted /\ w.stuck = work[r].stuck \cup {p}
<1>1. work[r] \in Work /\ bits \subseteq CronPath
  BY DEF CronInv, CronTypeOK
<1>2. CASE p \notin work[r].lifted
  BY <1>1, <1>2 DEF Relock, CronInv, CronTypeOK
<1>3. CASE /\ bits' = bits \cup (IF p = "dir" \/ Exists(p) THEN {p} ELSE {})
           /\ work' = [work EXCEPT ![r].lifted = @ \ {p}]
  <2> DEFINE w == [work[r] EXCEPT !.lifted = @ \ {p}]
  <2>1. w \in Work
    BY <1>1, WorkTyped, WorkFields
  <2>2. w.file = work[r].file /\ w.lifted = work[r].lifted \ {p} /\ w.stuck = work[r].stuck
    BY <1>1 DEF Work
  <2>3. QED
    BY <1>1, <1>3, <2>1, <2>2
<1>4. CASE bits' = bits /\ work' = [work EXCEPT ![r].stuck = @ \cup {p}]
  <2> DEFINE w == [work[r] EXCEPT !.stuck = @ \cup {p}]
  <2>1. w \in Work
    BY <1>1, WorkTyped, WorkFields
  <2>2. w.file = work[r].file /\ w.lifted = work[r].lifted /\ w.stuck = work[r].stuck \cup {p}
    BY <1>1 DEF Work
  <2>3. QED
    BY <1>1, <1>4, <2>1, <2>2
<1>5. QED
  BY <1>2, <1>3, <1>4 DEF Relock

LEMMA LookAtDirKeeps ==
    ASSUME CronInv, NEW r \in Request, LookAtDir(r)
    PROVE  CronInv'
<1>1. CronTypeOK'
  <2>1. \A p : [work[r] EXCEPT !.seen = IF work[r].mh THEN bits \cap {p} ELSE {}] \in Work
    BY WorkTyped DEF CronInv, CronTypeOK
  <2>2. work' \in [Request -> Work]
    BY <2>1 DEF CronInv, CronTypeOK, LookAtDir, LookAt
  <2>3. QED
    BY <2>2 DEF CronInv, CronTypeOK, LookAtDir, LookAt, Goto, Labels, Early
<1>2. LiftInv'
  BY DEF CronInv, CronTypeOK, LiftInv, LookAtDir, LookAt, Goto, Early, Work
<1>3. WantedInv'
  BY DEF CronInv, WantedInv, Exists, LookAtDir, LookAt
<1>4. NotedInv'
  BY DEF CronInv, CronTypeOK, NotedInv, LookAtDir, LookAt, Work
<1>5. QED
  BY <1>1, <1>2, <1>3, <1>4 DEF CronInv

LEMMA LookAtFileKeeps ==
    ASSUME CronInv, NEW r \in Request, LookAtFile(r)
    PROVE  CronInv'
<1>1. CronTypeOK'
  <2>1. \A p : [work[r] EXCEPT !.seen = IF work[r].mh THEN bits \cap {p} ELSE {}] \in Work
    BY WorkTyped DEF CronInv, CronTypeOK
  <2>2. work' \in [Request -> Work]
    BY <2>1 DEF CronInv, CronTypeOK, LookAtFile, LookAt
  <2>3. QED
    BY <2>2 DEF CronInv, CronTypeOK, LookAtFile, LookAt, Goto, Labels, Early
<1>2. LiftInv'
  BY DEF CronInv, CronTypeOK, LiftInv, LookAtFile, LookAt, Goto, Early, Work
<1>3. WantedInv'
  BY DEF CronInv, WantedInv, Exists, LookAtFile, LookAt
<1>4. NotedInv'
  BY DEF CronInv, CronTypeOK, NotedInv, LookAtFile, LookAt, Work
<1>5. QED
  BY <1>1, <1>2, <1>3, <1>4 DEF CronInv

LEMMA NoFileKeeps ==
    ASSUME CronInv, NEW r \in Request, NoFile(r)
    PROVE  CronInv'
<1>1. CronTypeOK'
  <2>1. \A p : [work[r] EXCEPT !.seen = IF work[r].mh THEN bits \cap {p} ELSE {}] \in Work
    BY WorkTyped DEF CronInv, CronTypeOK
  <2>2. work' \in [Request -> Work]
    BY <2>1 DEF CronInv, CronTypeOK, NoFile, LookAt
  <2>3. QED
    BY <2>2 DEF CronInv, CronTypeOK, NoFile, LookAt, Goto, Labels, Early
<1>2. LiftInv'
  BY DEF CronInv, CronTypeOK, LiftInv, NoFile, LookAt, Goto, Early, Work
<1>3. WantedInv'
  BY DEF CronInv, WantedInv, Exists, NoFile, LookAt
<1>4. NotedInv'
  BY DEF CronInv, CronTypeOK, NotedInv, NoFile, LookAt, Work
<1>5. QED
  BY <1>1, <1>2, <1>3, <1>4 DEF CronInv

LEMMA LiftKeeps ==
    ASSUME CronInv, NEW r \in Request, Lift(r)
    PROVE  CronInv'
<1>1. CronTypeOK'
  <2>1. [work[r] EXCEPT !.lifted = @ \cup work[r].seen] \in Work
    BY WorkTyped, WorkFields DEF CronInv, CronTypeOK
  <2>2. work' \in [Request -> Work]
    BY <2>1 DEF CronInv, CronTypeOK, Lift
  <2>3. QED
    BY <2>2 DEF CronInv, CronTypeOK, Lift, Goto, Labels, Early
<1>2. LiftInv'
  BY DEF CronInv, CronTypeOK, LiftInv, Lift, Goto, Early, Work
<1>3. WantedInv'
  BY DEF CronInv, WantedInv, Exists, Lift
<1>4. NotedInv'
  BY DEF CronInv, CronTypeOK, NotedInv, Lift, Work
<1>5. QED
  BY <1>1, <1>2, <1>3, <1>4 DEF CronInv

LEMMA WriteCronKeeps ==
    ASSUME CronInv, NEW r \in Request, WriteCron(r)
    PROVE  CronInv'
<1>1. CronTypeOK'
  <2>1. bits' \subseteq CronPath /\ hard' \subseteq CronPath
    BY DEF CronInv, CronTypeOK, WriteCron, Put
  <2>2. work' \in [Request -> Work]
    BY WorkTyped DEF CronInv, CronTypeOK, WriteCron
  <2>3. QED
    BY <2>1, <2>2 DEF CronInv, CronTypeOK, WriteCron, Goto, Labels
<1>2. LiftInv'
  BY DEF CronInv, CronTypeOK, LiftInv, WriteCron, Goto, Early, Work
<1>3. WantedInv'
  BY DEF CronInv, WantedInv, Exists, WriteCron, Put
<1>4. NotedInv'
  <2>1. \A q \in Request : work'[q].lifted = work[q].lifted
    BY DEF CronInv, CronTypeOK, WriteCron, Work
  <2>2. \A p \in hard' : p \in hard /\ (p \in bits => p \in bits')
    BY DEF CronInv, CronTypeOK, WantedInv, WriteCron, Put, Work
  <2>3. QED
    BY <2>1, <2>2 DEF CronInv, NotedInv
<1>5. QED
  BY <1>1, <1>2, <1>3, <1>4 DEF CronInv

LEMMA RelockFileKeeps ==
    ASSUME CronInv, NEW r \in Request, RelockFile(r)
    PROVE  CronInv'
<1> DEFINE p == work[r].file
<1>1. p \in CronPath
  BY WorkFields DEF CronInv, CronTypeOK, CronPath
<1>2. \E l : Relock(r, p, l)
  BY DEF RelockFile
<1>3. PICK w \in Work :
         /\ work' = [work EXCEPT ![r] = w] /\ w.file = work[r].file
         /\ bits \subseteq bits' /\ bits' \subseteq CronPath
         /\ \/ p \notin work[r].lifted /\ w = work[r]
            \/ /\ w.lifted = work[r].lifted \ {p} /\ w.stuck = work[r].stuck
               /\ p = "dir" \/ Exists(p) => p \in bits'
            \/ w.lifted = work[r].lifted /\ w.stuck = work[r].stuck \cup {p}
  BY <1>1, <1>2, RelockShape
<1>4. CronTypeOK'
  BY <1>3 DEF CronInv, CronTypeOK, RelockFile, Relock, Goto, Labels, Answer
<1>5. LiftInv'
  BY <1>3 DEF CronInv, CronTypeOK, LiftInv, RelockFile, Relock, Goto, Early
<1>6. WantedInv'
  BY DEF CronInv, WantedInv, Exists, RelockFile, Relock
<1>7. NotedInv'
  <2>1. p \in hard => p = "dir" \/ Exists(p)
    BY <1>1 DEF CronInv, WantedInv, CronPath
  <2>2. \A q \in hard : q \in work[r].lifted => q \in bits' \/ q \in w.lifted
    BY <1>3, <2>1
  <2>3. hard' = hard
    BY DEF RelockFile, Relock
  <2>4. QED
    BY <1>3, <2>2, <2>3 DEF CronInv, CronTypeOK, NotedInv
<1>8. QED
  BY <1>4, <1>5, <1>6, <1>7 DEF CronInv

LEMMA RelockDirKeeps ==
    ASSUME CronInv, NEW r \in Request, RelockDir(r)
    PROVE  CronInv'
<1> DEFINE p == "dir"
<1>1. p \in CronPath
  BY WorkFields DEF CronInv, CronTypeOK, CronPath
<1>2. \E l : Relock(r, p, l)
  BY DEF RelockDir
<1>3. PICK w \in Work :
         /\ work' = [work EXCEPT ![r] = w] /\ w.file = work[r].file
         /\ bits \subseteq bits' /\ bits' \subseteq CronPath
         /\ \/ p \notin work[r].lifted /\ w = work[r]
            \/ /\ w.lifted = work[r].lifted \ {p} /\ w.stuck = work[r].stuck
               /\ p = "dir" \/ Exists(p) => p \in bits'
            \/ w.lifted = work[r].lifted /\ w.stuck = work[r].stuck \cup {p}
  BY <1>1, <1>2, RelockShape
<1>4. CronTypeOK'
  BY <1>3 DEF CronInv, CronTypeOK, RelockDir, Relock, Goto, Labels, Answer, Failed
<1>5. LiftInv'
  BY <1>3 DEF CronInv, CronTypeOK, LiftInv, RelockDir, Relock, Goto, Early, Failed
<1>6. WantedInv'
  BY DEF CronInv, WantedInv, Exists, RelockDir, Relock
<1>7. NotedInv'
  <2>1. p \in hard => p = "dir" \/ Exists(p)
    BY <1>1 DEF CronInv, WantedInv, CronPath
  <2>2. \A q \in hard : q \in work[r].lifted => q \in bits' \/ q \in w.lifted
    BY <1>3, <2>1
  <2>3. hard' = hard
    BY DEF RelockDir, Relock
  <2>4. QED
    BY <1>3, <2>2, <2>3 DEF CronInv, CronTypeOK, NotedInv
<1>8. QED
  BY <1>4, <1>5, <1>6, <1>7 DEF CronInv

LEMMA CronAskKeeps ==
    ASSUME CronInv, NEW r \in Request, CronAsk(r)
    PROVE  CronInv'
<1>1. CronTypeOK'
  BY OpsAsked DEF CronInv, CronTypeOK, CronAsk, Begin, cronVars, Labels, Early
<1>2. LiftInv'
  BY DEF CronInv, CronTypeOK, LiftInv, CronAsk, Begin, cronVars, Early
<1>3. WantedInv'
  BY DEF CronInv, WantedInv, Exists, CronAsk, cronVars
<1>4. NotedInv'
  BY DEF CronInv, NotedInv, CronAsk, cronVars
<1>5. QED
  BY <1>1, <1>2, <1>3, <1>4 DEF CronInv

LEMMA CronDiesKeeps ==
    ASSUME CronInv, NEW r \in Request, CronDies(r)
    PROVE  CronInv'
<1>1. CronTypeOK'
  BY DEF CronInv, CronTypeOK, CronDies, Dies, Failing, Goto, Labels, Answer
<1>2. LiftInv'
  BY DEF CronInv, CronTypeOK, LiftInv, CronDies, Dies, Failing, Goto, Early
<1>3. WantedInv'
  BY DEF CronInv, WantedInv, Exists, CronDies
<1>4. NotedInv'
  BY DEF CronInv, NotedInv, CronDies
<1>5. QED
  BY <1>1, <1>2, <1>3, <1>4 DEF CronInv

------------------------------------------------------------------------------
LEMMA CronStep ==
    ASSUME CronInv, [CronNext]_allCronVars
    PROVE  CronInv'
<1>1. CASE CronNext
  BY <1>1, CronAskKeeps, CronDiesKeeps, ReadConfigKeeps, OpenTmpKeeps, WriteTmpKeeps,
     WriteTmpFailsKeeps, ReplaceConfigKeeps, ReadProfilesKeeps, SaveProfilesKeeps,
     ReadSchedulesKeeps, WriteSchedulesKeeps, RenderKeeps, LookAtDirKeeps, LiftKeeps,
     LookAtFileKeeps, NoFileKeeps, WriteCronKeeps, RelockFileKeeps, RelockDirKeeps DEF
     CronNext
<1>2. CASE UNCHANGED allCronVars
  <2>1. CronTypeOK' /\ LiftInv'
    BY <1>2 DEF allCronVars, reqVars, cronVars, CronInv, CronTypeOK, LiftInv
  <2>2. WantedInv' /\ NotedInv'
    BY <1>2 DEF allCronVars, cronVars, CronInv, WantedInv, NotedInv, Exists
  <2>3. QED
    BY <2>1, <2>2 DEF CronInv
<1>3. QED
  BY <1>1, <1>2

\* The files keep their types, and every path that lost the bit is noted by who took it.
THEOREM CronSafe == CronSpec => []CronInv
<1>1. QED
  BY CronInitial, CronStep, PTL DEF CronSpec

\* Overlapping requests, failing writes and failing chattr calls leave no path open, but
\* those of a request that died or could not lock them again (immutable.py 41-57).
THEOREM HardeningIsRestored == CronSpec => []HardeningRestored
<1>1. CronInv => HardeningRestored
  <2> SUFFICES ASSUME CronInv, NEW p \in hard, p \notin bits
               PROVE  \E r \in Request :
                         p \in IF Busy(r) \/ pc[r] = "dead" THEN work[r].lifted ELSE work[r].stuck
    BY DEF HardeningRestored
  <2>1. PICK r \in Request : p \in work[r].lifted
    BY DEF CronInv, NotedInv
  <2>2. Busy(r) \/ pc[r] = "dead" \/ pc[r] \in {"idle", "done", "failed", "refused"}
    BY DEF Busy, Answer
  <2>3. pc[r] \in {"idle", "done", "failed", "refused"} => p \in work[r].stuck
    BY <2>1 DEF CronInv, LiftInv, Early
  <2>4. QED
    BY <2>1, <2>2, <2>3
<1>2. QED
  BY <1>1, CronSafe, PTL
------------------------------------------------------------------------------
(* What config.json and the cron files say.                                 *)

\* Settings that can be read.
Readable == [mh : BOOLEAN, log : When, api : {"none"} \cup Request]

\* Labels between opening the temporary file and replacing config.json; of a rendering that
\* has not come to its cron file yet; of all of a rendering.
Open      == {"cwrite", "creplace"}
Unwritten == {"lookdir", "liftdir", "lookfile", "liftfile", "write"}
Rendering == {"render", "lockfile", "lockdir"} \cup Unwritten
Listing   == {"pread", "psave", "sread", "swrite"}

\* A file of settings can be read, is torn or is missing; only a request that is writing has
\* a descriptor, and what a request has read it can work with.
FileInv ==
    /\ fd \in [Request -> {"none", "tmp", "live", "lost"}]
    /\ last \in [sched : SUBSET Request, log : SUBSET Request]
    /\ \A c \in {conf, ctmp} : c \in Readable \/ c = Torn \/ c = Missing
    /\ \A r \in Request :
          /\ work[r].conf \in Readable
          /\ pc[r] # "cwrite" => fd[r] = "none"

\* Until it is shared, the temporary file is one request's from opening to replacing.
UnsharedInv ==
    ~shared =>
        /\ conf \in Readable
        /\ \A r, q \in Request : pc[r] \in Open /\ pc[q] \in Open => r = q
        /\ \A r \in Request :
              /\ pc[r] = "cwrite" => fd[r] = "tmp"
              /\ pc[r] = "creplace" => ctmp \in Readable

\* What a request at a label has been asked to do.
AskedInv ==
    \A r \in Request :
        /\ pc[r] \in Listing => ~Logs(r)
        /\ r \in last.sched => ~Logs(r) /\ pc[r] \in Rendering \cup Answer
        /\ r \in last.log => Logs(r) /\ pc[r] \in Rendering \cup Answer

\* A request that has replaced its cron file, or answers that it has.
Replaced(r) == pc[r] = "done" \/ (pc[r] \in {"lockfile", "lockdir"} /\ work[r].ok)

\* The cron file is behind only when the last change of the schedules has not replaced it.
BehindInv == cron = sched \/ \E r \in last.sched : ~Replaced(r) \/ op[r].do = "delprof"

\* A request on its own works on what the files say, and is the last to have changed what it
\* renders.
AloneInv ==
    alone =>
        /\ ~shared /\ BehindInv
        /\ \A r, q \in Request : Busy(r) /\ Busy(q) => r = q
        /\ \A r \in Request :
              /\ pc[r] \in {"copen", "cwrite", "creplace"} => work[r].conf = conf
              /\ pc[r] = "creplace" => ctmp = Updated(conf, r)
              /\ pc[r] \in Rendering => IF Logs(r) THEN last.log = {r}
                                        ELSE last.sched = {r} /\ work[r].sched = sched
              /\ pc[r] \in Unwritten /\ Logs(r) => work[r].conf = conf
              /\ r \in last.log /\ Replaced(r) => logcron = conf.log

FollowInv == FileInv /\ UnsharedInv /\ AskedInv /\ AloneInv

LEMMA ReadableFacts ==
    /\ Defaults \in Readable /\ Torn \notin Readable /\ Missing \notin Readable
    /\ \A c \in Readable : Parsed(c) = c
BY DEF Defaults, Torn, Missing, Readable, When, Parsed

LEMMA ParsedReadable == FileInv => Parsed(conf) \in Readable
BY ReadableFacts DEF FileInv, Parsed

\* Changing one setting leaves the others.
LEMMA UpdatedReadable ==
    ASSUME NEW r \in Request, op[r] \in CronOps, NEW c \in Readable
    PROVE  /\ Updated(c, r) \in Readable
           /\ ~Logs(r) => Updated(c, r).log = c.log
<1>1. CASE Logs(r)
  BY <1>1, OpsFields DEF Updated, Readable, Logs
<1>2. CASE ~Logs(r)
  BY <1>2 DEF Updated, Readable, Logs
<1>3. QED
  BY <1>1, <1>2

LEMMA FollowInitial == CronInit => FollowInv
<1> SUFFICES ASSUME CronInit PROVE FollowInv
  OBVIOUS
<1>1. FileInv
  <2>1. conf \in Readable
    BY DEF CronInit, Defaults, Readable, When
  <2>2. QED
    BY <2>1, ReadableFacts DEF CronInit, NoRequest, NoWork, FileInv
<1>2. UnsharedInv
  BY DEF CronInit, NoRequest, Defaults, Readable, When, UnsharedInv, Open
<1>3. AskedInv
  BY DEF CronInit, NoRequest, AskedInv, Listing
<1>4. AloneInv
  BY DEF CronInit, NoRequest, AloneInv, BehindInv, Busy, Rendering, Unwritten
<1>5. QED
  BY <1>1, <1>2, <1>3, <1>4 DEF FollowInv

\* A step that changes no file this is about, but perhaps the locals of its request.
LEMMA LocalStep ==
    ASSUME CronInv, FollowInv, NEW r \in Request, Busy(r),
           NEW l \in Labels \ (Open \cup {"idle"}), pc' = [pc EXCEPT ![r] = l],
           UNCHANGED <<op, alone, conf, ctmp, shared, sched, cron, logcron, last>>,
           fd' = [fd EXCEPT ![r] = "none"],
           NEW w \in Work, work' = [work EXCEPT ![r] = w], w.conf \in Readable,
           l \in Listing => pc[r] \in Listing,
           l = "copen" => w.conf = Parsed(conf),
           pc[r] \in Rendering => l \in Rendering \cup Answer,
           l \in Rendering => pc[r] \in Rendering /\ w.sched = work[r].sched,
           l \in Unwritten => \/ w.conf = Parsed(conf)
                              \/ pc[r] \in Unwritten /\ w.conf = work[r].conf,
           pc[r] \in Rendering /\ (l = "done" \/ (l \in {"lockfile", "lockdir"} /\ w.ok)) =>
               Replaced(r) \/ op[r].do = "delprof"
    PROVE  FollowInv'
<1>1. pc \in [Request -> Labels] /\ work \in [Request -> Work]
  BY DEF CronInv, CronTypeOK
<1>2. FileInv'
  BY <1>1 DEF FollowInv, FileInv, Open
<1>3. UnsharedInv'
  BY <1>1 DEF FollowInv, FileInv, UnsharedInv, Open
<1>4. AskedInv'
  BY <1>1 DEF FollowInv, AskedInv, Logs, Rendering, Unwritten, Listing, Answer, Busy
<1>5. AloneInv'
  <2> SUFFICES ASSUME alone PROVE AloneInv'
    BY DEF AloneInv
  <2>1. conf \in Readable /\ Parsed(conf) = conf
    BY ReadableFacts DEF FollowInv, AloneInv, UnsharedInv
  <2>2. \A q \in Request : Busy(q)' => Busy(q)
    BY <1>1 DEF Busy
  <2>3. \A q \in Request : q # r => pc'[q] = pc[q] /\ work'[q] = work[q]
    BY <1>1
  <2>4. pc'[r] = l /\ work'[r] = w
    BY <1>1
  <2>5. r \in last.sched \cup last.log => pc[r] \in Rendering
    BY DEF FollowInv, AskedInv, Busy
  <2>6. \A q \in Request : q \in last.sched \cup last.log /\ Replaced(q)' =>
            Replaced(q) \/ op[q].do = "delprof"
    BY <2>3, <2>4, <2>5 DEF Replaced
  <2>7. BehindInv'
    BY <2>6 DEF FollowInv, FileInv, AloneInv, BehindInv
  <2>8. ASSUME NEW q \in Request
        PROVE  /\ pc'[q] \in {"copen", "cwrite", "creplace"} => work'[q].conf = conf
               /\ pc'[q] = "creplace" => ctmp = Updated(conf, q)'
               /\ pc'[q] \in Rendering => IF Logs(q) THEN last.log = {q}
                                         ELSE last.sched = {q} /\ work'[q].sched = sched
               /\ pc'[q] \in Unwritten /\ Logs(q) => work'[q].conf = conf
    <3>1. CASE q # r
      BY <2>3, <3>1 DEF FollowInv, AloneInv, Updated
    <3>2. CASE q = r
      BY <2>1, <2>4, <3>2 DEF FollowInv, AloneInv, Open, Unwritten, Rendering
    <3>3. QED
      BY <3>1, <3>2
  <2>9. \A q \in Request : q \in last.log /\ Replaced(q)' => logcron = conf.log
    BY <2>6 DEF FollowInv, AloneInv, AskedInv, Logs
  <2>10. QED
    BY <2>2, <2>7, <2>8, <2>9 DEF FollowInv, AloneInv, Logs
<1>6. QED
  BY <1>2, <1>3, <1>4, <1>5 DEF FollowInv

\* The steps that change only locals.
LEMMA NoDescriptor ==
    ASSUME FollowInv, NEW r \in Request, pc[r] # "cwrite"
    PROVE  fd = [fd EXCEPT ![r] = "none"]
BY DEF FollowInv, FileInv

LEMMA ReadConfigFollows ==
    ASSUME CronInv, FollowInv, NEW r \in Request, ReadConfig(r)
    PROVE  FollowInv'
<1> DEFINE w == [work[r] EXCEPT !.conf = Parsed(conf)]
<1>1. work[r] \in Work /\ Parsed(conf) \in Setting /\ Parsed(conf) \in Readable
  BY ParsedReadable, SettingsTyped DEF CronInv, CronTypeOK, FollowInv
<1>2. w \in Work /\ w.conf = Parsed(conf) /\ w.conf \in Readable
  BY <1>1 DEF Work
<1>3. pc' = [pc EXCEPT ![r] = "copen"] /\ work' = [work EXCEPT ![r] = w] /\ Busy(r)
  BY <1>1 DEF ReadConfig, Goto, Busy, Answer, CronInv, CronTypeOK
<1> HIDE DEF w
<1>4. /\ UNCHANGED <<op, alone, conf, ctmp, shared, sched, cron, logcron, last>>
      /\ pc[r] = "cread" /\ fd' = [fd EXCEPT ![r] = "none"]
  BY NoDescriptor DEF ReadConfig, Goto
<1>5. /\ "copen" \in Labels \ (Open \cup {"idle"})
      /\ "copen" \notin Listing \cup Rendering \cup Unwritten
      /\ "cread" \notin Rendering
  BY DEF Labels, Early, Open, Listing, Rendering, Unwritten
<1>6. QED
  BY <1>2, <1>3, <1>4, <1>5, LocalStep

LEMMA RenderFollows ==
    ASSUME CronInv, FollowInv, NEW r \in Request, Render(r)
    PROVE  FollowInv'
<1> DEFINE w == [work[r] EXCEPT !.conf = Parsed(conf), !.mh = Parsed(conf).mh,
                                 !.file = IF Logs(r) THEN "rotate" ELSE "backups"]
<1>1. work[r] \in Work /\ Parsed(conf) \in Setting /\ Parsed(conf) \in Readable
  BY ParsedReadable, SettingsTyped DEF CronInv, CronTypeOK, FollowInv
<1>2. w \in Work /\ w.conf = Parsed(conf) /\ w.conf \in Readable /\ w.sched = work[r].sched
  BY <1>1 DEF Work, Setting
<1>3. pc' = [pc EXCEPT ![r] = "lookdir"] /\ work' = [work EXCEPT ![r] = w] /\ Busy(r)
  BY <1>1 DEF Render, Goto, Busy, Answer, CronInv, CronTypeOK
<1> HIDE DEF w
<1>4. /\ UNCHANGED <<op, alone, conf, ctmp, shared, sched, cron, logcron, last>>
      /\ pc[r] = "render" /\ fd' = [fd EXCEPT ![r] = "none"]
  BY NoDescriptor DEF Render, Goto
<1>5. /\ "lookdir" \in Labels \ (Open \cup {"idle"}) /\ "lookdir" \notin Listing
      /\ {"render", "lookdir"} \subseteq Rendering
  BY DEF Labels, Early, Open, Listing, Rendering, Unwritten
<1>6. QED
  BY <1>2, <1>3, <1>4, <1>5, LocalStep

LEMMA ReadProfilesFollows ==
    ASSUME CronInv, FollowInv, NEW r \in Request, ReadProfiles(r)
    PROVE  FollowInv'
<1> DEFINE w == [work[r] EXCEPT !.profiles = profiles, !.sched = sched]
<1>1. work[r] \in Work /\ work[r].conf \in Readable
  BY DEF CronInv, CronTypeOK, FollowInv, FileInv
<1>2. w \in Work /\ w.conf = work[r].conf
  BY <1>1 DEF Work, CronInv, CronTypeOK
<1>3. work' = [work EXCEPT ![r] = w] /\ Busy(r)
  BY <1>1 DEF ReadProfiles, Busy, Answer, CronInv, CronTypeOK
<1>4. PICK l \in {"refused", "psave"} : pc' = [pc EXCEPT ![r] = l]
  BY DEF ReadProfiles, Goto
<1> HIDE DEF w
<1>5. QED
  BY <1>1, <1>2, <1>3, <1>4, NoDescriptor, LocalStep DEF ReadProfiles, Goto, Labels, Early,
     Open,
     Listing, Rendering, Unwritten, Answer

LEMMA ReadSchedulesFollows ==
    ASSUME CronInv, FollowInv, NEW r \in Request, ReadSchedules(r)
    PROVE  FollowInv'
<1> DEFINE w == [work[r] EXCEPT !.sched = Rescheduled(r, sched)]
<1>1. work[r] \in Work /\ work[r].conf \in Readable
  BY DEF CronInv, CronTypeOK, FollowInv, FileInv
<1>2. w \in Work /\ w.conf = work[r].conf
  BY <1>1, RescheduledTyped DEF Work, CronInv, CronTypeOK
<1>3. work' = [work EXCEPT ![r] = w] /\ Busy(r)
  BY <1>1 DEF ReadSchedules, Busy, Answer, CronInv, CronTypeOK
<1>4. PICK l \in {"done", "swrite"} : pc' = [pc EXCEPT ![r] = l]
  BY DEF ReadSchedules, Goto
<1> HIDE DEF w
<1>5. QED
  BY <1>1, <1>2, <1>3, <1>4, NoDescriptor, LocalStep DEF ReadSchedules, Goto, Labels, Early,
     Open,
     Listing, Rendering, Unwritten, Answer

\* A rendering that looks, lifts or locks keeps what it renders.
LEMMA KeepingStep ==
    ASSUME CronInv, FollowInv, NEW r \in Request, Busy(r), pc[r] # "cwrite",
           NEW l \in Labels \ (Open \cup {"idle", "copen", "render"}), pc' = [pc EXCEPT ![r] = l],
           UNCHANGED <<op, alone, conf, ctmp, fd, shared, sched, cron, logcron, last>>,
           NEW w \in Work, work' = [work EXCEPT ![r] = w],
           w.conf = work[r].conf, w.sched = work[r].sched,
           l \in Listing => pc[r] \in Listing,
           l \in Unwritten => pc[r] \in Unwritten,
           l \in Rendering => pc[r] \in Rendering,
           pc[r] \in Rendering => l \in Rendering \cup Answer,
           pc[r] \in Rendering /\ (l = "done" \/ (l \in {"lockfile", "lockdir"} /\ w.ok)) =>
               Replaced(r) \/ op[r].do = "delprof"
    PROVE  FollowInv'
BY NoDescriptor, LocalStep DEF FollowInv, FileInv

LEMMA LookFollows ==
    ASSUME CronInv, FollowInv, NEW r \in Request, LookAtDir(r) \/ LookAtFile(r) \/ NoFile(r)
    PROVE  FollowInv'
<1>1. work[r] \in Work
  BY DEF CronInv, CronTypeOK
<1>2. PICK s \in SUBSET CronPath : work' = [work EXCEPT ![r].seen = s]
  BY DEF LookAtDir, LookAtFile, NoFile, LookAt, CronInv, CronTypeOK
<1>3. PICK w \in Work : /\ work' = [work EXCEPT ![r] = w]
                        /\ w.conf = work[r].conf /\ w.sched = work[r].sched
  <2> DEFINE w == [work[r] EXCEPT !.seen = s]
  <2>1. w \in Work /\ w.conf = work[r].conf /\ w.sched = work[r].sched
    BY <1>1 DEF Work
  <2>2. work' = [work EXCEPT ![r] = w]
    BY <1>2 DEF CronInv, CronTypeOK
  <2>3. QED
    BY <2>1, <2>2
<1>4. PICK l \in {"liftdir", "liftfile", "write"} : pc' = [pc EXCEPT ![r] = l]
  BY DEF LookAtDir, LookAtFile, NoFile, LookAt, Goto
<1>5. pc[r] \in {"lookdir", "lookfile"}
      /\ UNCHANGED <<op, alone, conf, ctmp, fd, shared, sched, cron, logcron, last>>
  BY DEF LookAtDir, LookAtFile, NoFile, LookAt, Goto
<1>6. QED
  BY <1>3, <1>4, <1>5, KeepingStep DEF Busy, Answer, Labels, Early, Open, Listing, Rendering,
     Unwritten

LEMMA LiftFollows ==
    ASSUME CronInv, FollowInv, NEW r \in Request, Lift(r)
    PROVE  FollowInv'
<1> DEFINE w == [work[r] EXCEPT !.lifted = @ \cup work[r].seen]
<1>1. work[r] \in Work
  BY DEF CronInv, CronTypeOK
<1>2. w \in Work /\ w.conf = work[r].conf /\ w.sched = work[r].sched
  BY <1>1, WorkTyped, WorkFields DEF Work
<1>3. work' = [work EXCEPT ![r] = w]
  BY <1>1 DEF Lift, CronInv, CronTypeOK
<1>4. PICK l \in {"lookfile", "write"} : pc' = [pc EXCEPT ![r] = l]
  BY DEF Lift, Goto
<1> HIDE DEF w
<1>5. QED
  BY <1>2, <1>3, <1>4, KeepingStep DEF Lift, Goto, Busy, Answer, Labels, Early, Open, Listing,
     Rendering, Unwritten

LEMMA RelockFollows ==
    ASSUME CronInv, FollowInv, NEW r \in Request, RelockFile(r) \/ RelockDir(r)
    PROVE  FollowInv'
<1>1. work[r] \in Work /\ pc[r] \in {"lockfile", "lockdir"}
  BY DEF CronInv, CronTypeOK, RelockFile, RelockDir
<1>2. PICK p \in CronPath, l \in {"lockdir", "done", "failed"} :
         Relock(r, p, l) /\ (l = "done" => work[r].ok \/ op[r].do = "delprof")
  BY <1>1, WorkFields DEF RelockFile, RelockDir, Failed, CronPath
<1>3. PICK w \in Work : /\ work' = [work EXCEPT ![r] = w]
                        /\ w.conf = work[r].conf /\ w.sched = work[r].sched /\ w.ok = work[r].ok
  <2> DEFINE unlocked == [work[r] EXCEPT !.lifted = @ \ {p}]
             missed   == [work[r] EXCEPT !.stuck = @ \cup {p}]
  <2>1. unlocked \in Work /\ missed \in Work
    BY <1>1, WorkTyped, WorkFields
  <2>2. work[r].lifted \subseteq CronPath /\ work = [work EXCEPT ![r] = work[r]]
    BY <1>1, WorkFields DEF CronInv, CronTypeOK
  <2>3. \E w \in {work[r], unlocked, missed} :
           work' = [work EXCEPT ![r] = w]
    BY <1>2, <2>2 DEF Relock, CronInv, CronTypeOK
  <2>4. \A w \in {work[r], unlocked, missed} :
           w.conf = work[r].conf /\ w.sched = work[r].sched /\ w.ok = work[r].ok
    BY <1>1 DEF Work
  <2>5. QED
    BY <1>1, <2>1, <2>3, <2>4
<1>4. /\ pc' = [pc EXCEPT ![r] = l]
      /\ UNCHANGED <<op, alone, conf, ctmp, fd, shared, sched, cron, logcron, last>>
  BY <1>2 DEF Relock, Goto
<1>5. QED
  BY <1>1, <1>2, <1>3, <1>4, KeepingStep DEF Busy, Answer, Labels, Early, Open, Listing,
     Rendering,
     Unwritten, Replaced

\* Giving up, or saving profiles, changes none of these files.
LEMMA SameLocals ==
    ASSUME CronInv, FollowInv, NEW r \in Request, Busy(r),
           NEW l \in Answer \cup {"sread"}, pc' = [pc EXCEPT ![r] = l],
           UNCHANGED <<op, alone, conf, ctmp, shared, sched, cron, logcron, last, work>>,
           fd' = [fd EXCEPT ![r] = "none"],
           l = "sread" => pc[r] \in Listing,
           pc[r] \in Rendering => l = "dead"
    PROVE  FollowInv'
<1>1. work[r] \in Work /\ work' = [work EXCEPT ![r] = work[r]] /\ work[r].conf \in Readable
  BY DEF CronInv, CronTypeOK, FollowInv, FileInv
<1>2. l \in Labels \ (Open \cup {"idle"}) /\ l \notin Rendering \cup Unwritten /\ l # "copen"
  BY DEF Labels, Early, Open, Answer, Rendering, Unwritten
<1>3. l \in Listing => l = "sread"
  BY DEF Listing, Answer
<1>4. QED
  BY <1>1, <1>2, <1>3, LocalStep DEF Answer

LEMMA SaveProfilesFollows ==
    ASSUME CronInv, FollowInv, NEW r \in Request, SaveProfiles(r)
    PROVE  FollowInv'
<1>1. PICK l \in {"sread", "done", "failed"} : pc' = [pc EXCEPT ![r] = l]
  BY DEF SaveProfiles, Goto, Failing
<1>2. QED
  BY <1>1, NoDescriptor, SameLocals DEF SaveProfiles, Goto, Failing, Busy, Answer, Listing,
     Rendering, Unwritten

LEMMA CronDiesFollows ==
    ASSUME CronInv, FollowInv, NEW r \in Request, CronDies(r)
    PROVE  FollowInv'
BY SameLocals DEF CronDies, Dies, Failing, Goto, Answer

\* Opening empties the file, which nobody else has open unless it is shared from then on.
LEMMA OpenTmpFollows ==
    ASSUME CronInv, FollowInv, NEW r \in Request, OpenTmp(r)
    PROVE  FollowInv'
<1>1. CASE Failing(r, "io", "failed") /\ UNCHANGED <<ctmp, fd, shared>>
  BY <1>1, NoDescriptor, SameLocals DEF OpenTmp, Failing, Goto, Busy, Answer, Rendering,
     Unwritten
<1>2. CASE /\ ctmp' = Torn /\ fd' = [fd EXCEPT ![r] = "tmp"] /\ Goto(r, "cwrite")
           /\ shared' = (shared \/ \E q \in Request : pc[q] \in {"cwrite", "creplace"})
  <2>1. /\ pc \in [Request -> Labels] /\ pc[r] = "copen"
        /\ UNCHANGED <<conf, work, last, sched, cron, logcron>>
    BY DEF CronInv, CronTypeOK, OpenTmp
  <2>2. FileInv'
    BY <1>2, <2>1 DEF FollowInv, FileInv, Goto
  <2>3. UnsharedInv'
    BY <1>2, <2>1 DEF FollowInv, FileInv, UnsharedInv, Goto, Open
  <2>4. AskedInv'
    BY <1>2, <2>1 DEF FollowInv, AskedInv, Goto, Logs, Listing, Rendering, Unwritten, Answer
  <2>5. AloneInv'
    <3> SUFFICES ASSUME alone PROVE AloneInv'
      BY <1>2 DEF AloneInv, Goto
    <3>1. \A q \in Request : Busy(q)' => Busy(q)
      BY <1>2, <2>1 DEF Goto, Busy, Answer
    <3>2. ~shared'
      BY <1>2, <2>1 DEF FollowInv, AloneInv, Busy, Answer
    <3>3. r \notin last.sched \cup last.log
      BY <2>1 DEF FollowInv, AskedInv, Rendering, Unwritten, Answer
    <3>4. BehindInv'
      BY <1>2, <2>1, <3>3 DEF FollowInv, AloneInv, BehindInv, Replaced, Goto, FileInv
    <3>5. \A q \in Request : pc'[q] # "creplace"
      BY <1>2, <2>1 DEF FollowInv, AloneInv, Busy, Answer, Goto
    <3>6. QED
      BY <1>2, <2>1, <3>1, <3>2, <3>3, <3>4, <3>5 DEF FollowInv, AloneInv, Goto, Logs, Replaced,
         Rendering, Unwritten
  <2>6. QED
    BY <2>2, <2>3, <2>4, <2>5 DEF FollowInv
<1>3. QED
  BY <1>1, <1>2 DEF OpenTmp

\* A writer that has the file to itself writes what it means to, and only to that file.
LEMMA OwnFile ==
    ASSUME CronInv, FollowInv, ~shared, NEW r \in Request, pc[r] = "cwrite"
    PROVE  fd[r] = "tmp" /\ \A q \in Request \ {r} : fd[q] = "none" /\ pc[q] \notin Open
BY DEF FollowInv, FileInv, UnsharedInv, Open

LEMMA WriteTmpFollows ==
    ASSUME CronInv, FollowInv, NEW r \in Request, WriteTmp(r)
    PROVE  FollowInv'
<1>1. /\ pc \in [Request -> Labels] /\ pc[r] = "cwrite" /\ pc' = [pc EXCEPT ![r] = "creplace"]
      /\ fd' = [fd EXCEPT ![r] = "none"]
      /\ UNCHANGED <<op, alone, work, last, shared, sched, cron, logcron>>
  BY DEF CronInv, CronTypeOK, WriteTmp, Goto
<1>2. Updated(work[r].conf, r) \in Readable
  BY UpdatedReadable DEF CronInv, CronTypeOK, FollowInv, FileInv
<1>3. FileInv'
  <2>1. \A c \in {conf', ctmp'} : c \in Readable \/ c = Torn \/ c = Missing
    BY <1>2 DEF FollowInv, FileInv, WriteTmp
  <2>2. QED
    BY <1>1, <2>1 DEF FollowInv, FileInv
<1>4. ~shared => ctmp' = Updated(work[r].conf, r) /\ conf' = conf
  BY <1>1, OwnFile DEF WriteTmp
<1>5. UnsharedInv'
  BY <1>1, <1>2, <1>4, OwnFile DEF FollowInv, FileInv, UnsharedInv, Open
<1>6. AskedInv'
  BY <1>1 DEF FollowInv, AskedInv, Logs, Listing, Rendering, Unwritten, Answer
<1>7. AloneInv'
  <2> SUFFICES ASSUME alone PROVE AloneInv'
    BY <1>1 DEF AloneInv
  <2>1. /\ conf' = conf /\ work[r].conf = conf /\ ctmp' = Updated(conf, r)
        /\ \A q \in Request : Busy(q)' => q = r
    BY <1>1, <1>4 DEF FollowInv, AloneInv, Busy, Answer
  <2>2. r \notin last.sched \cup last.log
    BY <1>1 DEF FollowInv, AskedInv, Rendering, Unwritten, Answer
  <2>3. BehindInv'
    BY <1>1, <2>2 DEF FollowInv, AloneInv, BehindInv, Replaced, FileInv
  <2>4. Updated(conf, r)' = Updated(conf, r)
    BY <1>1, <2>1 DEF Updated
  <2>5. \A q \in Request : pc'[q] \in {"copen", "cwrite", "creplace"} \cup Rendering => q = r
    BY <2>1 DEF Busy, Answer, Rendering, Unwritten
  <2>6. QED
    BY <1>1, <2>1, <2>2, <2>3, <2>4, <2>5 DEF FollowInv, AloneInv, Logs, Replaced, Rendering,
       Unwritten
<1>8. QED
  BY <1>3, <1>5, <1>6, <1>7 DEF FollowInv

LEMMA WriteTmpFailsFollows ==
    ASSUME CronInv, FollowInv, NEW r \in Request, WriteTmpFails(r)
    PROVE  FollowInv'
<1>1. /\ pc \in [Request -> Labels] /\ pc[r] = "cwrite" /\ pc' = [pc EXCEPT ![r] = "failed"]
      /\ ctmp' = Missing /\ fd' = Moved(r, "lost")
      /\ UNCHANGED <<op, alone, work, last, shared, sched, cron, logcron>>
  BY DEF CronInv, CronTypeOK, WriteTmpFails, Failing, Goto
<1>2. FileInv'
  <2>1. conf' = conf \/ conf' = Torn
    BY DEF WriteTmpFails
  <2>2. /\ fd' \in [Request -> {"none", "tmp", "live", "lost"}]
        /\ \A q \in Request : fd'[q] # "none" => fd[q] # "none" /\ q # r
    BY <1>1 DEF FollowInv, FileInv, Moved
  <2>3. QED
    BY <1>1, <2>1, <2>2 DEF FollowInv, FileInv
<1>3. ~shared => conf' = conf
  BY <1>1, OwnFile DEF WriteTmpFails
<1>4. UnsharedInv'
  BY <1>1, <1>3, OwnFile DEF FollowInv, UnsharedInv, Open
<1>5. AskedInv'
  BY <1>1 DEF FollowInv, AskedInv, Logs, Listing, Rendering, Unwritten, Answer
<1>6. AloneInv'
  <2> SUFFICES ASSUME alone PROVE AloneInv'
    BY <1>1 DEF AloneInv
  <2>1. conf' = conf /\ \A q \in Request : ~Busy(q)'
    BY <1>1, <1>3 DEF FollowInv, AloneInv, Busy, Answer
  <2>2. r \notin last.sched \cup last.log
    BY <1>1 DEF FollowInv, AskedInv, Rendering, Unwritten, Answer
  <2>3. BehindInv'
    BY <1>1, <2>2 DEF FollowInv, AloneInv, BehindInv, Replaced, FileInv
  <2>4. \A q \in Request : pc'[q] \in Answer \cup {"idle"}
    BY <2>1 DEF Busy
  <2>5. QED
    BY <1>1, <2>1, <2>2, <2>3, <2>4 DEF FollowInv, AloneInv, Logs, Replaced, Rendering,
       Unwritten, Answer
<1>7. QED
  BY <1>2, <1>4, <1>5, <1>6 DEF FollowInv

LEMMA ReplaceConfigFollows ==
    ASSUME CronInv, FollowInv, NEW r \in Request, ReplaceConfig(r)
    PROVE  FollowInv'
<1>1. /\ pc \in [Request -> Labels] /\ pc[r] = "creplace"
      /\ UNCHANGED <<op, alone, work, shared, sched, cron, logcron>>
  BY DEF CronInv, CronTypeOK, ReplaceConfig, Goto
<1>2. CASE Goto(r, "failed") /\ UNCHANGED <<conf, ctmp, fd, last>>
  BY <1>1, <1>2, NoDescriptor, SameLocals DEF Goto, Busy, Answer, Rendering, Unwritten
<1>3. CASE /\ ctmp # Missing /\ conf' = ctmp /\ ctmp' = Missing /\ fd' = Moved(r, "live")
           /\ last' = IF op[r].do = "setlog" THEN [last EXCEPT !.log = {r}] ELSE last
           /\ Goto(r, IF op[r].do = "setlog" THEN "render" ELSE "done")
  <2>1. PICK l \in {"render", "done"} : pc' = [pc EXCEPT ![r] = l] /\ (l = "render" <=> Logs(r))
    BY <1>3 DEF Goto, Logs
  <2>2. /\ last' \in [sched : SUBSET Request, log : SUBSET Request]
        /\ last'.sched = last.sched
        /\ (Logs(r) => last'.log = {r}) /\ (~Logs(r) => last'.log = last.log)
    BY <1>3 DEF FollowInv, FileInv, Logs
  <2>3. r \notin last.sched \cup last.log
    BY <1>1 DEF FollowInv, AskedInv, Rendering, Unwritten, Answer
  <2>4. FileInv'
    <3>1. /\ fd' \in [Request -> {"none", "tmp", "live", "lost"}]
          /\ \A q \in Request : fd'[q] # "none" => fd[q] # "none" /\ q # r
      BY <1>3 DEF FollowInv, FileInv, Moved
    <3>2. QED
      BY <1>1, <1>3, <2>1, <2>2, <3>1 DEF FollowInv, FileInv
  <2>5. UnsharedInv'
    BY <1>1, <1>3, <2>1 DEF FollowInv, UnsharedInv, Open
  <2>6. AskedInv'
    BY <1>1, <2>1, <2>2 DEF FollowInv, AskedInv, Logs, Listing, Rendering, Unwritten, Answer
  <2>7. AloneInv'
    <3> SUFFICES ASSUME alone PROVE AloneInv'
      BY <1>1 DEF AloneInv
    <3>1. conf' = Updated(conf, r) /\ conf \in Readable /\ \A q \in Request : Busy(q) => q = r
      BY <1>1, <1>3 DEF FollowInv, AloneInv, UnsharedInv, Busy, Answer
    <3>2. ~Logs(r) => conf'.log = conf.log
      BY <3>1, UpdatedReadable DEF CronInv, CronTypeOK
    <3>3. BehindInv'
      BY <1>1, <2>1, <2>2, <2>3 DEF FollowInv, AloneInv, BehindInv, Replaced, FileInv
    <3>4. \A q \in Request : Busy(q)' => q = r /\ Logs(r) /\ pc'[r] = "render"
      BY <1>1, <2>1, <3>1 DEF Busy, Answer
    <3>5. \A q \in Request : q \in last'.log /\ Replaced(q)' => logcron' = conf'.log
      BY <1>1, <2>1, <2>2, <2>3, <3>2 DEF FollowInv, AloneInv, Replaced
    <3>6. \A q \in Request : pc'[q] \in {"copen", "cwrite", "creplace"} \cup Rendering => Busy(q)'
      BY DEF Busy, Answer, Rendering, Unwritten
    <3>7. QED
      BY <1>1, <2>2, <3>3, <3>4, <3>5, <3>6 DEF FollowInv, AloneInv, Logs, Rendering, Unwritten
  <2>8. QED
    BY <2>4, <2>5, <2>6, <2>7 DEF FollowInv
<1>4. QED
  BY <1>2, <1>3 DEF ReplaceConfig

\* What is written to the schedules is what the rendering will go by.
LEMMA WriteSchedulesFollows ==
    ASSUME CronInv, FollowInv, NEW r \in Request, WriteSchedules(r)
    PROVE  FollowInv'
<1>1. /\ pc \in [Request -> Labels] /\ pc[r] = "swrite"
      /\ UNCHANGED <<op, alone, conf, ctmp, fd, work, shared, cron, logcron>>
  BY DEF CronInv, CronTypeOK, WriteSchedules, Goto, Failing
<1>2. CASE Failing(r, "io", Failed(r)) /\ UNCHANGED <<sched, last>>
  <2>1. PICK l \in {"done", "failed"} : pc' = [pc EXCEPT ![r] = l]
    BY <1>2 DEF Failing, Failed, Goto
  <2>2. QED
    BY <1>1, <1>2, <2>1, NoDescriptor, SameLocals DEF Busy, Answer, Rendering, Unwritten
<1>3. CASE sched' = work[r].sched /\ last' = [last EXCEPT !.sched = {r}] /\ Goto(r, "render")
  <2>1. pc' = [pc EXCEPT ![r] = "render"]
    BY <1>3 DEF Goto
  <2>2. /\ last' \in [sched : SUBSET Request, log : SUBSET Request]
        /\ last'.sched = {r} /\ last'.log = last.log
    BY <1>3 DEF FollowInv, FileInv
  <2>3. ~Logs(r) /\ r \notin last.log
    BY <1>1 DEF FollowInv, AskedInv, Listing
  <2>4. FileInv' /\ UnsharedInv'
    BY <1>1, <2>1, <2>2 DEF FollowInv, FileInv, UnsharedInv, Open
  <2>5. AskedInv'
    BY <1>1, <2>1, <2>2, <2>3 DEF FollowInv, AskedInv, Logs, Listing, Rendering, Unwritten,
       Answer
  <2>6. AloneInv'
    <3> SUFFICES ASSUME alone PROVE AloneInv'
      BY <1>1 DEF AloneInv
    <3>1. \A q \in Request : Busy(q)' => q = r /\ pc'[q] = "render"
      BY <1>1, <2>1 DEF FollowInv, AloneInv, Busy, Answer
    <3>2. BehindInv'
      BY <1>1, <2>1, <2>2 DEF BehindInv, Replaced
    <3>3. \A q \in Request : pc'[q] \in {"copen", "cwrite", "creplace"} \cup Rendering => Busy(q)'
      BY DEF Busy, Answer, Rendering, Unwritten
    <3>4. \A q \in Request : q \in last'.log /\ Replaced(q)' => logcron' = conf'.log
      BY <1>1, <2>1, <2>2, <2>3 DEF FollowInv, AloneInv, Replaced
    <3>5. QED
      BY <1>1, <1>3, <2>2, <2>3, <3>1, <3>2, <3>3, <3>4 DEF FollowInv, AloneInv, Logs,
         Rendering, Unwritten
  <2>7. QED
    BY <2>4, <2>5, <2>6 DEF FollowInv
<1>4. QED
  BY <1>2, <1>3 DEF WriteSchedules

\* A cron file is replaced by what the schedules, or the log settings, say.
LEMMA WriteCronFollows ==
    ASSUME CronInv, FollowInv, NEW r \in Request, WriteCron(r)
    PROVE  FollowInv'
<1>1. /\ pc \in [Request -> Labels] /\ work \in [Request -> Work]
      /\ pc[r] = "write" /\ pc' = [pc EXCEPT ![r] = "lockfile"]
      /\ UNCHANGED <<op, alone, conf, ctmp, fd, last, shared, sched>>
  BY DEF CronInv, CronTypeOK, WriteCron, Goto
<1>2. CASE Put(r) /\ UNCHANGED work
  <2>1. FileInv' /\ UnsharedInv'
    BY <1>1, <1>2 DEF FollowInv, FileInv, UnsharedInv, Open
  <2>2. AskedInv'
    BY <1>1 DEF FollowInv, AskedInv, Logs, Listing, Rendering, Unwritten, Answer
  <2>3. AloneInv'
    <3> SUFFICES ASSUME alone PROVE AloneInv'
      BY <1>1 DEF AloneInv
    <3>1. \A q \in Request : Busy(q)' => q = r /\ pc'[q] = "lockfile"
      BY <1>1 DEF FollowInv, AloneInv, Busy, Answer
    <3>2. pc[r] \in Unwritten \cap Rendering
      BY <1>1 DEF Unwritten, Rendering
    <3>3. IF Logs(r) THEN logcron' = conf.log /\ cron' = cron
          ELSE cron' = sched /\ logcron' = logcron
      BY <1>2, <3>2 DEF FollowInv, AloneInv, Put
    <3>4. BehindInv'
      <4>1. CASE Logs(r)
        BY <1>1, <1>2, <3>3, <4>1 DEF FollowInv, AloneInv, AskedInv, BehindInv, Replaced,
           FileInv
      <4>2. CASE ~Logs(r)
        BY <1>1, <3>3, <4>2 DEF BehindInv
      <4>3. QED
        BY <4>1, <4>2
    <3>5. \A q \in Request : pc'[q] \in {"copen", "cwrite", "creplace"} \cup Rendering => Busy(q)'
      BY DEF Busy, Answer, Rendering, Unwritten
    <3>6. \A q \in Request : q \in last'.log /\ Replaced(q)' => logcron' = conf'.log
      <4>1. CASE Logs(r)
        BY <1>1, <3>2, <3>3, <4>1 DEF FollowInv, AloneInv
      <4>2. CASE ~Logs(r)
        BY <1>1, <1>2, <3>3, <4>2 DEF FollowInv, AloneInv, AskedInv, Replaced
      <4>3. QED
        BY <4>1, <4>2
    <3>7. QED
      BY <1>1, <1>2, <3>1, <3>2, <3>4, <3>5, <3>6 DEF FollowInv, AloneInv, Logs, Unwritten
  <2>4. QED
    BY <2>1, <2>2, <2>3 DEF FollowInv
<1>3. CASE work' = [work EXCEPT ![r].ok = FALSE] /\ UNCHANGED <<cron, logcron>>
  <2> DEFINE w == [work[r] EXCEPT !.ok = FALSE]
  <2>1. w \in Work /\ w.conf = work[r].conf /\ w.sched = work[r].sched /\ w.ok = FALSE
    BY <1>1, WorkTyped DEF Work
  <2>2. work' = [work EXCEPT ![r] = w]
    BY <1>1, <1>3
  <2> HIDE DEF w
  <2>3. /\ "lockfile" \in Labels \ (Open \cup {"idle", "copen", "render"}) /\ Busy(r)
        /\ "lockfile" \notin Listing \cup Unwritten /\ {"write", "lockfile"} \subseteq Rendering
    BY <1>1 DEF Busy, Answer, Labels, Open, Listing, Rendering, Unwritten
  <2>4. QED
    BY <1>1, <1>3, <2>1, <2>2, <2>3, KeepingStep
<1>4. QED
  BY <1>2, <1>3 DEF WriteCron

LEMMA CronAskFollows ==
    ASSUME CronInv, FollowInv, NEW r \in Request, CronAsk(r)
    PROVE  FollowInv'
<1>1. /\ pc \in [Request -> Labels] /\ op \in [Request -> CronOps] /\ pc[r] = "idle"
      /\ alone' => alone /\ Resting
      /\ UNCHANGED cronVars
  BY DEF CronInv, CronTypeOK, CronAsk, Begin
<1>2. PICK o, l : /\ op' = [op EXCEPT ![r] = o] /\ pc' = [pc EXCEPT ![r] = l]
                  /\ l \in {"cread", "pread", "sread"} /\ (l # "cread" => o.do # "setlog")
  BY DEF CronAsk, Begin
<1>3. r \notin last.sched \cup last.log
  BY <1>1 DEF FollowInv, AskedInv, Rendering, Unwritten, Answer
<1>4. FileInv' /\ UnsharedInv'
  BY <1>1, <1>2 DEF FollowInv, FileInv, UnsharedInv, Open, cronVars
<1>5. AskedInv'
  BY <1>1, <1>2, <1>3 DEF FollowInv, AskedInv, Logs, Listing, Rendering, Unwritten, Answer,
     cronVars
<1>6. AloneInv'
  <2> SUFFICES ASSUME alone, Resting PROVE AloneInv'
    BY <1>1 DEF AloneInv
  <2>1. \A q \in Request : Busy(q)' => q = r
    BY <1>1, <1>2 DEF Resting, Busy
  <2>2. BehindInv'
    BY <1>1, <1>2, <1>3 DEF FollowInv, FileInv, AloneInv, BehindInv, Replaced, cronVars
  <2>3. \A q \in Request : pc'[q] \notin {"copen", "cwrite", "creplace"} \cup Rendering
    BY <1>1, <1>2 DEF Resting, Busy, Answer, Rendering, Unwritten
  <2>4. \A q \in Request : q \in last'.log /\ Replaced(q)' => logcron' = conf'.log
    BY <1>1, <1>2, <1>3 DEF FollowInv, AloneInv, Replaced, cronVars
  <2>5. QED
    BY <1>1, <2>1, <2>2, <2>3, <2>4 DEF FollowInv, AloneInv, cronVars, Rendering
<1>7. QED
  BY <1>4, <1>5, <1>6 DEF FollowInv

LEMMA FollowStep ==
    ASSUME CronInv, FollowInv, [CronNext]_allCronVars
    PROVE  FollowInv'
<1>1. CASE CronNext
  BY <1>1, CronAskFollows, CronDiesFollows, ReadConfigFollows, OpenTmpFollows, WriteTmpFollows,
     WriteTmpFailsFollows, ReplaceConfigFollows, ReadProfilesFollows, SaveProfilesFollows,
     ReadSchedulesFollows, WriteSchedulesFollows, RenderFollows, LookFollows, LiftFollows,
     WriteCronFollows, RelockFollows DEF CronNext
<1>2. CASE UNCHANGED allCronVars
  BY <1>2 DEF allCronVars, reqVars, cronVars, FollowInv, FileInv, UnsharedInv, AskedInv,
     AloneInv,
     BehindInv, Replaced, Busy, Logs, Updated
<1>3. QED
  BY <1>1, <1>2

\* Of two requests that do not share the temporary file each has it to itself, and a request
\* on its own renders what the files say.
THEOREM FilesFollow == CronSpec => []FollowInv
<1>1. QED
  BY FollowInitial, FollowStep, CronSafe, PTL DEF CronSpec

\* config.json is whole at every moment, however a writer fails or dies, unless two requests
\* had the temporary file open at once (config.py 69-96).
THEOREM SettingsAlwaysWhole == CronSpec => []SettingsWhole
<1>1. FollowInv => SettingsWhole
  BY ReadableFacts DEF FollowInv, UnsharedInv, SettingsWhole
<1>2. QED
  BY <1>1, FilesFollow, PTL

\* Requests that do not overlap: the cron files say what the schedules and the log settings
\* say, unless the last to change them has not succeeded or removed a profile
\* (schedule.py 111-148, remote.py 219-224, javahost_main.py 559-561).
THEOREM CronAlwaysFollows == CronSpec => []CronFollows
<1>1. FollowInv => CronFollows
  <2> SUFFICES ASSUME FollowInv, alone, Resting PROVE CronFollows
    BY DEF CronFollows
  <2>1. \A r \in Request : Replaced(r) <=> pc[r] = "done"
    BY DEF Resting, Busy, Answer, Replaced
  <2>2. QED
    BY <2>1 DEF FollowInv, FileInv, AloneInv, BehindInv, CronFollows
<1>2. QED
  BY <1>1, FilesFollow, PTL
===============================================================================
