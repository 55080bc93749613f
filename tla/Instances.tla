------------------------------ MODULE Instances -------------------------------
(***************************************************************************)
(* core/tomcat/instance.py and core/tomcat/service.py: the life of an app. *)
(*                                                                         *)
(* An app is a directory tree, a service unit, a running process, maybe a  *)
(* site of the panel and a backup schedule.  Nothing records an app but    *)
(* its tree: a port is claimed once a tree's server.xml or app.env names   *)
(* it, and a tree may be removed only when it carries the marker file.     *)
(* No request holds a lock, and none undoes what it did when it fails.     *)
(***************************************************************************)
EXTENDS Integers, FiniteSets

CONSTANTS
    App, Domain,
    Port,       \* the range ports are allocated from
    Taken,      \* ports of that range other programs listen on
    Request,    \* CreateApp, CreateJarApp, DeleteApp, RepairApp, AppAction
    Faults

\* fetch : a runtime cannot be had or an archive not read   io    : a write or removal fails half-way
\* locked: a hardened unit directory refuses the write      unit  : a service does not start or stop
\* panel : the panel refuses a call                         lost  : it obeys, but the answer is lost
\* net   : a transfer to or from a storage profile breaks   chmod : secret modes cannot be set
\* kill  : the request's process dies
FaultKind == {"fetch", "io", "locked", "unit", "panel", "lost", "net", "chmod", "kill"}

ASSUME PortsAssumption == Port \subseteq Nat \ {0} /\ Taken \subseteq Port /\ IsFiniteSet(Port)
ASSUME NamesAssumption == "none" \notin App \cup Domain
ASSUME FaultsAssumption == Faults \subseteq FaultKind

VARIABLES
    dir,        \* the tree of each app
    unit,       \* apps with a unit file
    listens,    \* the port each app's process is bound to, 0 when it is down
    site,       \* the app the panel's site of each domain proxies to
    sched,      \* apps with a backup schedule
    \* the requests
    op,         \* what each one is asked to do
    pc,
    got,        \* the port it was given
    blocked,    \* delete(): the panel kept the site
    \* history
    alone,      \* no request has begun while another one was busy
    cut         \* apps with a tree whose making or removal was cut short

appVars == <<dir, unit, listens, site, sched>>
reqVars == <<op, pc, got, blocked>>
kept    == <<op, got, blocked, alone, cut>>
instVars == <<appVars, reqVars, alone, cut>>

\* bare: directories only    env: setenv.sh or app.jar    full: server.xml or app.env too
\* torn, hollow: what an archive holds that is broken, or that has no app in it
Tree == [managed : BOOLEAN, kind : {"none", "tomcat", "jar"}, port : Port \cup {0},
         stage : {"gone", "bare", "env", "full", "torn", "hollow"}, dom : Domain \cup {"none"}]

NoTree == [managed |-> FALSE, kind |-> "none", port |-> 0, stage |-> "gone", dom |-> "none"]
Bare   == [NoTree EXCEPT !.stage = "bare", !.kind = "tomcat"]

exists(a) == dir[a] # NoTree

CreatePC == {"admit", "alloc", "mkdir", "mark", "setup", "conf"}
UnitPC   == {"check", "unit", "start", "act"}
DeletePC == {"site", "sched", "disable", "tree"}
Answer   == {"done", "refused", "failed", "dead"}
Busy(r)  == pc[r] \notin {"idle"} \cup Answer

Goto(r, l) == pc' = [pc EXCEPT ![r] = l]

\* The app a request works on.
On(r) == op[r].app

Failing(r, f) == f \in Faults /\ Goto(r, "failed")

------------------------------------------------------------------------------
(* Ports                                                                   *)

\* Faulty variant: only the apps that are running count.
RunningPorts == {listens[a] : a \in App} \ {0}

\* Ports named by the trees, whether the app runs or not.
used_ports == {dir[a].port : a \in App} \ {0}

port_in_use(p) == p \in Taken \/ \E a \in App : listens[a] = p

Free == {p \in Port : p \notin used_ports /\ ~port_in_use(p)}

allocate_port(p) ==
    IF p # 0 THEN {p} \cap Free ELSE {q \in Free : \A s \in Free : q <= s}

\* What a start binds: the port of the tree, unless another process has it.
Bound(a) ==
    LET p == dir[a].port IN
    IF p \in Taken \/ (\E b \in App \ {a} : listens[b] = p) THEN 0 ELSE p

------------------------------------------------------------------------------
(* create() and create_jar()                                               *)

Admit(r) ==
    /\ pc[r] = "admit"
    /\ Goto(r, IF exists(On(r)) THEN "refused" ELSE "alloc")
    /\ UNCHANGED <<appVars, kept>>

Alloc(r) ==
    /\ pc[r] = "alloc"
    /\ \/ \E p \in allocate_port(op[r].port) :
             Goto(r, "mkdir") /\ got' = [got EXCEPT ![r] = p]
       \/ allocate_port(op[r].port) = {} /\ Goto(r, "refused") /\ UNCHANGED got
       \/ Failing(r, "fetch") /\ UNCHANGED got
    /\ UNCHANGED <<appVars, op, blocked, alone, cut>>

\* One write into the tree; a tree that has gone is made again, without its marker.
Write(r, new) ==
    /\ dir' = [dir EXCEPT ![On(r)] = new]
    /\ UNCHANGED <<unit, listens, site, sched>>

\* A write that fails leaves the tree as it was, and create() leaves it there.
Spoilt(r) ==
    /\ Failing(r, "io")
    /\ cut' = IF exists(On(r)) /\ ~dir[On(r)].managed THEN cut \cup {On(r)} ELSE cut
    /\ UNCHANGED appVars

MakeDirs(r) ==
    /\ pc[r] = "mkdir"
    /\ \/ /\ Write(r, IF exists(On(r)) THEN dir[On(r)] ELSE Bare)
          /\ \/ Goto(r, "mark") /\ UNCHANGED cut
             \/ Failing(r, "io") /\ cut' = cut \cup {On(r)}
       \/ Spoilt(r)
    /\ UNCHANGED <<op, got, blocked, alone>>

Marked(t) == [(IF t = NoTree THEN Bare ELSE t) EXCEPT !.managed = TRUE]

Mark(r) ==
    /\ pc[r] = "mark"
    /\ \/ Write(r, Marked(dir[On(r)])) /\ Goto(r, "setup") /\ UNCHANGED cut
       \/ Spoilt(r)
    /\ UNCHANGED <<op, got, blocked, alone>>

\* setenv.sh, or the copied app.jar, which needs its directory.
Setup(r) ==
    LET t == dir[On(r)] IN
    /\ pc[r] = "setup"
    /\ \/ /\ op[r].kind = "jar" => exists(On(r))
          /\ Write(r, [t EXCEPT !.kind = IF @ = "jar" THEN @ ELSE op[r].kind,
                                !.stage = IF @ = "full" THEN @ ELSE "env"])
          /\ Goto(r, "conf") /\ UNCHANGED cut
       \/ /\ op[r].kind = "jar" /\ ~exists(On(r))
          /\ Goto(r, "failed") /\ UNCHANGED <<appVars, cut>>
       \/ Spoilt(r)
    /\ UNCHANGED <<op, got, blocked, alone>>

\* server.xml, or app.env: from here on the port is claimed.  When two creates of one
\* name have left both files, server.xml is the one that is read.
Conf(r) ==
    LET t == dir[On(r)] IN
    /\ pc[r] = "conf"
    /\ \/ /\ \E p \in {got[r]} \cup (IF op[r].kind = "jar" THEN {t.port} \ {0} ELSE {}) :
             Write(r, [t EXCEPT !.port = p,
                                !.kind = IF @ = "none" THEN "tomcat" ELSE @,
                                !.stage = IF @ \in {"env", "full"} THEN "full" ELSE "bare"])
          /\ Goto(r, "unit") /\ UNCHANGED cut
       \/ Spoilt(r)
    /\ UNCHANGED <<op, got, blocked, alone>>

------------------------------------------------------------------------------
(* Units and processes                                                     *)

\* repair(): what a unit is rendered from must be there.  A jar app without its
\* app.env has no JAVA_HOME.
Repairable(t) ==
    \/ t.kind = "tomcat" /\ t.stage \in {"env", "full"}
    \/ t.kind = "jar" /\ t.stage = "full"

Check(r) ==
    /\ pc[r] = "check"
    /\ Goto(r, IF Repairable(dir[On(r)]) THEN "unit" ELSE "refused")
    /\ UNCHANGED <<appVars, kept>>

\* A unit directory that is locked and may not be lifted refuses; daemon-reload may
\* fail once the file is there.  "then" is the step that follows.
InstallUnit(r, then) ==
    /\ pc[r] = "unit"
    /\ \/ unit' = unit \cup {On(r)} /\ (Goto(r, then) \/ Failing(r, "unit"))
       \/ Failing(r, "locked") /\ UNCHANGED unit
    /\ UNCHANGED <<dir, listens, site, sched, kept>>

\* enable_start(), which leaves a process alone that is still there, and the restart
\* repair() does of an app that is active.  A service that does not come up raises only
\* when the panel's process protection stopped it.
StartUnit(r, then) ==
    LET a == On(r) IN
    /\ pc[r] = "start"
    /\ \/ /\ a \in unit
          /\ \/ /\ listens' = [listens EXCEPT ![a] =
                      IF @ = 0 \/ op[r].do = "repair" THEN Bound(a) ELSE @]
                /\ Goto(r, then)
             \/ /\ "unit" \in Faults
                /\ Goto(r, then) \/ Goto(r, "failed")
                /\ listens' \in {listens} \cup
                      (IF op[r].do = "repair" THEN {[listens EXCEPT ![a] = 0]} ELSE {})
       \/ a \notin unit /\ Goto(r, "failed") /\ UNCHANGED listens
    /\ UNCHANGED <<dir, unit, site, sched, kept>>

\* AppAction and StartAppAction: start, stop, restart.
Act(r) ==
    LET a == On(r)  what == op[r].do IN
    /\ pc[r] = "act"
    /\ \/ /\ a \in unit
          /\ \/ /\ listens' = [listens EXCEPT ![a] =
                      CASE what = "stop" -> 0
                        [] what = "start" /\ @ # 0 -> @
                        [] OTHER -> Bound(a)]
                /\ Goto(r, "done")
             \/ /\ Failing(r, "unit")
                /\ listens' \in {listens} \cup
                      (IF what # "start" THEN {[listens EXCEPT ![a] = 0]} ELSE {})
       \/ a \notin unit /\ Goto(r, "failed") /\ UNCHANGED listens
    /\ UNCHANGED <<dir, unit, site, sched, kept>>

------------------------------------------------------------------------------
(* delete(), which restore() calls too: "end" is what follows it           *)

\* remove_site(): the marker goes only when the panel confirms, which it cannot do
\* for a site it does not have.
RemoveSite(r) ==
    LET a == On(r)  d == dir[a].dom IN
    /\ pc[r] = "site"
    /\ \/ d = "none" /\ blocked' = [blocked EXCEPT ![r] = FALSE] /\ UNCHANGED <<dir, site>>
       \/ /\ d # "none" /\ site[d] # "none"
          /\ site' = [site EXCEPT ![d] = "none"] /\ dir' = [dir EXCEPT ![a].dom = "none"]
          /\ blocked' = [blocked EXCEPT ![r] = FALSE]
       \/ /\ d # "none"
          /\ site[d] = "none" \/ {"panel", "lost"} \cap Faults # {}
          /\ site' \in {site} \cup (IF "lost" \in Faults THEN {[site EXCEPT ![d] = "none"]} ELSE {})
          /\ blocked' = [blocked EXCEPT ![r] = TRUE] /\ UNCHANGED dir
    /\ Goto(r, "sched")
    /\ UNCHANGED <<unit, listens, sched, op, got, alone, cut>>

\* A failure to rewrite the schedules is passed over.
RemoveSchedule(r) ==
    /\ pc[r] = "sched"
    /\ sched' \in {sched \ {On(r)}} \cup (IF "io" \in Faults THEN {sched} ELSE {})
    /\ Goto(r, "disable")
    /\ UNCHANGED <<dir, unit, listens, site, kept>>

\* remove_unit(): a stop that fails is passed over, a unit file that cannot be
\* removed is not.
DisableUnit(r, l, then) ==
    LET a == On(r) IN
    /\ pc[r] = l
    /\ listens' \in (IF a \notin unit THEN {listens}
                     ELSE {[listens EXCEPT ![a] = 0]} \cup (IF "unit" \in Faults THEN {listens} ELSE {}))
    /\ \/ unit' = unit \ {a} /\ Goto(r, then)
       \/ a \in unit /\ Failing(r, "locked") /\ UNCHANGED unit
    /\ UNCHANGED <<dir, site, sched, kept>>

\* A removal that stops half-way may have taken the marker already.
Half(t) == [managed : BOOLEAN, kind : {"tomcat"}, port : {0}, stage : {"bare"}, dom : {t.dom, "none"}]

\* Faulty variant: the tree of a blocked site is removed too.
RemoveTreeAlways(r, end) ==
    /\ pc[r] = "tree"
    /\ dir' = [dir EXCEPT ![On(r)] = NoTree]
    /\ Goto(r, end)
    /\ UNCHANGED <<unit, listens, site, sched, kept>>

RemoveTree(r, end) ==
    LET a == On(r) IN
    /\ pc[r] = "tree"
    /\ \/ (blocked[r] \/ ~exists(a)) /\ Goto(r, end) /\ UNCHANGED <<dir, cut>>
       \/ /\ ~blocked[r] /\ exists(a)
          /\ \/ dir[a].managed /\ dir' = [dir EXCEPT ![a] = NoTree] /\ Goto(r, end) /\ cut' = cut \ {a}
             \/ ~dir[a].managed /\ Goto(r, "failed") /\ UNCHANGED <<dir, cut>>
             \/ /\ dir[a].managed /\ Failing(r, "io") /\ cut' = cut \cup {a}
                /\ \E t \in Half(dir[a]) : dir' = [dir EXCEPT ![a] = t]
    /\ UNCHANGED <<unit, listens, site, sched, op, got, blocked, alone>>

------------------------------------------------------------------------------
Asked == [do : {"create"}, app : App, kind : {"tomcat", "jar"}, port : Port \cup {0}]
         \cup [do : {"delete", "repair", "start", "stop", "restart"}, app : App]

Enter(o) == CASE o.do = "create" -> "admit" [] o.do = "delete" -> "site"
              [] o.do = "repair" -> "check" [] OTHER -> "act"

Begin(r, o, l) ==
    /\ pc[r] = "idle"
    /\ op' = [op EXCEPT ![r] = o] /\ Goto(r, l)
    /\ alone' = (alone /\ \A q \in Request : ~Busy(q))
    /\ UNCHANGED <<appVars, got, blocked, cut>>

\* A tree the request is making stays as it is, one it is removing may be half gone.
Dies(r) ==
    LET a == On(r) IN
    /\ "kill" \in Faults /\ Busy(r)
    /\ Goto(r, "dead")
    /\ \/ UNCHANGED dir
       \/ /\ exists(a)
          /\ pc[r] = "clear" \/ (pc[r] = "tree" /\ ~blocked[r] /\ dir[a].managed)
          /\ \E t \in Half(dir[a]) : dir' = [dir EXCEPT ![a] = t]
       \/ pc[r] = "move" /\ ~exists(a) /\ dir' = [dir EXCEPT ![a] = Bare]
    /\ cut' = IF dir'[a] # NoTree /\ ~dir'[a].managed THEN cut \cup {a} ELSE cut
    /\ UNCHANGED <<unit, listens, site, sched, op, got, blocked, alone>>

\* The steps create(), delete(), repair() and AppAction are made of.
Step(r) ==
    \/ Admit(r) \/ Alloc(r) \/ MakeDirs(r) \/ Mark(r) \/ Setup(r) \/ Conf(r) \/ Check(r)
    \/ Act(r) \/ RemoveSite(r) \/ RemoveSchedule(r) \/ DisableUnit(r, "disable", "tree")

------------------------------------------------------------------------------
(* Properties                                                              *)

InstTypeOK ==
    /\ dir \in [App -> {t \in Tree : t.stage \notin {"torn", "hollow"}}]
    /\ unit \subseteq App /\ sched \subseteq App
    /\ listens \in [App -> Port \cup {0}]
    /\ site \in [Domain -> App \cup {"none"}]
    /\ got \in [Request -> Port \cup {0}]
    /\ blocked \in [Request -> BOOLEAN]
    /\ alone \in BOOLEAN /\ cut \subseteq App
==============================================================================
