------------------------------- MODULE Backups --------------------------------
(***************************************************************************)
(* core/backup/store.py, archive.py, run.py and the transfers of           *)
(* remote.py: archives of an app's tree, here and at storage profiles.     *)
(*                                                                         *)
(* A restore takes the live app down with delete() and puts the archived   *)
(* tree in its place.  What an archive holds of an app is its tree without *)
(* the marker, the unit and the schedule; its name is the app and the      *)
(* second it was packed in.                                                *)
(***************************************************************************)
EXTENDS Instances

CONSTANTS
    Stamp,      \* seconds of the clock, 1 to a bound
    Keep,       \* retentions a scheduled run is given
    Profile,    \* storage profiles
    Initial     \* what an execution starts from: trees and archives of earlier ones

ASSUME StampsAssumption  == Stamp \subseteq Nat /\ IsFiniteSet(Stamp) /\ Keep \subseteq Nat \ {0}
ASSUME ProfilesAssumption == Profile \cap {"local", "none"} = {}

\* Earlier requests have left apps that are marked, with a port and a domain of their own.
ASSUME InitialAssumption ==
    \A i \in Initial :
       /\ i.dir \in [App -> {t \in Tree : t.stage \notin {"torn", "hollow"}}]
       /\ i.store \in [App \X Stamp -> Tree] /\ i.remote \in [App \X Stamp -> Tree]
       /\ i.now \in Stamp \cup {0}
       /\ \A a \in App : i.dir[a] # NoTree => i.dir[a].managed
       /\ \A a, b \in App : a # b =>
             /\ i.dir[a].port = i.dir[b].port => i.dir[a].port = 0
             /\ i.dir[a].dom = i.dir[b].dom => i.dir[a].dom = "none"

VARIABLES
    store,      \* the archive under each name in the store
    remote,     \* and at each profile
    tmp,        \* the .tmp file of each name, by what was last begun in it
    now,        \* the latest second a backup was packed in
    \* the requests
    name,       \* backup: the archive being made
    staged,     \* restore: the tree extracted and secured
    at, left,   \* prune: the destination at work, those to come
    vict,       \* prune: archives it is about to delete
    \* history
    proven,     \* restores whose staged tree was complete and secured
    before,     \* what each request found of its app
    borrowed,   \* apps with a port or domain out of an archive, not theirs when the restore began
    dropped,    \* domains whose marker went with a tree an overwriting restore replaced
    unnamed,    \* domains a restore had attached when it was kept from naming them
    manual      \* an archive has been deleted by hand

arcVars  == <<store, remote, tmp, now>>
workVars == <<name, staged, at, left, vict>>
oldVars  == <<proven, before, borrowed, dropped, unnamed, manual>>
vars == <<instVars, arcVars, workVars, oldVars>>

Arch  == App \X Stamp
Dest  == {"local"} \cup Profile
NoArch == <<"none", 0>>

Torn   == [NoTree EXCEPT !.stage = "torn"]
Hollow == [NoTree EXCEPT !.stage = "hollow"]
Whole(t) == t.stage \notin {"gone", "torn", "hollow"}

\* What a destination holds under a name.
Held(d, n) == IF d = "local" THEN store[n] ELSE remote[d][n]
Put(d, n, t) ==
    IF d = "local" THEN store' = [store EXCEPT ![n] = t] /\ UNCHANGED remote
    ELSE remote' = [remote EXCEPT ![d][n] = t] /\ UNCHANGED store

\* An app as an operator sees it.
App0(a) == [tree |-> dir[a], unit |-> a \in unit, listens |-> listens[a],
            site |-> {d \in Domain : site[d] = a}]

\* Installed apps have their unit, their site and a schedule, and all run or none does.
Init ==
    \E i \in Initial :
       /\ dir = i.dir /\ unit = {a \in App : i.dir[a] # NoTree} /\ sched = unit
       /\ listens \in {[a \in App |-> 0], [a \in App |-> i.dir[a].port]}
       /\ site = [d \in Domain |-> IF \E a \in App : i.dir[a].dom = d
                                  THEN CHOOSE a \in App : i.dir[a].dom = d ELSE "none"]
       /\ store = i.store /\ remote = [p \in Profile |-> i.remote] /\ now = i.now
       /\ tmp = [n \in Arch |-> NoTree]
       /\ op = [r \in Request |-> [do |-> "none"]] /\ pc = [r \in Request |-> "idle"]
       /\ got = [r \in Request |-> 0] /\ blocked = [r \in Request |-> FALSE]
       /\ name = [r \in Request |-> NoArch] /\ staged = [r \in Request |-> NoTree]
       /\ at = [r \in Request |-> "local"] /\ left = [r \in Request |-> {}]
       /\ vict = [r \in Request |-> {}]
       /\ alone = TRUE /\ cut = {} /\ proven = {} /\ borrowed = {} /\ dropped = {}
       /\ unnamed = {} /\ manual = FALSE
       /\ before = [r \in Request |-> [tree |-> NoTree]]

------------------------------------------------------------------------------
(* backup_app() and the scheduled run                                      *)

\* What pack() puts in: the members that exist.
Image(t) == IF t = NoTree THEN Hollow ELSE [t EXCEPT !.managed = FALSE]

BackupCheck(r) ==
    /\ pc[r] = "bcheck"
    /\ Goto(r, IF exists(On(r)) THEN "pack" ELSE "refused")
    /\ UNCHANGED <<appVars, kept, arcVars, workVars, oldVars>>

\* The name is taken and the .tmp file begun.  Two packs of one second write one file.
Pack(r) ==
    /\ pc[r] = "pack"
    /\ \/ \E s \in Stamp \cap {now, now + 1} :
             LET n == <<On(r), s>> IN
             /\ now' = s
             /\ name' = [name EXCEPT ![r] = n]
             /\ tmp' = [tmp EXCEPT ![n] = IF @ = NoTree THEN Image(dir[On(r)]) ELSE Torn]
             /\ Goto(r, "publish")
       \/ Failing(r, "io") /\ UNCHANGED <<tmp, now, name>>
    /\ UNCHANGED <<appVars, kept, store, remote, staged, at, left, vict, oldVars>>

\* chmod and rename: they raise when the other pack has moved the file away.
Publish(r) ==
    LET n == name[r] IN
    /\ pc[r] = "publish"
    /\ \/ tmp[n] # NoTree /\ store' = [store EXCEPT ![n] = tmp[n]] /\ Goto(r, "upload")
       \/ (tmp[n] = NoTree \/ "io" \in Faults) /\ Goto(r, "failed") /\ UNCHANGED store
    /\ tmp' = [tmp EXCEPT ![n] = NoTree]
    /\ UNCHANGED <<appVars, kept, remote, now, workVars, oldVars>>

\* Best effort for each selected profile.
Upload(r) ==
    LET n == name[r] IN
    /\ pc[r] = "upload"
    /\ remote' \in {[p \in Profile |-> IF p \in s THEN [remote[p] EXCEPT ![n] = store[n]] ELSE remote[p]] :
                       s \in IF store[n] = NoTree THEN {{}}
                             ELSE IF "net" \in Faults THEN SUBSET op[r].remotes ELSE {op[r].remotes}}
    /\ Goto(r, IF op[r].keep > 0 THEN "list" ELSE "done")
    /\ left' = [left EXCEPT ![r] = Dest]
    /\ UNCHANGED <<appVars, kept, store, tmp, now, name, staged, at, vict, oldVars>>

\* Faulty variant: the oldest are kept.
BeyondOldest(a, d, k) ==
    LET N == {n \in Arch : n[1] = a /\ Held(d, n) # NoTree} IN
    {n \in N : Cardinality({m \in N : m[2] < n[2]}) >= k}

\* The archives of an app beyond its newest k.
Beyond(a, d, k) ==
    LET N == {n \in Arch : n[1] = a /\ Held(d, n) # NoTree} IN
    {n \in N : Cardinality({m \in N : m[2] > n[2]}) >= k}

\* prune_backups() lists one destination, the store first; a profile that cannot be
\* listed counts as empty.
PruneList(r) ==
    /\ pc[r] = "list"
    /\ \E d \in left[r] :
          /\ "local" \in left[r] => d = "local"
          /\ at' = [at EXCEPT ![r] = d]
          /\ \/ vict' = [vict EXCEPT ![r] = Beyond(On(r), d, op[r].keep)]
             \/ d # "local" /\ "net" \in Faults /\ vict' = [vict EXCEPT ![r] = {}]
          /\ left' = [left EXCEPT ![r] = @ \ {d}]
    /\ Goto(r, "drop")
    /\ UNCHANGED <<appVars, kept, arcVars, name, staged, oldVars>>

\* They are deleted one by one, the newest first; a failure is passed over.
PruneDrop(r) ==
    /\ pc[r] = "drop"
    /\ \/ \E n \in vict[r] :
             /\ \A m \in vict[r] : m[2] <= n[2]
             /\ vict' = [vict EXCEPT ![r] = @ \ {n}]
             /\ \/ Put(at[r], n, NoTree)
                \/ {"net", "io"} \cap Faults # {} /\ UNCHANGED <<store, remote>>
             /\ UNCHANGED pc
       \/ /\ vict[r] = {} /\ UNCHANGED <<vict, store, remote>>
          /\ Goto(r, IF left[r] = {} THEN "done" ELSE "list")
    /\ UNCHANGED <<appVars, kept, tmp, now, name, staged, at, left, oldVars>>

\* DeleteBackup: the store, and the profiles as far as they obey.
DeleteBackup(r) ==
    LET n == op[r].arch IN
    /\ pc[r] = "discard"
    /\ \E s \in IF "net" \in Faults THEN SUBSET (op[r].from \cap Profile) ELSE {op[r].from \cap Profile} :
          remote' = [p \in Profile |-> IF p \in s THEN [remote[p] EXCEPT ![n] = NoTree] ELSE remote[p]]
    /\ store' = IF "local" \in op[r].from THEN [store EXCEPT ![n] = NoTree] ELSE store
    /\ manual' = TRUE
    /\ Goto(r, "done")
    /\ UNCHANGED <<appVars, kept, tmp, now, workVars, proven, before, borrowed, dropped, unnamed>>

------------------------------------------------------------------------------
(* ensure_local() and restore()                                            *)

New(r) == op[r].new

\* The file in the store, whatever it holds, or the start of a download to its name.
Fetch(r) ==
    LET n == op[r].arch IN
    /\ pc[r] = "fetch"
    /\ \/ store[n] # NoTree /\ Goto(r, "stage") /\ UNCHANGED <<store, staged>>
       \/ /\ store[n] = NoTree
          /\ \/ \E p \in Profile : /\ remote[p][n] # NoTree
                                   /\ staged' = [staged EXCEPT ![r] = remote[p][n]]
                                   /\ store' = [store EXCEPT ![n] = Torn]
                                   /\ Goto(r, "download")
             \/ /\ "net" \in Faults \/ \A p \in Profile : remote[p][n] = NoTree
                /\ Goto(r, "failed") /\ UNCHANGED <<store, staged>>
    /\ UNCHANGED <<appVars, kept, remote, tmp, now, name, at, left, vict, oldVars>>

\* get_object() writes to the final name; a transfer that breaks leaves what it has.
Download(r) ==
    LET n == op[r].arch IN
    /\ pc[r] = "download"
    /\ \/ /\ store' = IF store[n] = NoTree THEN store ELSE [store EXCEPT ![n] = staged[r]]
          /\ Goto(r, IF store[n] = NoTree THEN "failed" ELSE "stage")
       \/ Failing(r, "net") /\ UNCHANGED store
    /\ staged' = [staged EXCEPT ![r] = NoTree]
    /\ UNCHANGED <<appVars, kept, remote, tmp, now, name, at, left, vict, oldVars>>

\* The manifest, the name, the payload and its secret modes are proven in a private
\* directory; "good" is what an archive must be.
StageIf(r, good) ==
    LET t == store[op[r].arch]  taken == New(r) /\ exists(On(r)) IN
    /\ pc[r] = "stage"
    /\ \/ /\ good /\ ~taken
          /\ staged' = [staged EXCEPT ![r] = t] /\ proven' = proven \cup {r}
          /\ Goto(r, IF New(r) \/ ~exists(On(r)) THEN "clear" ELSE "halt")
       \/ /\ ~good \/ taken \/ {"fetch", "chmod"} \cap Faults # {}
          /\ Goto(r, "failed") /\ UNCHANGED <<staged, proven>>
    /\ UNCHANGED <<dir, unit, site, sched, kept, arcVars, name, at, left, vict, before, borrowed, dropped, unnamed, manual>>

\* Faulty variant: the live app is stopped before the archive is looked at.
StageStopped(r) ==
    /\ StageIf(r, Whole(store[op[r].arch]))
    /\ listens' = IF New(r) THEN listens ELSE [listens EXCEPT ![On(r)] = 0]

\* Faulty variant: an archive without a payload passes.
StageAnything(r) == StageIf(r, store[op[r].arch] # NoTree) /\ UNCHANGED listens

\* exists() is asked here and not again.
Stage(r) == StageIf(r, Whole(store[op[r].arch])) /\ UNCHANGED listens

\* Stop and remove the unit, then delete(), whose steps follow.
Halt(r) ==
    /\ DisableUnit(r, "halt", "site")
    /\ UNCHANGED <<arcVars, workVars, oldVars>>

DeleteLive(r) ==
    /\ op[r].do = "restore"
    /\ RemoveTree(r, "clear")
    /\ UNCHANGED <<arcVars, workVars, oldVars>>

Forgotten(a) == {dir[a].dom} \ {"none"}

\* Whatever delete() has left goes now, marker or not.
Clear(r) ==
    LET a == On(r) IN
    /\ pc[r] = "clear"
    /\ \/ dir' = [dir EXCEPT ![a] = NoTree] /\ Goto(r, "move") /\ cut' = cut \ {a}
       \/ /\ exists(a) /\ Failing(r, "io") /\ cut' = cut \cup {a}
          /\ \E t \in Half(dir[a]) : dir' = [dir EXCEPT ![a] = t]
    /\ dropped' = dropped \cup Forgotten(a)
    /\ UNCHANGED <<unit, listens, site, sched, op, got, blocked, alone, arcVars, workVars,
                   proven, before, borrowed, unnamed, manual>>

\* shutil.move(): into the tree, when another request has made one meanwhile.  When it
\* fails nothing of the app is left, or part of the tree.
Move(r) ==
    LET a == On(r) IN
    /\ pc[r] = "move"
    /\ \/ /\ dir' = [dir EXCEPT ![a] = IF @ = NoTree THEN staged[r] ELSE @]
          /\ borrowed' = IF New(r) \/ staged[r].port # before[r].tree.port
                            \/ staged[r].dom # before[r].tree.dom THEN borrowed \cup {a} ELSE borrowed
          /\ Goto(r, "remark") /\ UNCHANGED cut
       \/ /\ Failing(r, "io")
          /\ dir' \in {dir, [dir EXCEPT ![a] = IF @ = NoTree THEN Bare ELSE @]}
          /\ cut' = cut \cup {a} /\ UNCHANGED borrowed
    /\ UNCHANGED <<unit, listens, site, sched, op, got, blocked, alone, arcVars, workVars,
                   proven, before, dropped, unnamed, manual>>

\* Faulty variant: the archived tree is used as it is.
RemarkNot(r) ==
    /\ pc[r] = "remark"
    /\ Goto(r, "port")
    /\ UNCHANGED <<appVars, kept, arcVars, workVars, oldVars>>

\* Mark it, then prove the modes again; a tree that cannot be secured is removed.
Remark(r) ==
    LET a == On(r) IN
    /\ pc[r] = "remark"
    /\ \/ dir' = [dir EXCEPT ![a] = Marked(@)] /\ Goto(r, "port") /\ UNCHANGED cut
       \/ Failing(r, "io") /\ UNCHANGED dir /\ cut' = cut \cup {a}
       \/ Failing(r, "chmod") /\ dir' = [dir EXCEPT ![a] = NoTree] /\ UNCHANGED cut
    /\ UNCHANGED <<unit, listens, site, sched, op, got, blocked, alone, arcVars, workVars, oldVars>>

\* Faulty variant: the new app keeps the markers it was archived with.
PlaceAsIs(r) ==
    LET a == On(r) IN
    /\ pc[r] = "port" /\ Goto(r, "unit")
    /\ \/ /\ New(r) /\ borrowed' = borrowed \ {a}
          /\ \E p \in allocate_port(0) : dir' = [dir EXCEPT ![a].port = p]
       \/ ~New(r) /\ UNCHANGED <<dir, borrowed>>
    /\ UNCHANGED <<unit, listens, site, sched, kept, arcVars, workVars, proven, before, dropped, unnamed, manual>>

\* A new app gets a port of its own and no site; an app restored in place comes back
\* with the archived port, whoever has it now.  A tree that names no port is not
\* rewritten.  The marker files were made by this request and can be unlinked.
Place(r) ==
    LET a == On(r) IN
    /\ pc[r] = "port"
    /\ \/ /\ New(r) /\ borrowed' = borrowed \ {a} /\ Goto(r, "unit")
          /\ \E p \in allocate_port(0) :
                dir' = [dir EXCEPT ![a].port = IF @ = 0 THEN 0 ELSE p, ![a].dom = "none"]
       \/ New(r) /\ allocate_port(0) = {} /\ Goto(r, "failed") /\ UNCHANGED <<dir, borrowed>>
       \/ ~New(r) /\ Goto(r, "unit") /\ UNCHANGED <<dir, borrowed>>
    /\ UNCHANGED <<unit, listens, site, sched, kept, arcVars, workVars, proven, before, dropped, unnamed, manual>>

\* The unit is rendered from the restored tree, which must name its runtime.
RestoreUnit(r) ==
    /\ op[r].do = "restore"
    /\ \/ Repairable(dir[On(r)]) /\ InstallUnit(r, "resecure")
       \/ /\ ~Repairable(dir[On(r)]) /\ pc[r] = "unit" /\ Goto(r, "failed")
          /\ UNCHANGED <<appVars, kept>>
    /\ UNCHANGED <<arcVars, workVars, oldVars>>

\* The modes once more; now a failure takes the unit down too, as far as it can.
Resecure(r) ==
    LET a == On(r) IN
    /\ pc[r] = "resecure"
    /\ \/ Goto(r, "start") /\ UNCHANGED <<dir, unit>>
       \/ /\ Failing(r, "chmod")
          /\ unit' \in {unit \ {a}} \cup (IF "locked" \in Faults THEN {unit} ELSE {})
          /\ dir' = [dir EXCEPT ![a] = NoTree]
    /\ UNCHANGED <<listens, site, sched, kept, arcVars, workVars, oldVars>>

RestoreStart(r) ==
    /\ op[r].do = "restore"
    /\ StartUnit(r, "republish")
    /\ UNCHANGED <<arcVars, workVars, oldVars>>

\* The domain a restore republishes, and the same where no marker says so.
Wanted(r)   == IF New(r) THEN op[r].dom ELSE staged[r].dom
Nameless(r) == {Wanted(r)} \ {dir[On(r)].dom}

\* set_site() attaches the app at the panel, best effort: see module Sites for the
\* calls.  A domain the panel already serves is pointed at this app.  An answer that
\* is lost is a refusal to set_site(), which then writes no marker.
Republish(r) ==
    LET a == On(r)  d == Wanted(r) IN
    /\ pc[r] = "republish"
    /\ \/ /\ d # "none" /\ dir[a].port # 0
          /\ site' = [site EXCEPT ![d] = a]
          /\ \/ Goto(r, "marker") /\ UNCHANGED unnamed
             \/ "lost" \in Faults /\ Goto(r, "done") /\ unnamed' = unnamed \cup Nameless(r)
       \/ /\ d = "none" \/ dir[a].port = 0 \/ "panel" \in Faults
          /\ Goto(r, "done") /\ UNCHANGED <<site, unnamed>>
    /\ UNCHANGED <<dir, unit, listens, sched, kept, arcVars, workVars, proven, before, borrowed, dropped, manual>>

\* It then drops the site of another domain the tree names, as far as the panel obeys,
\* and writes the marker.  A restore passes over a write that fails.
NameSite(r) ==
    LET a == On(r)  d == Wanted(r) IN
    /\ pc[r] = "marker"
    /\ site' \in {site} \cup {[site EXCEPT ![e] = "none"] : e \in {dir[a].dom} \ {"none", d}}
    /\ \/ /\ dir' = [dir EXCEPT ![a] = [(IF @ = NoTree THEN Bare ELSE @) EXCEPT !.dom = d]]
          /\ unnamed' = unnamed \ {d}
       \/ "io" \in Faults /\ unnamed' = unnamed \cup Nameless(r) /\ UNCHANGED dir
    /\ Goto(r, "done")
    /\ UNCHANGED <<unit, listens, sched, kept, arcVars, workVars, proven, before, borrowed, dropped, manual>>

------------------------------------------------------------------------------
BackupPC  == {"bcheck", "pack", "publish", "upload", "list", "drop", "discard"}
RestorePC == {"fetch", "download", "stage", "halt", "clear", "move", "remark", "port", "resecure", "republish",
              "marker"}

BackupOps  == [do : {"backup"}, app : App, remotes : SUBSET Profile, keep : Keep \cup {0}]
DiscardOps == [do : {"discard"}, app : App, arch : Arch, from : (SUBSET Dest) \ {{}}]
RestoreOps == [do : {"restore"}, app : App, arch : Arch, new : BOOLEAN, dom : Domain \cup {"none"}]

\* The operator gives a new app a domain that no other app has; an app restored in place
\* has no say in it.
Ask(r) ==
    \/ \E o \in Asked : Begin(r, o, Enter(o))
    \/ \E o \in BackupOps : Begin(r, o, "bcheck")
    \/ \E o \in DiscardOps :
          /\ o.app = o.arch[1] /\ \E d \in o.from : Held(d, o.arch) # NoTree
          /\ Begin(r, o, "discard")
    \/ \E o \in RestoreOps :
          /\ \E d \in Dest : Held(d, o.arch) # NoTree
          /\ IF o.new THEN \A b \in App : dir[b].dom # o.dom \/ o.dom = "none"
             ELSE o.app = o.arch[1] /\ o.dom = "none"
          /\ Begin(r, o, "fetch")

AskAny(r) ==
    /\ Ask(r)
    /\ before' = [before EXCEPT ![r] = App0(op'[r].app)]
    /\ UNCHANGED <<arcVars, workVars, proven, borrowed, dropped, unnamed, manual>>

\* Requests that only use the app.
AppStep(r) ==
    /\ \/ Step(r)
       \/ op[r].do \in {"create", "repair"} /\ (InstallUnit(r, "start") \/ StartUnit(r, "done"))
       \/ op[r].do = "delete" /\ RemoveTree(r, "done")
    /\ UNCHANGED <<arcVars, workVars, oldVars>>

Backup(r) ==
    BackupCheck(r) \/ Pack(r) \/ Publish(r) \/ Upload(r) \/ PruneList(r) \/ PruneDrop(r) \/ DeleteBackup(r)

Restore(r) ==
    \/ Fetch(r) \/ Download(r) \/ Stage(r) \/ Halt(r) \/ DeleteLive(r) \/ Clear(r) \/ Move(r) \/ Remark(r)
    \/ Place(r) \/ RestoreUnit(r) \/ Resecure(r) \/ RestoreStart(r) \/ Republish(r) \/ NameSite(r)

Killed(r) ==
    /\ Dies(r)
    /\ dropped' = IF pc[r] = "clear" THEN dropped \cup Forgotten(On(r)) ELSE dropped
    /\ unnamed' = IF pc[r] = "marker" THEN unnamed \cup Nameless(r) ELSE unnamed
    /\ UNCHANGED <<arcVars, workVars, proven, before, borrowed, manual>>

Next == \E r \in Request : AskAny(r) \/ Killed(r) \/ AppStep(r) \/ Backup(r) \/ Restore(r)

Spec == Init /\ [][Next]_vars

------------------------------------------------------------------------------
Label == {"idle"} \cup CreatePC \cup UnitPC \cup DeletePC \cup BackupPC \cup RestorePC \cup Answer

TypeOK ==
    /\ InstTypeOK
    /\ pc \in [Request -> Label]
    /\ op \in [Request -> {[do |-> "none"]} \cup Asked \cup BackupOps \cup DiscardOps \cup RestoreOps]
    /\ store \in [Arch -> Tree] /\ remote \in [Profile -> [Arch -> Tree]] /\ tmp \in [Arch -> Tree]
    /\ now \in Stamp \cup {0}
    /\ name \in [Request -> Arch \cup {NoArch}] /\ staged \in [Request -> Tree]
    /\ at \in [Request -> Dest] /\ left \in [Request -> SUBSET Dest] /\ vict \in [Request -> SUBSET Arch]
    /\ proven \subseteq Request /\ borrowed \subseteq App /\ dropped \subseteq Domain
    /\ unnamed \subseteq Domain /\ manual \in BOOLEAN

\* Two trees never claim one port, also when one of the apps is down: requests that do
\* not overlap allocate around every tree (instance.py 59-91), so only an app restored in
\* place, with a port it no longer had, can meet another one there.
PortsDistinct ==
    alone => \A a, b \in App : a # b /\ dir[a].port # 0 /\ dir[a].port = dir[b].port
                                 => {a, b} \cap borrowed # {}

\* A tree without the marker can be neither deleted (fs.safe_rmtree) nor created over.
\* Requests that do not overlap leave one only when they were cut short between making
\* the tree and marking it, or while removing it; an archive carries no marker.
MarkedForRemoval ==
    alone /\ (\A r \in Request : ~Busy(r))
       => \A a \in App : exists(a) /\ ~dir[a].managed => a \in cut

\* A restore that has attached a domain and is about to name it.
Naming(d) == \E r \in Request : pc[r] = "marker" /\ Wanted(r) = d

\* The panel's site of an app stays removable: while it is served, a tree names its
\* domain, whatever the panel answers (instance.py 705-706), unless a restore in place
\* or an unfinished removal took that tree away, or a restore lost the panel's answer,
\* died or failed between attaching the domain and naming it (proxy.py 613-637).
SiteRemembered ==
    alone => \A d \in Domain :
                site[d] # "none" => \/ \E a \in App : dir[a].dom = d
                                   \/ d \in dropped \cup unnamed \/ Naming(d)

\* A restore that fails before its archive was extracted whole and secured has not
\* touched the app: tree, unit, process and site are what they were (store.py 535-536).
FailedStagingHarmless ==
    [][\A r \in Request :
          /\ op[r].do = "restore" /\ alone
          /\ pc[r] # "failed" /\ pc'[r] = "failed" /\ r \notin proven'
          => App0(On(r))' = before[r]]_vars

\* Deleting an app, or restoring over it, takes down no other app's site: a restore under
\* a new name does not inherit the domain (store.py 18-19, 564).  Not so for a tree that
\* a failed restore left behind with the domain it was archived with, nor for a domain
\* whose marker went with a tree that was replaced.
OwnSiteOnly ==
    [][\A r \in Request, d \in Domain :
          /\ alone /\ pc[r] = "site" /\ pc'[r] = "sched" /\ site[d] # "none" /\ site'[d] = "none"
          => site[d] = On(r) \/ {site[d], On(r)} \cap borrowed # {} \/ d \in dropped]_vars

\* A scheduled run only deletes an archive that has at least "keep" newer ones at the
\* same destination, whatever other runs delete or add meanwhile (store.py 336-337), while
\* the retention stays what it is.
PruneKeepsNewest ==
    [][\A r \in Request, d \in Dest, n \in Arch :
          /\ pc[r] = "drop" /\ at[r] = d /\ n \in vict[r] /\ ~manual
          /\ Held(d, n) # NoTree /\ Held(d, n)' = NoTree
          => Cardinality({m \in Arch : m[1] = n[1] /\ m[2] > n[2] /\ Held(d, m) # NoTree}) >= op[r].keep]_vars

==============================================================================
