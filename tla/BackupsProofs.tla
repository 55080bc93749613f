---------------------------- MODULE BackupsProofs -----------------------------
(***************************************************************************)
(* Every request keeps to its route, and one that works alone knows what   *)
(* it found of its app and what it has taken from it: from that follow the *)
(* ports, markers and sites of requests that do not overlap.  What a prune *)
(* is about to delete stays superfluous whoever else is at work            *)
(* (core/tomcat/instance.py, core/backup/store.py), for any number of      *)
(* requests, apps, domains and archives and any faults.                    *)
(***************************************************************************)
EXTENDS Backups, FiniteSetTheorems, TLAPS

\* Which steps a request takes.
OnRoute(l, o) ==
    \/ l \in {"idle"} \cup Answer
    \/ l \in CreatePC /\ o.do = "create"
    \/ l = "check" /\ o.do = "repair"
    \/ l = "act" /\ o.do \in {"start", "stop", "restart"}
    \/ l \in {"unit", "start"} /\ o.do \in {"create", "repair", "restore"}
    \/ l \in DeletePC /\ o.do = "delete"
    \/ l \in DeletePC \cup {"halt"} /\ o.do = "restore" /\ ~o.new
    \/ l \in {"bcheck", "pack", "publish", "upload", "list", "drop"} /\ o.do = "backup"
    \/ l = "discard" /\ o.do = "discard"
    \/ l \in RestorePC \ {"halt"} /\ o.do = "restore"

\* A request is on its route, and a restore past its staging has a whole tree.
WorkInv(r) ==
    /\ OnRoute(pc[r], op[r])
    /\ pc[r] \in {"publish", "upload"} => name[r] \in Arch
    /\ pc[r] \in {"list", "drop"} => op[r].keep \in Keep
    /\ pc[r] = "download" => staged[r] # NoTree
    /\ pc[r] = "marker" => Wanted(r) # "none"
    /\ op[r].do = "restore" =>
          /\ Busy(r) /\ pc[r] \notin {"fetch", "download", "stage"} => r \in proven
          /\ pc[r] \in {"halt", "clear", "move"} \cup DeletePC => Whole(staged[r])

TypedInv == TypeOK /\ \A r \in Request : WorkInv(r)

------------------------------------------------------------------------------
\* Requests that have never overlapped work one at a time.
AloneInv == alone => \A p, q \in Request : Busy(p) /\ Busy(q) => p = q

Shares(b, port, dom) ==
    \/ port # 0 /\ dir[b].port = port
    \/ dom # "none" /\ dir[b].dom = dom

\* Two apps have one port or one domain only when one of them borrowed it.
DistinctInv ==
    \A a, b \in App : a # b /\ Shares(b, dir[a].port, dir[a].dom) => {a, b} \cap borrowed # {}

Unmarked(a) == exists(a) /\ ~dir[a].managed

\* An unmarked tree was cut short, or its request is about to mark it.
MarkInv ==
    \A a \in App : Unmarked(a) /\ a \notin cut
        => \E r \in Request : pc[r] \in {"mark", "remark"} /\ On(r) = a

Named(d) == \E a \in App : dir[a].dom = d

\* A domain that is served is named by a tree, or known to have lost its name.
Unknown == dropped \cup unnamed
SiteInv == \A d \in Domain : site[d] # "none" => Named(d) \/ d \in Unknown

\* Only apps that borrowed it name the domain, c aside.
Lent(c, d) == d \in dropped \/ \A b \in App \ {c} : dir[b].dom = d => b \in borrowed

\* An app that is served under a domain its tree does not name is no rival for it.
HeldInv == \A d \in Domain : site[d] # "none" /\ dir[site[d]].dom # d => Lent(site[d], d)

\* A tree names a domain another app is served under only when one of them borrowed it.
OwnInv ==
    \A a \in App, d \in Domain :
       dir[a].dom = d /\ site[d] \notin {"none", a} => {site[d], a} \cap borrowed # {} \/ d \in dropped

------------------------------------------------------------------------------
(* What a request that works alone knows of its app                        *)

PortIsFree(r) == \A b \in App \ {On(r)} : dir[b].port # got[r]
NoSite(r) == dir[On(r)].dom = "none"

\* A create has a port of its own, and marks its tree before it claims it; a delete()
\* that was not blocked has taken the domain off the tree.
MakeInv(r) ==
    /\ pc[r] \in {"mkdir", "mark", "setup", "conf"} => PortIsFree(r)
    /\ pc[r] \in {"setup", "conf"} => dir[On(r)].managed
    /\ pc[r] \in {"sched", "disable", "tree"} /\ ~blocked[r] => NoSite(r)

\* What a restore knows of the app it found, and of the domain it takes from it.
Was(r) == before[r].tree

Untouched(r) == App0(On(r)) = before[r]
SameDom(r)   == dir[On(r)].dom = Was(r).dom
Gone(d)      == d = "none" \/ site[d] = "none" \/ d \in dropped
DomGone(r)   == Gone(Was(r).dom)

\* No other tree names what the app had, unless one of the two borrowed it.
Apart(r) ==
    \A b \in App \ {On(r)} : Shares(b, Was(r).port, Was(r).dom) => {On(r), b} \cap borrowed # {}

\* No site depends on the tree of this app, and none but that of the domain being named.
Spare(r, d) ==
    /\ site[d] # "none" => (\E b \in App \ {On(r)} : dir[b].dom = d) \/ d \in Unknown
    /\ site[d] = On(r) => Lent(On(r), d)
Unrelied(r) == \A d \in Domain : Spare(r, d)
Attached(r) ==
    /\ site[Wanted(r)] = On(r) /\ exists(On(r))
    /\ \A d \in Domain \ {Wanted(r)} : Spare(r, d)

\* The domain a new app is asked for is no other app's; one restored in place names its own.
FreshDom(r) == New(r) /\ op[r].dom # "none" => \A b \in App \ {On(r)} : dir[b].dom # op[r].dom
StagedDom(r) == New(r) \/ dir[On(r)].dom = staged[r].dom

Placed == {"remark", "port", "unit", "resecure", "start", "republish"}

\* A restore at each of its steps.
BackInv(r) ==
    op[r].do = "restore" =>
    /\ pc[r] \in {"fetch", "download", "stage"} => Untouched(r)
    /\ pc[r] \in {"halt", "site"} => SameDom(r)
    /\ pc[r] \in {"sched", "disable", "tree", "clear"} => SameDom(r) \/ DomGone(r)
    /\ pc[r] = "move" => dir[On(r)] = NoTree /\ DomGone(r)
    /\ pc[r] \notin Placed \cup {"marker"} => Apart(r)
    /\ pc[r] \in Placed \cup {"move"} => Unrelied(r)
    /\ pc[r] = "marker" => Attached(r)
    /\ FreshDom(r)
    /\ pc[r] \in Placed \cup {"marker"} => StagedDom(r)

\* The inductive invariant of requests that do not overlap.
LoneInv ==
    /\ AloneInv
    /\ alone => /\ DistinctInv /\ MarkInv /\ HeldInv /\ OwnInv
                /\ SiteInv \/ \E r \in Request : pc[r] = "marker"
                /\ \A r \in Request : Busy(r) => MakeInv(r) /\ BackInv(r)

------------------------------------------------------------------------------
USE DEF Goto, appVars, kept, arcVars, workVars, oldVars, On, New

Ops == {[do |-> "none"]} \cup Asked \cup BackupOps \cup DiscardOps \cup RestoreOps

\* What a request is asked to do.
LEMMA OpsAsked ==
    ASSUME NEW o \in Ops
    PROVE  /\ o.do # "none" => o.app \in App
           /\ o.do = "create" => o.kind \in {"tomcat", "jar"} /\ o.port \in Port \cup {0}
           /\ o.do = "backup" => o.remotes \subseteq Profile /\ o.keep \in Keep \cup {0}
           /\ o.do = "discard" => o.arch \in Arch /\ o.from \subseteq Dest
           /\ o.do = "restore" => o.arch \in Arch /\ o.new \in BOOLEAN /\ o.dom \in Domain \cup {"none"}
BY DEF Ops, Asked, BackupOps, DiscardOps, RestoreOps

\* The same of a request at work.
LEMMA AtWork ==
    ASSUME TypedInv, NEW r \in Request
    PROVE  /\ op[r] \in Ops /\ OnRoute(pc[r], op[r])
           /\ Busy(r) => op[r].do # "none" /\ On(r) \in App /\ pc[r] \in Label
<1>1. op[r] \in Ops /\ pc[r] \in Label /\ OnRoute(pc[r], op[r])
  BY DEF TypedInv, TypeOK, WorkInv, Ops
<1>2. Busy(r) => op[r].do # "none"
  BY <1>1 DEF OnRoute, Busy, Answer
<1>3. QED
  BY <1>1, <1>2, OpsAsked

LiveTree == {t \in Tree : t.stage \notin {"torn", "hollow"}}

\* The trees there are.
LEMMA Trees ==
    /\ NoTree \in LiveTree /\ Bare \in LiveTree /\ Torn \in Tree /\ Hollow \in Tree
    /\ NoTree.stage = "gone" /\ Bare.stage = "bare"
    /\ NoTree.port = 0 /\ NoTree.dom = "none" /\ ~NoTree.managed
    /\ Bare.port = 0 /\ Bare.dom = "none" /\ ~Bare.managed /\ Bare # NoTree
    /\ Torn # NoTree /\ Hollow # NoTree
BY DEF NoTree, Bare, Torn, Hollow, Tree, LiveTree

\* What a tree says of its app.
LEMMA TreeFields ==
    ASSUME NEW t \in Tree
    PROVE  /\ t.managed \in BOOLEAN /\ t.kind \in {"none", "tomcat", "jar"} /\ t.port \in Port \cup {0}
           /\ t.stage \in {"gone", "bare", "env", "full", "torn", "hollow"}
           /\ t.dom \in Domain \cup {"none"}
BY DEF Tree

\* A tree with some of its fields changed.
LEMMA TreeChanges ==
    ASSUME NEW t \in LiveTree
    PROVE  /\ \A d \in Domain \cup {"none"} : [t EXCEPT !.dom = d] \in LiveTree
           /\ Marked(t) \in LiveTree
           /\ \A k \in {"tomcat", "jar"}, s \in {"bare", "env", "full"} :
                 /\ [t EXCEPT !.kind = k, !.stage = s] \in LiveTree
                 /\ \A p \in Port \cup {0} : [t EXCEPT !.port = p, !.kind = k, !.stage = s] \in LiveTree
           /\ \A p \in Port \cup {0} : [t EXCEPT !.port = p, !.dom = "none"] \in LiveTree
BY DEF Tree, LiveTree, Marked, NoTree, Bare

\* A tree without a port and a domain has none to lose.
LEMMA PlainTree ==
    ASSUME NEW t \in LiveTree, t.port = 0, t.dom = "none"
    PROVE  [t EXCEPT !.port = 0, !.dom = "none"] = t
BY DEF LiveTree, Tree

\* What a backup packs is a tree.
LEMMA ImageTree == ASSUME NEW t \in LiveTree PROVE Image(t) \in Tree
<1>1. CASE t = NoTree
  BY <1>1, Trees DEF Image
<1>2. CASE t # NoTree
  BY <1>2 DEF Image, Tree, LiveTree, NoTree
<1>3. QED
  BY <1>1, <1>2

\* Half a tree claims no port, and no domain but its own.
LEMMA HalfTrees ==
    ASSUME NEW t \in LiveTree, NEW h \in Half(t)
    PROVE  h \in LiveTree /\ h.port = 0 /\ h.dom \in {t.dom, "none"} /\ h.stage = "bare"
BY TreeFields DEF Half, Tree, LiveTree

\* The tree a create has written its runtime, and its port, to.
LEMMA MadeTrees ==
    ASSUME NEW t \in LiveTree, NEW k \in {"tomcat", "jar"}, NEW p \in Port \cup {0}
    PROVE  /\ [t EXCEPT !.kind = IF @ = "jar" THEN @ ELSE k,
                        !.stage = IF @ = "full" THEN @ ELSE "env"] \in LiveTree
           /\ [t EXCEPT !.port = p, !.kind = IF @ = "none" THEN "tomcat" ELSE @,
                        !.stage = IF @ \in {"env", "full"} THEN "full" ELSE "bare"] \in LiveTree
BY DEF Tree, LiveTree

\* A request is only given a port that is free.
LEMMA Ports ==
    /\ \A p : allocate_port(p) \subseteq Free
    /\ Free \subseteq Port
    /\ TypeOK => \A a \in App : Bound(a) \in Port \cup {0}
BY DEF allocate_port, Free, Bound, TypeOK, InstTypeOK, Tree

\* The rest of the state is other requests' own.
LEMMA LocalStep ==
    ASSUME TypedInv, TypeOK', NEW r \in Request, WorkInv(r)',
           \A q \in Request \ {r} : /\ pc'[q] = pc[q] /\ op'[q] = op[q]
                                    /\ name'[q] = name[q] /\ staged'[q] = staged[q],
           proven \subseteq proven'
    PROVE  TypedInv'
<1>1. ASSUME NEW q \in Request, q # r PROVE WorkInv(q)'
  <2>1. /\ WorkInv(q) /\ pc'[q] = pc[q] /\ op'[q] = op[q]
        /\ name'[q] = name[q] /\ staged'[q] = staged[q]
    BY <1>1 DEF TypedInv
  <2>2. QED
    BY <2>1 DEF WorkInv, Busy, Wanted
<1>2. QED
  BY <1>1 DEF TypedInv

\* What a label says of the request.
LEMMA Routes ==
    ASSUME TypedInv, NEW r \in Request
    PROVE  /\ pc[r] \in CreatePC => op[r].do = "create" /\ op[r].kind \in {"tomcat", "jar"}
           /\ pc[r] \in RestorePC => op[r].do = "restore"
           /\ pc[r] \in BackupPC \ {"discard"} => op[r].do = "backup"
           /\ pc[r] = "discard" => op[r].do = "discard"
           /\ pc[r] \in DeletePC \cup {"halt"} => op[r].do = "delete" \/ (op[r].do = "restore" /\ ~New(r))
           /\ pc[r] \in {"unit", "start"} => op[r].do \in {"create", "repair", "restore"}
           /\ pc[r] = "check" => op[r].do = "repair"
           /\ pc[r] = "act" => op[r].do \in {"start", "stop", "restart"}
BY AtWork, OpsAsked DEF OnRoute, CreatePC, DeletePC, BackupPC, RestorePC, Answer

\* Each step of a create, a delete, a repair or an action keeps the types and the route.
LEMMA AdmitTyped ==
    ASSUME TypedInv, NEW r \in Request, Admit(r), UNCHANGED <<arcVars, workVars, oldVars>>
    PROVE  TypedInv'
<1>1. /\ TypeOK /\ WorkInv(r) /\ op[r] \in Ops /\ On(r) \in App
      /\ dir \in [App -> LiveTree] /\ dir[On(r)] \in LiveTree
  BY AtWork DEF TypedInv, Admit, Busy, Answer, TypeOK, InstTypeOK, LiveTree
<1>2. dir' \in [App -> LiveTree]
  BY <1>1 DEF Admit
<1>3. pc' \in [Request -> Label]
  BY <1>1 DEF Admit, Failing, TypeOK, Label, CreatePC, UnitPC, DeletePC, BackupPC, RestorePC,
     Answer
<1>4. TypeOK'
  BY <1>1, <1>2, <1>3, OpsAsked, Ports DEF TypeOK, InstTypeOK, LiveTree, Admit
<1>5. WorkInv(r)'
  BY <1>1 DEF TypeOK, WorkInv, OnRoute, Busy, CreatePC, DeletePC, Answer, RestorePC, Failing,
     Admit
<1>6. QED
  BY <1>1, <1>4, <1>5, LocalStep DEF TypeOK, Failing, Admit

LEMMA AllocTyped ==
    ASSUME TypedInv, NEW r \in Request, Alloc(r), UNCHANGED <<arcVars, workVars, oldVars>>
    PROVE  TypedInv'
<1>1. /\ TypeOK /\ WorkInv(r) /\ op[r] \in Ops /\ On(r) \in App
      /\ dir \in [App -> LiveTree] /\ dir[On(r)] \in LiveTree
  BY AtWork DEF TypedInv, Alloc, Busy, Answer, TypeOK, InstTypeOK, LiveTree
<1>2. dir' \in [App -> LiveTree]
  BY <1>1 DEF Alloc
<1>3. pc' \in [Request -> Label]
  BY <1>1 DEF Alloc, Failing, TypeOK, Label, CreatePC, UnitPC, DeletePC, BackupPC, RestorePC,
     Answer
<1>4. TypeOK'
  BY <1>1, <1>2, <1>3, OpsAsked, Ports DEF TypeOK, InstTypeOK, LiveTree, Alloc
<1>5. WorkInv(r)'
  BY <1>1 DEF TypeOK, WorkInv, OnRoute, Busy, CreatePC, DeletePC, Answer, RestorePC, Failing,
     Alloc
<1>6. QED
  BY <1>1, <1>4, <1>5, LocalStep DEF TypeOK, Failing, Alloc

LEMMA MakeDirsTyped ==
    ASSUME TypedInv, NEW r \in Request, MakeDirs(r), UNCHANGED <<arcVars, workVars, oldVars>>
    PROVE  TypedInv'
<1>1. /\ TypeOK /\ WorkInv(r) /\ op[r] \in Ops /\ On(r) \in App
      /\ dir \in [App -> LiveTree] /\ dir[On(r)] \in LiveTree
  BY AtWork DEF TypedInv, MakeDirs, Busy, Answer, TypeOK, InstTypeOK, LiveTree, Write, Spoilt
<1>2. dir' \in [App -> LiveTree]
  BY <1>1, Trees DEF MakeDirs, Write, Spoilt
<1>3. pc' \in [Request -> Label]
  BY <1>1 DEF MakeDirs, Failing, TypeOK, Label, CreatePC, UnitPC, DeletePC, BackupPC,
     RestorePC, Answer, Write, Spoilt
<1>4. TypeOK'
  BY <1>1, <1>2, <1>3, OpsAsked, Ports DEF TypeOK, InstTypeOK, LiveTree, MakeDirs, Write, Spoilt
<1>5. WorkInv(r)'
  BY <1>1 DEF TypeOK, WorkInv, OnRoute, Busy, CreatePC, DeletePC, Answer, RestorePC, Failing,
     MakeDirs, Write, Spoilt
<1>6. QED
  BY <1>1, <1>4, <1>5, LocalStep DEF TypeOK, Failing, MakeDirs, Write, Spoilt

LEMMA MarkTyped ==
    ASSUME TypedInv, NEW r \in Request, Mark(r), UNCHANGED <<arcVars, workVars, oldVars>>
    PROVE  TypedInv'
<1>1. /\ TypeOK /\ WorkInv(r) /\ op[r] \in Ops /\ On(r) \in App
      /\ dir \in [App -> LiveTree] /\ dir[On(r)] \in LiveTree
  BY AtWork DEF TypedInv, Mark, Busy, Answer, TypeOK, InstTypeOK, LiveTree, Write, Spoilt
<1>2. dir' \in [App -> LiveTree]
  BY <1>1, TreeChanges DEF Mark, Write, Spoilt
<1>3. pc' \in [Request -> Label]
  BY <1>1 DEF Mark, Failing, TypeOK, Label, CreatePC, UnitPC, DeletePC, BackupPC, RestorePC,
     Answer, Write, Spoilt
<1>4. TypeOK'
  BY <1>1, <1>2, <1>3, OpsAsked, Ports DEF TypeOK, InstTypeOK, LiveTree, Mark, Write, Spoilt
<1>5. WorkInv(r)'
  BY <1>1 DEF TypeOK, WorkInv, OnRoute, Busy, CreatePC, DeletePC, Answer, RestorePC, Failing,
     Mark, Write, Spoilt
<1>6. QED
  BY <1>1, <1>4, <1>5, LocalStep DEF TypeOK, Failing, Mark, Write, Spoilt

LEMMA SetupTyped ==
    ASSUME TypedInv, NEW r \in Request, Setup(r), UNCHANGED <<arcVars, workVars, oldVars>>
    PROVE  TypedInv'
<1>1. /\ TypeOK /\ WorkInv(r) /\ op[r] \in Ops /\ On(r) \in App
      /\ dir \in [App -> LiveTree] /\ dir[On(r)] \in LiveTree
  BY AtWork DEF TypedInv, Setup, Busy, Answer, TypeOK, InstTypeOK, LiveTree, Write, Spoilt
<1>2. dir' \in [App -> LiveTree]
  <2>1. op[r].kind \in {"tomcat", "jar"}
    BY Routes DEF Setup, CreatePC
  <2>2. [dir[On(r)] EXCEPT !.kind = IF @ = "jar" THEN @ ELSE op[r].kind,
                           !.stage = IF @ = "full" THEN @ ELSE "env"] \in LiveTree
    BY <1>1, <2>1, MadeTrees
  <2>3. QED
    BY <1>1, <2>2 DEF Setup, Write, Spoilt
<1>3. pc' \in [Request -> Label]
  <2>1. {"conf", "failed"} \subseteq Label
    BY DEF Label, CreatePC, Answer
  <2>2. pc \in [Request -> Label]
    BY <1>1 DEF TypeOK
  <2>3. QED
    BY <2>1, <2>2 DEF Setup, Failing, Write, Spoilt
<1>4. TypeOK'
  BY <1>1, <1>2, <1>3, OpsAsked, Ports DEF TypeOK, InstTypeOK, LiveTree, Setup, Write, Spoilt
<1>5. WorkInv(r)'
  BY <1>1 DEF TypeOK, WorkInv, OnRoute, Busy, CreatePC, DeletePC, Answer, RestorePC, Failing,
     Setup, Write, Spoilt
<1>6. QED
  BY <1>1, <1>4, <1>5, LocalStep DEF TypeOK, Failing, Setup, Write, Spoilt

LEMMA ConfTyped ==
    ASSUME TypedInv, NEW r \in Request, Conf(r), UNCHANGED <<arcVars, workVars, oldVars>>
    PROVE  TypedInv'
<1>1. /\ TypeOK /\ WorkInv(r) /\ op[r] \in Ops /\ On(r) \in App
      /\ dir \in [App -> LiveTree] /\ dir[On(r)] \in LiveTree
  BY AtWork DEF TypedInv, Conf, Busy, Answer, TypeOK, InstTypeOK, LiveTree, Write, Spoilt
<1>2. dir' \in [App -> LiveTree]
  <2>1. {got[r]} \cup (IF op[r].kind = "jar" THEN {dir[On(r)].port} \ {0} ELSE {})
            \subseteq Port \cup {0}
    BY <1>1, TreeFields DEF TypeOK, InstTypeOK, LiveTree
  <2>2. ASSUME NEW p \in Port \cup {0},
               dir' = [dir EXCEPT ![On(r)] =
                         [dir[On(r)] EXCEPT !.port = p, !.kind = IF @ = "none" THEN "tomcat" ELSE @,
                                            !.stage = IF @ \in {"env", "full"} THEN "full" ELSE "bare"]]
        PROVE  dir' \in [App -> LiveTree]
    BY <1>1, <2>2, MadeTrees
  <2>3. CASE UNCHANGED dir
    BY <1>1, <2>3
  <2>4. QED
    BY <2>1, <2>2, <2>3 DEF Conf, Write, Spoilt
<1>3. pc' \in [Request -> Label]
  BY <1>1 DEF Conf, Failing, TypeOK, Label, CreatePC, UnitPC, DeletePC, BackupPC, RestorePC,
     Answer, Write, Spoilt
<1>4. TypeOK'
  BY <1>1, <1>2, <1>3, OpsAsked, Ports DEF TypeOK, InstTypeOK, LiveTree, Conf, Write, Spoilt
<1>5. WorkInv(r)'
  BY <1>1 DEF TypeOK, WorkInv, OnRoute, Busy, CreatePC, DeletePC, Answer, RestorePC, Failing,
     Conf, Write, Spoilt
<1>6. QED
  BY <1>1, <1>4, <1>5, LocalStep DEF TypeOK, Failing, Conf, Write, Spoilt

LEMMA CheckTyped ==
    ASSUME TypedInv, NEW r \in Request, Check(r), UNCHANGED <<arcVars, workVars, oldVars>>
    PROVE  TypedInv'
<1>1. /\ TypeOK /\ WorkInv(r) /\ op[r] \in Ops /\ On(r) \in App
      /\ dir \in [App -> LiveTree] /\ dir[On(r)] \in LiveTree
  BY AtWork DEF TypedInv, Check, Busy, Answer, TypeOK, InstTypeOK, LiveTree
<1>2. dir' \in [App -> LiveTree]
  BY <1>1 DEF Check
<1>3. pc' \in [Request -> Label]
  BY <1>1 DEF Check, Failing, TypeOK, Label, CreatePC, UnitPC, DeletePC, BackupPC, RestorePC,
     Answer
<1>4. TypeOK'
  BY <1>1, <1>2, <1>3, OpsAsked, Ports DEF TypeOK, InstTypeOK, LiveTree, Check
<1>5. WorkInv(r)'
  BY <1>1 DEF TypeOK, WorkInv, OnRoute, Busy, CreatePC, DeletePC, Answer, RestorePC, Failing,
     Check
<1>6. QED
  BY <1>1, <1>4, <1>5, LocalStep DEF TypeOK, Failing, Check

LEMMA ActTyped ==
    ASSUME TypedInv, NEW r \in Request, Act(r), UNCHANGED <<arcVars, workVars, oldVars>>
    PROVE  TypedInv'
<1>1. /\ TypeOK /\ WorkInv(r) /\ op[r] \in Ops /\ On(r) \in App
      /\ dir \in [App -> LiveTree] /\ dir[On(r)] \in LiveTree
  BY AtWork DEF TypedInv, Busy, Answer, TypeOK, InstTypeOK, LiveTree, Act
<1>2. dir' \in [App -> LiveTree]
  BY <1>1 DEF Act
<1>3. pc' \in [Request -> Label]
  BY <1>1 DEF Failing, TypeOK, Label, CreatePC, UnitPC, DeletePC, BackupPC, RestorePC, Answer,
     Act
<1>4. TypeOK'
  <2>1. listens' \in [App -> Port \cup {0}]
    <3>1. listens \in [App -> Port \cup {0}] /\ Bound(On(r)) \in Port \cup {0}
      BY <1>1, Ports DEF TypeOK, InstTypeOK
    <3>2. QED
      BY <1>1, <3>1 DEF Act
  <2>2. QED
    BY <1>1, <1>2, <1>3, <2>1 DEF TypeOK, InstTypeOK, LiveTree, Act
<1>5. WorkInv(r)'
  BY <1>1 DEF TypeOK, WorkInv, OnRoute, Busy, CreatePC, DeletePC, Answer, RestorePC, Failing,
     Act
<1>6. QED
  BY <1>1, <1>4, <1>5, LocalStep DEF TypeOK, Failing, Act

LEMMA RemoveSiteTyped ==
    ASSUME TypedInv, NEW r \in Request, RemoveSite(r), UNCHANGED <<arcVars, workVars, oldVars>>
    PROVE  TypedInv'
<1>1. /\ TypeOK /\ WorkInv(r) /\ op[r] \in Ops /\ On(r) \in App
      /\ dir \in [App -> LiveTree] /\ dir[On(r)] \in LiveTree
  BY AtWork DEF TypedInv, RemoveSite, Busy, Answer, TypeOK, InstTypeOK, LiveTree
<1>2. dir' \in [App -> LiveTree]
  <2>1. [dir[On(r)] EXCEPT !.dom = "none"] \in LiveTree
    BY <1>1, TreeChanges
  <2>2. QED
    BY <1>1, <2>1 DEF RemoveSite
<1>3. pc' \in [Request -> Label]
  BY <1>1 DEF RemoveSite, Failing, TypeOK, Label, CreatePC, UnitPC, DeletePC, BackupPC,
     RestorePC, Answer
<1>4. TypeOK'
  BY <1>1, <1>2, <1>3, OpsAsked, Ports DEF TypeOK, InstTypeOK, LiveTree, RemoveSite
<1>5. WorkInv(r)'
  BY <1>1 DEF TypeOK, WorkInv, OnRoute, Busy, CreatePC, DeletePC, Answer, RestorePC, Failing,
     RemoveSite
<1>6. QED
  BY <1>1, <1>4, <1>5, LocalStep DEF TypeOK, Failing, RemoveSite

LEMMA RemoveScheduleTyped ==
    ASSUME TypedInv, NEW r \in Request, RemoveSchedule(r), UNCHANGED <<arcVars, workVars, oldVars>>
    PROVE  TypedInv'
<1>1. /\ TypeOK /\ WorkInv(r) /\ op[r] \in Ops /\ On(r) \in App
      /\ dir \in [App -> LiveTree] /\ dir[On(r)] \in LiveTree
  BY AtWork DEF TypedInv, RemoveSchedule, Busy, Answer, TypeOK, InstTypeOK, LiveTree
<1>2. dir' \in [App -> LiveTree]
  BY <1>1 DEF RemoveSchedule
<1>3. pc' \in [Request -> Label]
  BY <1>1 DEF RemoveSchedule, Failing, TypeOK, Label, CreatePC, UnitPC, DeletePC, BackupPC,
     RestorePC, Answer
<1>4. TypeOK'
  BY <1>1, <1>2, <1>3, OpsAsked, Ports DEF TypeOK, InstTypeOK, LiveTree, RemoveSchedule
<1>5. WorkInv(r)'
  BY <1>1 DEF TypeOK, WorkInv, OnRoute, Busy, CreatePC, DeletePC, Answer, RestorePC, Failing,
     RemoveSchedule
<1>6. QED
  BY <1>1, <1>4, <1>5, LocalStep DEF TypeOK, Failing, RemoveSchedule

LEMMA InstallUnitTyped ==
    ASSUME TypedInv, NEW r \in Request, NEW then,
           \/ then = "start" /\ op[r].do \in {"create", "repair"}
           \/ then = "resecure" /\ op[r].do = "restore",
           InstallUnit(r, then), UNCHANGED <<arcVars, workVars, oldVars>>
    PROVE  TypedInv'
<1>1. /\ TypeOK /\ WorkInv(r) /\ op[r] \in Ops /\ On(r) \in App
      /\ dir \in [App -> LiveTree] /\ dir[On(r)] \in LiveTree
  BY AtWork DEF TypedInv, Busy, Answer, TypeOK, InstTypeOK, LiveTree, InstallUnit
<1>2. dir' \in [App -> LiveTree]
  BY <1>1 DEF InstallUnit
<1>3. pc' \in [Request -> Label]
  BY <1>1 DEF Failing, TypeOK, Label, CreatePC, UnitPC, DeletePC, BackupPC, RestorePC, Answer,
     InstallUnit
<1>4. TypeOK'
  BY <1>1, <1>2, <1>3, OpsAsked, Ports DEF TypeOK, InstTypeOK, LiveTree, InstallUnit
<1>5. WorkInv(r)'
  BY <1>1 DEF TypeOK, WorkInv, OnRoute, Busy, CreatePC, DeletePC, Answer, RestorePC, Failing,
     InstallUnit
<1>6. QED
  BY <1>1, <1>4, <1>5, LocalStep DEF TypeOK, Failing, InstallUnit

LEMMA StartUnitTyped ==
    ASSUME TypedInv, NEW r \in Request, NEW then,
           \/ then = "done" /\ op[r].do \in {"create", "repair"}
           \/ then = "republish" /\ op[r].do = "restore",
           StartUnit(r, then), UNCHANGED <<arcVars, workVars, oldVars>>
    PROVE  TypedInv'
<1>1. /\ TypeOK /\ WorkInv(r) /\ op[r] \in Ops /\ On(r) \in App
      /\ dir \in [App -> LiveTree] /\ dir[On(r)] \in LiveTree
  BY AtWork DEF TypedInv, Busy, Answer, TypeOK, InstTypeOK, LiveTree, StartUnit
<1>2. dir' \in [App -> LiveTree]
  BY <1>1 DEF StartUnit
<1>3. pc' \in [Request -> Label]
  BY <1>1 DEF Failing, TypeOK, Label, CreatePC, UnitPC, DeletePC, BackupPC, RestorePC, Answer,
     StartUnit
<1>4. TypeOK'
  <2>1. listens' \in [App -> Port \cup {0}]
    BY <1>1, Ports DEF TypeOK, InstTypeOK, Failing, StartUnit
  <2>2. QED
    BY <1>1, <1>2, <1>3, <2>1 DEF TypeOK, InstTypeOK, LiveTree, StartUnit
<1>5. WorkInv(r)'
  BY <1>1 DEF TypeOK, WorkInv, OnRoute, Busy, CreatePC, DeletePC, Answer, RestorePC, Failing,
     StartUnit
<1>6. QED
  BY <1>1, <1>4, <1>5, LocalStep DEF TypeOK, Failing, StartUnit

LEMMA DisableUnitTyped ==
    ASSUME TypedInv, NEW r \in Request, NEW l, NEW then,
           (l = "disable" /\ then = "tree") \/ (l = "halt" /\ then = "site"),
           DisableUnit(r, l, then), UNCHANGED <<arcVars, workVars, oldVars>>
    PROVE  TypedInv'
<1>1. /\ TypeOK /\ WorkInv(r) /\ op[r] \in Ops /\ On(r) \in App
      /\ dir \in [App -> LiveTree] /\ dir[On(r)] \in LiveTree
  BY AtWork DEF TypedInv, Busy, Answer, TypeOK, InstTypeOK, LiveTree, DisableUnit
<1>2. dir' \in [App -> LiveTree]
  BY <1>1 DEF DisableUnit
<1>3. pc' \in [Request -> Label]
  BY <1>1 DEF Failing, TypeOK, Label, CreatePC, UnitPC, DeletePC, BackupPC, RestorePC, Answer,
     DisableUnit
<1>4. TypeOK'
  <2>1. listens' \in [App -> Port \cup {0}]
    BY <1>1 DEF TypeOK, InstTypeOK, Failing, DisableUnit
  <2>2. QED
    BY <1>1, <1>2, <1>3, <2>1 DEF TypeOK, InstTypeOK, LiveTree, DisableUnit
<1>5. WorkInv(r)'
  BY <1>1 DEF TypeOK, WorkInv, OnRoute, Busy, CreatePC, DeletePC, Answer, RestorePC, Failing,
     DisableUnit
<1>6. QED
  BY <1>1, <1>4, <1>5, LocalStep DEF TypeOK, Failing, DisableUnit

LEMMA RemoveTreeTyped ==
    ASSUME TypedInv, NEW r \in Request, NEW end,
           (end = "done" /\ op[r].do = "delete") \/ (end = "clear" /\ op[r].do = "restore"),
           RemoveTree(r, end), UNCHANGED <<arcVars, workVars, oldVars>>
    PROVE  TypedInv'
<1>1. /\ TypeOK /\ WorkInv(r) /\ op[r] \in Ops /\ On(r) \in App
      /\ dir \in [App -> LiveTree] /\ dir[On(r)] \in LiveTree
  BY AtWork DEF TypedInv, Busy, Answer, TypeOK, InstTypeOK, LiveTree, RemoveTree
<1>2. dir' \in [App -> LiveTree]
  BY <1>1, Trees, HalfTrees DEF RemoveTree
<1>3. pc' \in [Request -> Label]
  BY <1>1 DEF Failing, TypeOK, Label, CreatePC, UnitPC, DeletePC, BackupPC, RestorePC, Answer,
     RemoveTree
<1>4. TypeOK'
  BY <1>1, <1>2, <1>3, OpsAsked, Ports DEF TypeOK, InstTypeOK, LiveTree, RemoveTree
<1>5. WorkInv(r)'
  BY <1>1 DEF TypeOK, WorkInv, OnRoute, Busy, CreatePC, DeletePC, Answer, RestorePC, Failing,
     RemoveTree
<1>6. QED
  BY <1>1, <1>4, <1>5, LocalStep DEF TypeOK, Failing, RemoveTree

\* So does each step of a backup,
LEMMA BackupCheckTyped ==
    ASSUME TypedInv, NEW r \in Request, BackupCheck(r)
    PROVE  TypedInv'
<1>1. /\ TypeOK /\ WorkInv(r) /\ op[r] \in Ops /\ On(r) \in App
      /\ dir \in [App -> LiveTree] /\ dir[On(r)] \in LiveTree
  BY AtWork DEF TypedInv, Busy, Answer, TypeOK, InstTypeOK, LiveTree, BackupCheck
<1>2. dir' \in [App -> LiveTree]
  BY <1>1 DEF BackupCheck
<1>3. pc' \in [Request -> Label]
  BY <1>1 DEF Failing, TypeOK, Label, CreatePC, UnitPC, DeletePC, BackupPC, RestorePC, Answer,
     BackupCheck
<1>4. TypeOK'
  BY <1>1, <1>2, <1>3, OpsAsked, Ports DEF TypeOK, InstTypeOK, LiveTree, BackupCheck
<1>5. WorkInv(r)'
  BY <1>1 DEF TypeOK, WorkInv, OnRoute, Busy, CreatePC, DeletePC, Answer, RestorePC, Failing,
     BackupCheck
<1>6. QED
  BY <1>1, <1>4, <1>5, LocalStep DEF TypeOK, Failing, BackupCheck

LEMMA PackTyped ==
    ASSUME TypedInv, NEW r \in Request, Pack(r)
    PROVE  TypedInv'
<1>1. /\ TypeOK /\ WorkInv(r) /\ op[r] \in Ops /\ On(r) \in App
      /\ dir \in [App -> LiveTree] /\ dir[On(r)] \in LiveTree
  BY AtWork DEF TypedInv, Busy, Answer, TypeOK, InstTypeOK, LiveTree, Pack
<1>2. dir' \in [App -> LiveTree]
  BY <1>1 DEF Pack
<1>3. pc' \in [Request -> Label]
  BY <1>1 DEF Failing, TypeOK, Label, CreatePC, UnitPC, DeletePC, BackupPC, RestorePC, Answer,
     Pack
<1>4. TypeOK'
  <2>1. Image(dir[On(r)]) \in Tree /\ Torn \in Tree
    BY <1>1, ImageTree, Trees
  <2>2. ASSUME NEW n \in Arch,
               tmp' = [tmp EXCEPT ![n] = IF @ = NoTree THEN Image(dir[On(r)]) ELSE Torn]
        PROVE  tmp' \in [Arch -> Tree]
    BY <1>1, <2>1, <2>2 DEF TypeOK
  <2>3. tmp' \in [Arch -> Tree]
    <3>1. CASE UNCHANGED tmp
      BY <1>1, <3>1 DEF TypeOK
    <3>2. CASE ~UNCHANGED tmp
      <4>1. PICK t \in Stamp :
               tmp' = [tmp EXCEPT ![<<On(r), t>>] = IF @ = NoTree THEN Image(dir[On(r)]) ELSE Torn]
        BY <3>2 DEF Pack
      <4>2. <<On(r), t>> \in Arch
        BY <1>1 DEF Arch
      <4>3. QED
        BY <2>2, <4>1, <4>2
    <3>3. QED
      BY <3>1, <3>2
  <2>4. name' \in [Request -> Arch \cup {NoArch}] /\ now' \in Stamp \cup {0}
    BY <1>1 DEF TypeOK, Pack, Arch
  <2>5. QED
    BY <1>1, <1>2, <1>3, <2>3, <2>4 DEF TypeOK, InstTypeOK, LiveTree, Pack
<1>5. WorkInv(r)'
  <2>1. ASSUME pc'[r] = "publish" PROVE name'[r] \in Arch
    <3>1. PICK t \in Stamp : name' = [name EXCEPT ![r] = <<On(r), t>>]
      BY <1>1, <2>1 DEF Pack, TypeOK, Failing
    <3>2. <<On(r), t>> \in Arch
      BY <1>1 DEF Arch
    <3>3. QED
      BY <1>1, <3>1, <3>2 DEF TypeOK
  <2>2. pc'[r] \in {"publish", "failed"} /\ op' = op
    BY <1>1 DEF TypeOK, Pack, Failing
  <2>3. op[r].do = "backup"
    BY Routes DEF Pack, BackupPC
  <2>4. QED
    BY <2>1, <2>2, <2>3 DEF WorkInv, OnRoute, Answer
<1>6. QED
  BY <1>1, <1>4, <1>5, LocalStep DEF TypeOK, Failing, Pack

LEMMA PublishTyped ==
    ASSUME TypedInv, NEW r \in Request, Publish(r)
    PROVE  TypedInv'
<1>1. /\ TypeOK /\ WorkInv(r) /\ op[r] \in Ops /\ On(r) \in App
      /\ dir \in [App -> LiveTree] /\ dir[On(r)] \in LiveTree
  BY AtWork DEF TypedInv, Busy, Answer, TypeOK, InstTypeOK, LiveTree, Publish
<1>2. dir' \in [App -> LiveTree]
  BY <1>1 DEF Publish
<1>3. pc' \in [Request -> Label]
  BY <1>1 DEF Failing, TypeOK, Label, CreatePC, UnitPC, DeletePC, BackupPC, RestorePC, Answer,
     Publish
<1>4. TypeOK'
  <2>1. name[r] \in Arch
    BY <1>1 DEF WorkInv, Publish
  <2>2. store' \in [Arch -> Tree] /\ tmp' \in [Arch -> Tree]
    BY <1>1, <2>1, Trees DEF TypeOK, Publish, LiveTree
  <2>3. QED
    BY <1>1, <1>2, <1>3, <2>1, <2>2 DEF TypeOK, InstTypeOK, LiveTree, Publish
<1>5. WorkInv(r)'
  BY <1>1 DEF TypeOK, WorkInv, OnRoute, Busy, CreatePC, DeletePC, Answer, RestorePC, Failing,
     Publish
<1>6. QED
  BY <1>1, <1>4, <1>5, LocalStep DEF TypeOK, Failing, Publish

LEMMA UploadTyped ==
    ASSUME TypedInv, NEW r \in Request, Upload(r)
    PROVE  TypedInv'
<1>1. /\ TypeOK /\ WorkInv(r) /\ op[r] \in Ops /\ On(r) \in App
      /\ dir \in [App -> LiveTree] /\ dir[On(r)] \in LiveTree
  BY AtWork DEF TypedInv, Busy, Answer, TypeOK, InstTypeOK, LiveTree, Upload
<1>2. dir' \in [App -> LiveTree]
  BY <1>1 DEF Upload
<1>3. pc' \in [Request -> Label]
  BY <1>1 DEF Failing, TypeOK, Label, CreatePC, UnitPC, DeletePC, BackupPC, RestorePC, Answer,
     Upload
<1>4. TypeOK'
  BY <1>1, <1>2, <1>3, OpsAsked, Ports DEF TypeOK, InstTypeOK, LiveTree, Upload
<1>5. WorkInv(r)'
  <2>1. op[r].do = "backup" /\ op[r].keep \in Keep \cup {0}
    BY <1>1, Routes, OpsAsked DEF BackupPC, Upload
  <2>2. QED
    BY <1>1, <2>1 DEF TypeOK, WorkInv, OnRoute, Busy, CreatePC, DeletePC, Answer, RestorePC,
       Failing, Upload
<1>6. QED
  BY <1>1, <1>4, <1>5, LocalStep DEF TypeOK, Failing, Upload

LEMMA PruneListTyped ==
    ASSUME TypedInv, NEW r \in Request, PruneList(r)
    PROVE  TypedInv'
<1>1. /\ TypeOK /\ WorkInv(r) /\ op[r] \in Ops /\ On(r) \in App
      /\ dir \in [App -> LiveTree] /\ dir[On(r)] \in LiveTree
  BY AtWork DEF TypedInv, Busy, Answer, TypeOK, InstTypeOK, LiveTree, PruneList
<1>2. dir' \in [App -> LiveTree]
  BY <1>1 DEF PruneList
<1>3. pc' \in [Request -> Label]
  BY <1>1 DEF Failing, TypeOK, Label, CreatePC, UnitPC, DeletePC, BackupPC, RestorePC, Answer,
     PruneList
<1>4. TypeOK'
  <2>1. \A d, k : Beyond(On(r), d, k) \subseteq Arch
    BY <1>1 DEF Beyond
  <2>2. vict' \in [Request -> SUBSET Arch]
    BY <1>1, <2>1 DEF TypeOK, PruneList
  <2>3. QED
    BY <1>1, <1>2, <1>3, <2>1, <2>2 DEF TypeOK, InstTypeOK, LiveTree, PruneList
<1>5. WorkInv(r)'
  BY <1>1 DEF TypeOK, WorkInv, OnRoute, Busy, CreatePC, DeletePC, Answer, RestorePC, Failing,
     PruneList
<1>6. QED
  BY <1>1, <1>4, <1>5, LocalStep DEF TypeOK, Failing, PruneList

LEMMA PruneDropTyped ==
    ASSUME TypedInv, NEW r \in Request, PruneDrop(r)
    PROVE  TypedInv'
<1>1. /\ TypeOK /\ WorkInv(r) /\ op[r] \in Ops /\ On(r) \in App
      /\ dir \in [App -> LiveTree] /\ dir[On(r)] \in LiveTree
  BY AtWork DEF TypedInv, Busy, Answer, TypeOK, InstTypeOK, LiveTree, PruneDrop, Put
<1>2. dir' \in [App -> LiveTree]
  BY <1>1 DEF PruneDrop, Put
<1>3. pc' \in [Request -> Label]
  BY <1>1 DEF Failing, TypeOK, Label, CreatePC, UnitPC, DeletePC, BackupPC, RestorePC, Answer,
     PruneDrop, Put
<1>4. TypeOK'
  <2>1. vict' \in [Request -> SUBSET Arch]
    BY <1>1 DEF TypeOK, PruneDrop
  <2>2. ASSUME NEW n \in vict[r], Put(at[r], n, NoTree)
        PROVE  store' \in [Arch -> Tree] /\ remote' \in [Profile -> [Arch -> Tree]]
    <3>1. n \in Arch /\ at[r] \in Dest /\ NoTree \in Tree
      BY <1>1, Trees DEF TypeOK, LiveTree
    <3>2. CASE at[r] = "local"
      BY <1>1, <2>2, <3>1, <3>2 DEF Put, TypeOK
    <3>3. CASE at[r] # "local"
      <4>1. at[r] \in Profile
        BY <3>1, <3>3 DEF Dest
      <4>2. [remote[at[r]] EXCEPT ![n] = NoTree] \in [Arch -> Tree]
        BY <1>1, <3>1, <4>1 DEF TypeOK
      <4>3. QED
        BY <1>1, <2>2, <3>3, <4>1, <4>2 DEF Put, TypeOK
    <3>4. QED
      BY <3>2, <3>3
  <2>3. store' \in [Arch -> Tree] /\ remote' \in [Profile -> [Arch -> Tree]]
    BY <1>1, <2>2 DEF TypeOK, PruneDrop
  <2>4. QED
    BY <1>1, <1>2, <1>3, <2>1, <2>3 DEF TypeOK, InstTypeOK, LiveTree, PruneDrop
<1>5. WorkInv(r)'
  BY <1>1 DEF TypeOK, WorkInv, OnRoute, Busy, CreatePC, DeletePC, Answer, RestorePC, Failing,
     PruneDrop, Put
<1>6. QED
  BY <1>1, <1>4, <1>5, LocalStep DEF TypeOK, Failing, PruneDrop, Put

LEMMA DeleteBackupTyped ==
    ASSUME TypedInv, NEW r \in Request, DeleteBackup(r)
    PROVE  TypedInv'
<1>1. /\ TypeOK /\ WorkInv(r) /\ op[r] \in Ops /\ On(r) \in App
      /\ dir \in [App -> LiveTree] /\ dir[On(r)] \in LiveTree
  BY AtWork DEF TypedInv, Busy, Answer, TypeOK, InstTypeOK, LiveTree, DeleteBackup
<1>2. dir' \in [App -> LiveTree]
  BY <1>1 DEF DeleteBackup
<1>3. pc' \in [Request -> Label]
  BY <1>1 DEF Failing, TypeOK, Label, CreatePC, UnitPC, DeletePC, BackupPC, RestorePC, Answer,
     DeleteBackup
<1>4. TypeOK'
  <2>1. op[r].arch \in Arch
    BY <1>1, Routes, OpsAsked DEF DeleteBackup
  <2>2. store' \in [Arch -> Tree]
    BY <1>1, <2>1, Trees DEF TypeOK, DeleteBackup, LiveTree
  <2>3. remote' \in [Profile -> [Arch -> Tree]]
    BY <1>1, <2>1, Trees DEF TypeOK, DeleteBackup, LiveTree
  <2>4. QED
    BY <1>1, <1>2, <1>3, <2>1, <2>2, <2>3 DEF TypeOK, InstTypeOK, LiveTree, DeleteBackup
<1>5. WorkInv(r)'
  BY <1>1 DEF TypeOK, WorkInv, OnRoute, Busy, CreatePC, DeletePC, Answer, RestorePC, Failing,
     DeleteBackup
<1>6. QED
  BY <1>1, <1>4, <1>5, LocalStep DEF TypeOK, Failing, DeleteBackup

\* and each step of a restore that is its own.
LEMMA FetchTyped ==
    ASSUME TypedInv, NEW r \in Request, Fetch(r)
    PROVE  TypedInv'
<1>1. /\ TypeOK /\ WorkInv(r) /\ op[r] \in Ops /\ On(r) \in App
      /\ dir \in [App -> LiveTree] /\ dir[On(r)] \in LiveTree
  BY AtWork DEF TypedInv, Busy, Answer, TypeOK, InstTypeOK, LiveTree, Fetch
<1>2. dir' \in [App -> LiveTree]
  BY <1>1 DEF Fetch
<1>3. pc' \in [Request -> Label]
  BY <1>1 DEF Failing, TypeOK, Label, CreatePC, UnitPC, DeletePC, BackupPC, RestorePC, Answer,
     Fetch
<1>4. TypeOK'
  <2>1. op[r].arch \in Arch
    BY <1>1, Routes, OpsAsked DEF Fetch, RestorePC
  <2>2. store' \in [Arch -> Tree]
    BY <1>1, <2>1, Trees DEF TypeOK, LiveTree, Fetch
  <2>3. staged' \in [Request -> Tree]
    BY <1>1, <2>1, Trees DEF TypeOK, LiveTree, Fetch
  <2>4. QED
    BY <1>1, <1>2, <1>3, <2>1, <2>2, <2>3 DEF TypeOK, InstTypeOK, LiveTree, Fetch
<1>5. WorkInv(r)'
  BY <1>1 DEF TypeOK, WorkInv, OnRoute, Busy, CreatePC, DeletePC, Answer, RestorePC, Failing,
     Fetch
<1>6. QED
  BY <1>1, <1>4, <1>5, LocalStep DEF TypeOK, Failing, Fetch

LEMMA DownloadTyped ==
    ASSUME TypedInv, NEW r \in Request, Download(r)
    PROVE  TypedInv'
<1>1. /\ TypeOK /\ WorkInv(r) /\ op[r] \in Ops /\ On(r) \in App
      /\ dir \in [App -> LiveTree] /\ dir[On(r)] \in LiveTree
  BY AtWork DEF TypedInv, Busy, Answer, TypeOK, InstTypeOK, LiveTree, Download
<1>2. dir' \in [App -> LiveTree]
  BY <1>1 DEF Download
<1>3. pc' \in [Request -> Label]
  BY <1>1 DEF Failing, TypeOK, Label, CreatePC, UnitPC, DeletePC, BackupPC, RestorePC, Answer,
     Download
<1>4. TypeOK'
  <2>1. op[r].arch \in Arch
    BY <1>1, Routes, OpsAsked DEF Download, RestorePC
  <2>2. store' \in [Arch -> Tree]
    BY <1>1, <2>1, Trees DEF TypeOK, LiveTree, Download
  <2>3. staged' \in [Request -> Tree]
    BY <1>1, <2>1, Trees DEF TypeOK, LiveTree, Download
  <2>4. QED
    BY <1>1, <1>2, <1>3, <2>1, <2>2, <2>3 DEF TypeOK, InstTypeOK, LiveTree, Download
<1>5. WorkInv(r)'
  BY <1>1 DEF TypeOK, WorkInv, OnRoute, Busy, CreatePC, DeletePC, Answer, RestorePC, Failing,
     Download
<1>6. QED
  BY <1>1, <1>4, <1>5, LocalStep DEF TypeOK, Failing, Download

LEMMA StageTyped ==
    ASSUME TypedInv, NEW r \in Request, Stage(r)
    PROVE  TypedInv'
<1>1. /\ TypeOK /\ WorkInv(r) /\ op[r] \in Ops /\ On(r) \in App
      /\ dir \in [App -> LiveTree] /\ dir[On(r)] \in LiveTree
  BY AtWork DEF TypedInv, Busy, Answer, TypeOK, InstTypeOK, LiveTree, Stage, StageIf
<1>2. dir' \in [App -> LiveTree]
  BY <1>1 DEF Stage, StageIf
<1>3. pc' \in [Request -> Label]
  BY <1>1 DEF Failing, TypeOK, Label, CreatePC, UnitPC, DeletePC, BackupPC, RestorePC, Answer,
     Stage, StageIf
<1>4. TypeOK'
  <2>1. op[r].arch \in Arch
    BY <1>1, Routes, OpsAsked DEF Stage, StageIf, RestorePC
  <2>2. staged' \in [Request -> Tree] /\ proven' \subseteq Request
    BY <1>1, <2>1 DEF TypeOK, Stage, StageIf
  <2>3. QED
    BY <1>1, <1>2, <1>3, <2>1, <2>2 DEF TypeOK, InstTypeOK, LiveTree, Stage, StageIf
<1>5. WorkInv(r)'
  BY <1>1 DEF TypeOK, WorkInv, OnRoute, Busy, CreatePC, DeletePC, Answer, RestorePC, Failing,
     Stage, StageIf
<1>6. QED
  BY <1>1, <1>4, <1>5, LocalStep DEF TypeOK, Failing, Stage, StageIf

LEMMA ClearTyped ==
    ASSUME TypedInv, NEW r \in Request, Clear(r)
    PROVE  TypedInv'
<1>1. /\ TypeOK /\ WorkInv(r) /\ op[r] \in Ops /\ On(r) \in App
      /\ dir \in [App -> LiveTree] /\ dir[On(r)] \in LiveTree
  BY AtWork DEF TypedInv, Busy, Answer, TypeOK, InstTypeOK, LiveTree, Clear
<1>2. dir' \in [App -> LiveTree]
  BY <1>1, Trees, HalfTrees DEF Clear
<1>3. pc' \in [Request -> Label]
  BY <1>1 DEF Failing, TypeOK, Label, CreatePC, UnitPC, DeletePC, BackupPC, RestorePC, Answer,
     Clear
<1>4. TypeOK'
  <2>1. Forgotten(On(r)) \subseteq Domain
    BY <1>1, TreeFields DEF Forgotten, LiveTree
  <2>2. QED
    BY <1>1, <1>2, <1>3, <2>1 DEF TypeOK, InstTypeOK, LiveTree, Clear
<1>5. WorkInv(r)'
  BY <1>1 DEF TypeOK, WorkInv, OnRoute, Busy, CreatePC, DeletePC, Answer, RestorePC, Failing,
     Clear
<1>6. QED
  BY <1>1, <1>4, <1>5, LocalStep DEF TypeOK, Failing, Clear

LEMMA MoveTyped ==
    ASSUME TypedInv, NEW r \in Request, Move(r)
    PROVE  TypedInv'
<1>1. /\ TypeOK /\ WorkInv(r) /\ op[r] \in Ops /\ On(r) \in App
      /\ dir \in [App -> LiveTree] /\ dir[On(r)] \in LiveTree
  BY AtWork DEF TypedInv, Busy, Answer, TypeOK, InstTypeOK, LiveTree, Move
<1>2. dir' \in [App -> LiveTree]
  <2>1. staged[r] \in LiveTree
    BY <1>1, Routes DEF Move, WorkInv, Whole, TypeOK, LiveTree, RestorePC
  <2>2. QED
    BY <1>1, <2>1, Trees DEF Move
<1>3. pc' \in [Request -> Label]
  BY <1>1 DEF Failing, TypeOK, Label, CreatePC, UnitPC, DeletePC, BackupPC, RestorePC, Answer,
     Move
<1>4. TypeOK'
  BY <1>1, <1>2, <1>3, OpsAsked, Ports DEF TypeOK, InstTypeOK, LiveTree, Move
<1>5. WorkInv(r)'
  BY <1>1 DEF TypeOK, WorkInv, OnRoute, Busy, CreatePC, DeletePC, Answer, RestorePC, Failing,
     Move
<1>6. QED
  BY <1>1, <1>4, <1>5, LocalStep DEF TypeOK, Failing, Move

LEMMA RemarkTyped ==
    ASSUME TypedInv, NEW r \in Request, Remark(r)
    PROVE  TypedInv'
<1>1. /\ TypeOK /\ WorkInv(r) /\ op[r] \in Ops /\ On(r) \in App
      /\ dir \in [App -> LiveTree] /\ dir[On(r)] \in LiveTree
  BY AtWork DEF TypedInv, Busy, Answer, TypeOK, InstTypeOK, LiveTree, Remark
<1>2. dir' \in [App -> LiveTree]
  BY <1>1, Trees, TreeChanges DEF Remark
<1>3. pc' \in [Request -> Label]
  BY <1>1 DEF Failing, TypeOK, Label, CreatePC, UnitPC, DeletePC, BackupPC, RestorePC, Answer,
     Remark
<1>4. TypeOK'
  BY <1>1, <1>2, <1>3, OpsAsked, Ports DEF TypeOK, InstTypeOK, LiveTree, Remark
<1>5. WorkInv(r)'
  BY <1>1 DEF TypeOK, WorkInv, OnRoute, Busy, CreatePC, DeletePC, Answer, RestorePC, Failing,
     Remark
<1>6. QED
  BY <1>1, <1>4, <1>5, LocalStep DEF TypeOK, Failing, Remark

LEMMA PlaceTyped ==
    ASSUME TypedInv, NEW r \in Request, Place(r)
    PROVE  TypedInv'
<1>1. /\ TypeOK /\ WorkInv(r) /\ op[r] \in Ops /\ On(r) \in App
      /\ dir \in [App -> LiveTree] /\ dir[On(r)] \in LiveTree
  BY AtWork DEF TypedInv, Busy, Answer, TypeOK, InstTypeOK, LiveTree, Place
<1>2. dir' \in [App -> LiveTree]
  <2>1. \A p \in Port \cup {0} :
           [dir[On(r)] EXCEPT !.port = IF @ = 0 THEN 0 ELSE p, !.dom = "none"] \in LiveTree
    BY <1>1 DEF LiveTree, Tree
  <2>2. ASSUME NEW p \in Port \cup {0},
               dir' = [dir EXCEPT ![On(r)] = [dir[On(r)] EXCEPT !.port = IF @ = 0 THEN 0 ELSE p, !.dom = "none"]]
        PROVE  dir' \in [App -> LiveTree]
    BY <1>1, <2>1, <2>2
  <2>3. CASE UNCHANGED dir
    BY <1>1, <2>3
  <2>4. CASE ~UNCHANGED dir
    <3>1. PICK p \in allocate_port(0) :
             dir' = [dir EXCEPT ![On(r)].port = IF @ = 0 THEN 0 ELSE p, ![On(r)].dom = "none"]
      BY <2>4 DEF Place
    <3>2. p \in Port \cup {0}
      BY Ports
    <3>3. dir' = [dir EXCEPT ![On(r)] = [dir[On(r)] EXCEPT !.port = IF @ = 0 THEN 0 ELSE p, !.dom = "none"]]
      BY <1>1, <3>1
    <3>4. QED
      BY <2>2, <3>2, <3>3
  <2>5. QED
    BY <2>3, <2>4
<1>3. pc' \in [Request -> Label]
  BY <1>1 DEF Failing, TypeOK, Label, CreatePC, UnitPC, DeletePC, BackupPC, RestorePC, Answer,
     Place
<1>4. TypeOK'
  BY <1>1, <1>2, <1>3, OpsAsked, Ports DEF TypeOK, InstTypeOK, LiveTree, Place
<1>5. WorkInv(r)'
  BY <1>1 DEF TypeOK, WorkInv, OnRoute, Busy, CreatePC, DeletePC, Answer, RestorePC, Failing,
     Place
<1>6. QED
  BY <1>1, <1>4, <1>5, LocalStep DEF TypeOK, Failing, Place

LEMMA ResecureTyped ==
    ASSUME TypedInv, NEW r \in Request, Resecure(r)
    PROVE  TypedInv'
<1>1. /\ TypeOK /\ WorkInv(r) /\ op[r] \in Ops /\ On(r) \in App
      /\ dir \in [App -> LiveTree] /\ dir[On(r)] \in LiveTree
  BY AtWork DEF TypedInv, Busy, Answer, TypeOK, InstTypeOK, LiveTree, Resecure
<1>2. dir' \in [App -> LiveTree]
  BY <1>1, Trees DEF Resecure
<1>3. pc' \in [Request -> Label]
  BY <1>1 DEF Failing, TypeOK, Label, CreatePC, UnitPC, DeletePC, BackupPC, RestorePC, Answer,
     Resecure
<1>4. TypeOK'
  BY <1>1, <1>2, <1>3, OpsAsked, Ports DEF TypeOK, InstTypeOK, LiveTree, Resecure
<1>5. WorkInv(r)'
  BY <1>1 DEF TypeOK, WorkInv, OnRoute, Busy, CreatePC, DeletePC, Answer, RestorePC, Failing,
     Resecure
<1>6. QED
  BY <1>1, <1>4, <1>5, LocalStep DEF TypeOK, Failing, Resecure

LEMMA RepublishTyped ==
    ASSUME TypedInv, NEW r \in Request, Republish(r)
    PROVE  TypedInv'
<1>1. /\ TypeOK /\ WorkInv(r) /\ op[r] \in Ops /\ On(r) \in App
      /\ dir \in [App -> LiveTree] /\ dir[On(r)] \in LiveTree
  BY AtWork DEF TypedInv, Busy, Answer, TypeOK, InstTypeOK, LiveTree, Republish
<1>2. Wanted(r) \in Domain \cup {"none"}
  BY <1>1, Routes, OpsAsked, TreeFields DEF Republish, RestorePC, TypeOK, Wanted
<1>3. pc' \in [Request -> Label]
  BY <1>1 DEF TypeOK, Label, RestorePC, Answer, Republish
<1>4. site' \in [Domain -> App \cup {"none"}] /\ unnamed' \subseteq Domain
  BY <1>1, <1>2 DEF TypeOK, InstTypeOK, Republish, Nameless
<1>5. TypeOK'
  BY <1>1, <1>3, <1>4 DEF TypeOK, InstTypeOK, Republish
<1>6. WorkInv(r)'
  BY <1>1 DEF TypeOK, WorkInv, OnRoute, Busy, CreatePC, DeletePC, Answer, RestorePC, Wanted,
     Republish
<1>7. QED
  BY <1>1, <1>5, <1>6, LocalStep DEF TypeOK, Republish

LEMMA NameSiteTyped ==
    ASSUME TypedInv, NEW r \in Request, NameSite(r)
    PROVE  TypedInv'
<1>1. /\ TypeOK /\ WorkInv(r) /\ op[r] \in Ops /\ On(r) \in App
      /\ dir \in [App -> LiveTree] /\ dir[On(r)] \in LiveTree
  BY AtWork DEF TypedInv, Busy, Answer, TypeOK, InstTypeOK, LiveTree, NameSite
<1>2. Wanted(r) \in Domain \cup {"none"}
  BY <1>1, Routes, OpsAsked, TreeFields DEF NameSite, RestorePC, TypeOK, Wanted
<1>3. pc' \in [Request -> Label]
  BY <1>1 DEF TypeOK, Label, RestorePC, Answer, NameSite
<1>4. /\ dir' \in [App -> LiveTree] /\ site' \in [Domain -> App \cup {"none"}]
      /\ unnamed' \subseteq Domain
  <2>1. /\ [dir[On(r)] EXCEPT !.dom = Wanted(r)] \in LiveTree
        /\ [Bare EXCEPT !.dom = Wanted(r)] \in LiveTree
    BY <1>1, <1>2, Trees, TreeChanges
  <2>2. dir' \in [App -> LiveTree]
    BY <1>1, <2>1 DEF NameSite
  <2>3. site' \in [Domain -> App \cup {"none"}] /\ unnamed' \subseteq Domain
    BY <1>1, <1>2 DEF TypeOK, InstTypeOK, NameSite, Nameless, WorkInv
  <2>4. QED
    BY <2>2, <2>3
<1>5. TypeOK'
  BY <1>1, <1>3, <1>4 DEF TypeOK, InstTypeOK, LiveTree, NameSite
<1>6. WorkInv(r)'
  BY <1>1 DEF TypeOK, WorkInv, OnRoute, Busy, CreatePC, DeletePC, Answer, RestorePC, Wanted,
     NameSite
<1>7. QED
  BY <1>1, <1>5, <1>6, LocalStep DEF TypeOK, NameSite

\* A restore whose tree does not name its runtime ends there.
LEMMA RestoreUnitTyped == ASSUME TypedInv, NEW r \in Request, RestoreUnit(r) PROVE TypedInv'
<1>1. CASE InstallUnit(r, "resecure")
  BY <1>1, InstallUnitTyped DEF RestoreUnit
<1>2. CASE pc[r] = "unit" /\ Goto(r, "failed") /\ UNCHANGED <<appVars, kept>>
  <2>1. TypeOK'
    BY <1>2 DEF RestoreUnit, TypedInv, TypeOK, InstTypeOK, Label, Answer
  <2>2. WorkInv(r)'
    <3>1. pc'[r] = "failed"
      BY <1>2 DEF TypedInv, TypeOK
    <3>2. QED
      BY <3>1 DEF WorkInv, OnRoute, Busy, Answer, DeletePC
  <2>3. QED
    BY <1>2, <2>1, <2>2, LocalStep DEF RestoreUnit, TypedInv, TypeOK
<1>3. QED
  BY <1>1, <1>2 DEF RestoreUnit

\* A request is made: its label is the first of its route.
LEMMA AskTyped == ASSUME TypedInv, NEW r \in Request, AskAny(r) PROVE TypedInv'
<1>1. PICK o \in Ops, l \in Label :
         /\ Begin(r, o, l) /\ OnRoute(l, o)
         /\ l \in {"admit", "site", "check", "act", "bcheck", "discard", "fetch"}
         /\ o.do = "restore" => l = "fetch"
  <2>1. ASSUME NEW o \in Asked, Begin(r, o, Enter(o))
        PROVE  /\ o \in Ops /\ Enter(o) \in Label /\ OnRoute(Enter(o), o) /\ o.do # "restore"
               /\ Enter(o) \in {"admit", "site", "check", "act", "bcheck", "discard", "fetch"}
    BY DEF Asked, Ops, Enter, Label, OnRoute, CreatePC, UnitPC, DeletePC
  <2>2. ASSUME NEW o \in BackupOps
        PROVE  o \in Ops /\ "bcheck" \in Label /\ OnRoute("bcheck", o) /\ o.do # "restore"
    BY DEF BackupOps, Ops, Label, OnRoute, BackupPC
  <2>3. ASSUME NEW o \in DiscardOps
        PROVE  o \in Ops /\ "discard" \in Label /\ OnRoute("discard", o) /\ o.do # "restore"
    BY DEF DiscardOps, Ops, Label, OnRoute, BackupPC
  <2>4. ASSUME NEW o \in RestoreOps
        PROVE  o \in Ops /\ "fetch" \in Label /\ OnRoute("fetch", o)
    BY DEF RestoreOps, Ops, Label, OnRoute, RestorePC
  <2>5. QED
    BY <2>1, <2>2, <2>3, <2>4 DEF AskAny, Ask
<1>2. op' \in [Request -> Ops] /\ pc' \in [Request -> Label] /\ alone' \in BOOLEAN
  BY <1>1 DEF TypedInv, TypeOK, Begin, Ops, Busy
<1>3. TypeOK'
  BY <1>1, <1>2 DEF AskAny, TypedInv, TypeOK, InstTypeOK, Begin, Ops
<1>4. WorkInv(r)'
  <2>1. pc'[r] = l /\ op'[r] = o
    BY <1>1 DEF TypedInv, TypeOK, Begin
  <2>2. QED
    BY <1>1, <2>1 DEF WorkInv, DeletePC
<1>5. QED
  BY <1>1, <1>3, <1>4, LocalStep DEF AskAny, TypedInv, TypeOK, Begin

\* A request that dies leaves its route.
LEMMA KilledTyped == ASSUME TypedInv, NEW r \in Request, Killed(r) PROVE TypedInv'
<1>1. /\ TypeOK /\ WorkInv(r) /\ On(r) \in App
      /\ dir \in [App -> LiveTree] /\ dir[On(r)] \in LiveTree
  BY AtWork DEF TypedInv, TypeOK, InstTypeOK, LiveTree, Killed, Dies
<1>2. dir' \in [App -> LiveTree]
  BY <1>1, Trees, HalfTrees DEF Killed, Dies
<1>3. Forgotten(On(r)) \subseteq Domain
  BY <1>1, TreeFields DEF Forgotten, LiveTree
<1>4. cut' \subseteq App /\ dropped' \subseteq Domain /\ unnamed' \subseteq Domain
  <2>1. pc[r] = "marker" => Wanted(r) \in Domain
    BY <1>1, AtWork, Routes, OpsAsked, TreeFields DEF Killed, Dies, RestorePC, TypeOK, WorkInv, Wanted
  <2>2. QED
    BY <1>1, <1>3, <2>1 DEF Killed, Dies, TypeOK, InstTypeOK, Nameless
<1>5. TypeOK'
  BY <1>1, <1>2, <1>4 DEF Killed, Dies, TypeOK, InstTypeOK, LiveTree, Label, Answer
<1>6. WorkInv(r)'
  BY <1>1 DEF Killed, Dies, TypeOK, WorkInv, OnRoute, Answer, Busy, DeletePC
<1>7. QED
  BY <1>1, <1>5, <1>6, LocalStep DEF Killed, Dies, TypeOK

\* Nothing is asked when the plugin is installed.
LEMMA TypedInitial == Init => TypedInv
<1> SUFFICES ASSUME Init PROVE TypedInv
  OBVIOUS
<1>1. PICK i \in Initial :
         /\ dir = i.dir /\ unit \subseteq App /\ sched = unit
         /\ listens \in {[a \in App |-> 0], [a \in App |-> i.dir[a].port]}
         /\ store = i.store /\ remote = [p \in Profile |-> i.remote] /\ now = i.now
  BY DEF Init
<1>2. dir \in [App -> LiveTree]
  BY <1>1, InitialAssumption DEF LiveTree
<1>3. listens \in [App -> Port \cup {0}]
  BY <1>1, <1>2, TreeFields DEF LiveTree
<1>4. site \in [Domain -> App \cup {"none"}]
  BY DEF Init
<1>5. store \in [Arch -> Tree] /\ remote \in [Profile -> [Arch -> Tree]] /\ now \in Stamp \cup {0}
  BY <1>1, InitialAssumption DEF Arch
<1>6. /\ tmp \in [Arch -> Tree] /\ staged \in [Request -> Tree]
      /\ pc \in [Request -> Label] /\ op \in [Request -> Ops]
  BY Trees DEF Init, Label, Ops, LiveTree
<1>7. InstTypeOK
  BY <1>1, <1>2, <1>3, <1>4 DEF Init, InstTypeOK, LiveTree
<1> /\ name \in [Request -> Arch \cup {NoArch}] /\ at \in [Request -> Dest]
    /\ left \in [Request -> SUBSET Dest] /\ vict \in [Request -> SUBSET Arch]
    /\ proven = {} /\ borrowed = {} /\ dropped = {} /\ unnamed = {} /\ manual = FALSE
  BY DEF Init, Dest
<1>8. TypeOK
  BY <1>5, <1>6, <1>7 DEF TypeOK, Ops
<1>9. ASSUME NEW r \in Request PROVE WorkInv(r)
  BY DEF Init, WorkInv, OnRoute, Busy
<1>10. QED
  BY <1>8, <1>9 DEF TypedInv

\* Every step keeps the types and the routes.
LEMMA TypedStep == ASSUME TypedInv, [Next]_vars PROVE TypedInv'
<1>1. ASSUME NEW r \in Request, AppStep(r) PROVE TypedInv'
  <2>1. CASE Step(r)
    BY <1>1, <2>1, AdmitTyped, AllocTyped, MakeDirsTyped, MarkTyped, SetupTyped, ConfTyped,
       CheckTyped, ActTyped, RemoveSiteTyped, RemoveScheduleTyped, DisableUnitTyped DEF Step, AppStep
  <2>2. CASE op[r].do \in {"create", "repair"} /\ (InstallUnit(r, "start") \/ StartUnit(r, "done"))
    BY <1>1, <2>2, InstallUnitTyped, StartUnitTyped DEF AppStep
  <2>3. CASE op[r].do = "delete" /\ RemoveTree(r, "done")
    BY <1>1, <2>3, RemoveTreeTyped DEF AppStep
  <2>4. QED
    BY <1>1, <2>1, <2>2, <2>3 DEF AppStep
<1>2. ASSUME NEW r \in Request, Backup(r) PROVE TypedInv'
  BY <1>2, BackupCheckTyped, PackTyped, PublishTyped, UploadTyped, PruneListTyped,
     PruneDropTyped, DeleteBackupTyped DEF Backup
<1>3. ASSUME NEW r \in Request, Restore(r) PROVE TypedInv'
  <2>1. ASSUME Halt(r) PROVE TypedInv'
    BY <2>1, DisableUnitTyped DEF Halt
  <2>2. ASSUME DeleteLive(r) PROVE TypedInv'
    BY <2>2, RemoveTreeTyped DEF DeleteLive
  <2>3. ASSUME RestoreStart(r) PROVE TypedInv'
    BY <2>3, StartUnitTyped DEF RestoreStart
  <2>4. QED
    BY <1>3, <2>1, <2>2, <2>3, FetchTyped, DownloadTyped, StageTyped, ClearTyped, MoveTyped,
       RemarkTyped, PlaceTyped, RestoreUnitTyped, ResecureTyped, RepublishTyped,
       NameSiteTyped DEF Restore
<1>4. CASE UNCHANGED vars
  BY <1>4 DEF vars, instVars, reqVars, TypedInv, TypeOK, InstTypeOK, WorkInv, Busy, Wanted
<1>5. QED
  BY <1>1, <1>2, <1>3, <1>4, AskTyped, KilledTyped DEF Next

\* Each request keeps to the steps of what it was asked to do, and a restore that is past
\* its staging has proven its archive (store.py 535-560).
THEOREM BackupsTyped == Spec => []TypedInv
BY TypedInitial, TypedStep, PTL DEF Spec

------------------------------------------------------------------------------
(* Requests that do not overlap                                            *)

\* What a request that works alone finds.
LEMMA LoneFinds ==
    ASSUME TypedInv, LoneInv, alone, NEW r \in Request, Busy(r)
    PROVE  /\ DistinctInv /\ MarkInv /\ HeldInv /\ OwnInv
           /\ MakeInv(r) /\ BackInv(r)
           /\ \A q \in Request \ {r} : ~Busy(q)
BY DEF LoneInv, AloneInv

\* The same, and that every site is accounted for, unless it is about to name one.
LEMMA Lone ==
    ASSUME TypedInv, LoneInv, alone, NEW r \in Request, Busy(r), pc[r] # "marker"
    PROVE  /\ DistinctInv /\ MarkInv /\ SiteInv /\ HeldInv /\ OwnInv
           /\ MakeInv(r) /\ BackInv(r)
           /\ \A q \in Request \ {r} : ~Busy(q)
<1>1. \A q \in Request : pc[q] = "marker" => Busy(q)
  BY DEF Busy, Answer
<1>2. QED
  BY <1>1, LoneFinds DEF LoneInv

\* A step of such a request answers for its own app only.
LEMMA OwnStep ==
    ASSUME TypedInv, LoneInv, NEW r \in Request, Busy(r), UNCHANGED <<alone, op>>,
           \A q \in Request \ {r} : pc'[q] = pc[q],
           \A b \in App \ {On(r)} : dir'[b] = dir[b],
           cut \ {On(r)} \subseteq cut',
           alone => /\ Unmarked(On(r))' => On(r) \in cut' \/ pc'[r] \in {"mark", "remark"}
                    /\ DistinctInv' /\ (SiteInv' \/ pc'[r] = "marker") /\ HeldInv' /\ OwnInv'
                    /\ Busy(r)' => MakeInv(r)' /\ BackInv(r)'
    PROVE  LoneInv'
<1>1. AloneInv'
  BY DEF LoneInv, AloneInv, Busy
<1>2. ASSUME alone PROVE MarkInv'
  <2>1. ASSUME NEW b \in App, Unmarked(b)', b \notin cut'
        PROVE  \E q \in Request : pc'[q] \in {"mark", "remark"} /\ On(q)' = b
    <3>1. CASE b = On(r)
      BY <1>2, <2>1, <3>1
    <3>2. CASE b # On(r)
      <4>1. Unmarked(b) /\ b \notin cut
        BY <2>1, <3>2 DEF Unmarked, exists
      <4>2. PICK q \in Request : pc[q] \in {"mark", "remark"} /\ On(q) = b
        BY <1>2, <2>1, <4>1 DEF LoneInv, MarkInv
      <4>3. q # r /\ Busy(q)
        BY <3>2, <4>2 DEF Busy, Answer
      <4>4. QED
        BY <1>2, <4>3, LoneFinds
    <3>3. QED
      BY <3>1, <3>2
  <2>2. QED
    BY <2>1 DEF MarkInv
<1>3. ASSUME alone, NEW q \in Request, Busy(q)' PROVE MakeInv(q)' /\ BackInv(q)'
  <2>1. q = r
    BY <1>3, LoneFinds DEF Busy
  <2>2. QED
    BY <1>3, <2>1
<1>4. QED
  BY <1>1, <1>2, <1>3 DEF LoneInv

\* Trees that keep their domains, or lose one nothing depends on.
LEMMA DomsKept ==
    ASSUME SiteInv, HeldInv, OwnInv, UNCHANGED site, borrowed \subseteq borrowed',
           dropped \subseteq dropped', unnamed \subseteq unnamed', TypedInv,
           \A b \in App : dir'[b].dom = dir[b].dom
    PROVE  SiteInv' /\ HeldInv' /\ OwnInv'
<1>1. SiteInv'
  BY DEF SiteInv, Named, Unknown
<1>2. \A d \in Domain : site[d] # "none" => site[d] \in App
  BY DEF TypedInv, TypeOK, InstTypeOK
<1>3. HeldInv'
  BY <1>2 DEF HeldInv, Lent
<1>4. OwnInv'
  BY DEF OwnInv
<1>5. QED
  BY <1>1, <1>3, <1>4

\* Trees that only lose a port or a domain stay distinct.
LEMMA PortsKept ==
    ASSUME DistinctInv, borrowed \subseteq borrowed',
           \A b \in App : dir'[b].port \in {dir[b].port, 0} /\ dir'[b].dom \in {dir[b].dom, "none"}
    PROVE  DistinctInv'
BY DEF DistinctInv, Shares

\* A tree may lose the domain it names when that was dropped, or nothing relies on it.
LEMMA DomLost ==
    ASSUME SiteInv, HeldInv, OwnInv, UNCHANGED site, borrowed \subseteq borrowed',
           TypedInv, NEW a \in App, dropped \subseteq dropped', unnamed \subseteq unnamed',
           \A b \in App \ {a} : dir'[b] = dir[b], dir'[a].dom \in {dir[a].dom, "none"},
           \A d \in Domain : dir[a].dom = d =>
              \/ d \in dropped'
              \/ /\ site[d] # "none" => (\E b \in App \ {a} : dir[b].dom = d) \/ d \in Unknown
                 /\ site[d] = a => Lent(a, d)
    PROVE  SiteInv' /\ HeldInv' /\ OwnInv'
<1>1. SiteInv'
  BY NamesAssumption DEF SiteInv, Named, Unknown
<1>2. \A d \in Domain : site[d] # "none" => site[d] \in App
  BY DEF TypedInv, TypeOK, InstTypeOK
<1>3. ASSUME NEW d \in Domain, site[d] # "none", dir'[site[d]].dom # d
      PROVE  d \in dropped' \/ \A b \in App \ {site[d]} : dir'[b].dom = d => b \in borrowed'
  <2>1. dir'[site[d]].dom = dir[site[d]].dom \/ (site[d] = a /\ dir'[a].dom = "none")
    BY <1>2, <1>3
  <2>2. \A b \in App : dir'[b].dom = d => dir[b].dom = d
    BY NamesAssumption
  <2>3. CASE dir[site[d]].dom # d
    BY <1>3, <2>2, <2>3 DEF HeldInv, Lent
  <2>4. CASE dir[site[d]].dom = d
    <3>1. site[d] = a
      BY <1>3, <2>1, <2>4
    <3>2. d \in dropped' \/ Lent(a, d)
      BY <3>1, <2>4
    <3>3. QED
      BY <2>2, <3>1, <3>2 DEF Lent
  <2>5. QED
    BY <2>3, <2>4
<1>4. HeldInv'
  BY <1>3 DEF HeldInv, Lent
<1>5. OwnInv'
  BY NamesAssumption DEF OwnInv
<1>6. QED
  BY <1>1, <1>4, <1>5

\* A step that leaves trees, sites and their history alone keeps what the request knows.
LEMMA Frames ==
    ASSUME NEW r \in Request, UNCHANGED <<dir, site, borrowed, dropped, unnamed, op, before>>
    PROVE  /\ (NoSite(r)' <=> NoSite(r)) /\ (SameDom(r)' <=> SameDom(r)) /\ (DomGone(r)' <=> DomGone(r))
           /\ (Apart(r)' <=> Apart(r)) /\ (Unrelied(r)' <=> Unrelied(r)) /\ (FreshDom(r)' <=> FreshDom(r))
           /\ (SiteInv /\ HeldInv /\ OwnInv /\ DistinctInv => SiteInv' /\ HeldInv' /\ OwnInv' /\ DistinctInv')
<1>1. (NoSite(r)' <=> NoSite(r)) /\ (SameDom(r)' <=> SameDom(r)) /\ (DomGone(r)' <=> DomGone(r))
  BY DEF NoSite, SameDom, DomGone, Gone, Was
<1>2. (Apart(r)' <=> Apart(r))
  BY DEF Apart, Shares, Was
<1>3. (Unrelied(r)' <=> Unrelied(r))
  BY DEF Unrelied, Spare, Lent, Unknown
<1>4. (FreshDom(r)' <=> FreshDom(r))
  BY DEF FreshDom
<1>5. SiteInv /\ HeldInv /\ OwnInv /\ DistinctInv => SiteInv' /\ HeldInv' /\ OwnInv' /\ DistinctInv'
  BY DEF SiteInv, HeldInv, OwnInv, DistinctInv, Named, Lent, Shares, Unknown
<1>6. QED
  BY <1>1, <1>2, <1>3, <1>4, <1>5

\* What was found of an app is still so when no app is touched.
LEMMA AppFrames ==
    ASSUME NEW r \in Request, UNCHANGED <<appVars, op, before>>
    PROVE  (Untouched(r)' <=> Untouched(r))
BY DEF Untouched, App0

\* A step that touches no tree and no site.
LEMMA QuietStep ==
    ASSUME TypedInv, LoneInv, NEW r \in Request, Busy(r), pc[r] \notin {"mark", "remark", "marker"},
           UNCHANGED <<dir, site, cut, borrowed, dropped, unnamed, op, before, alone>>,
           \A q \in Request \ {r} : pc'[q] = pc[q],
           alone /\ Busy(r)' => MakeInv(r)' /\ BackInv(r)'
    PROVE  LoneInv'
<1>1. ASSUME alone, Unmarked(On(r))' PROVE On(r) \in cut
  <2>1. Unmarked(On(r)) /\ On(r) \in App
    BY <1>1, AtWork DEF Unmarked, exists
  <2>2. CASE On(r) \notin cut
    <3>1. PICK q \in Request : pc[q] \in {"mark", "remark"} /\ On(q) = On(r)
      BY <1>1, <2>1, <2>2 DEF LoneInv, MarkInv
    <3>2. Busy(q) /\ q # r
      BY <3>1 DEF Busy, Answer
    <3>3. QED
      BY <1>1, <3>2, Lone
  <2>3. QED
    BY <2>2
<1>2. alone => SiteInv' /\ HeldInv' /\ OwnInv' /\ DistinctInv'
  BY Lone, Frames
<1>3. QED
  BY <1>1, <1>2, OwnStep

\* Steps of a request that works alone and touches no tree.
LEMMA AdmitLone ==
    ASSUME TypedInv, TypedInv', LoneInv, NEW r \in Request, Admit(r), UNCHANGED <<arcVars, workVars, oldVars>>
    PROVE  LoneInv'
<1>1. /\ Busy(r) /\ pc[r] \notin {"mark", "remark", "marker"} /\ \A q \in Request \ {r} : pc'[q] = pc[q]
      /\ UNCHANGED <<dir, site, cut, borrowed, dropped, unnamed, op, before, alone>>
  BY DEF TypedInv, TypeOK, Busy, Answer, Failing, Admit
<1>2. alone => MakeInv(r) /\ BackInv(r)
  BY <1>1, Lone
<1>3. ASSUME alone, Busy(r)' PROVE MakeInv(r)'
  BY <1>1, <1>2, <1>3, Frames DEF MakeInv, TypedInv, TypeOK, Busy, Answer, Failing, Admit
<1>4. ASSUME alone, Busy(r)' PROVE BackInv(r)'
  BY <1>1, <1>2, <1>4, Frames, Routes DEF BackInv, Placed, TypedInv, TypeOK, Busy, Answer,
     CreatePC, DeletePC, BackupPC, RestorePC, Failing, Admit
<1>5. QED
  BY <1>1, <1>3, <1>4, QuietStep

LEMMA AllocLone ==
    ASSUME TypedInv, TypedInv', LoneInv, NEW r \in Request, Alloc(r), UNCHANGED <<arcVars, workVars, oldVars>>
    PROVE  LoneInv'
<1>1. /\ Busy(r) /\ pc[r] \notin {"mark", "remark", "marker"} /\ \A q \in Request \ {r} : pc'[q] = pc[q]
      /\ UNCHANGED <<dir, site, cut, borrowed, dropped, unnamed, op, before, alone>>
  BY DEF TypedInv, TypeOK, Busy, Answer, Failing, Alloc
<1>2. alone => MakeInv(r) /\ BackInv(r)
  BY <1>1, Lone
<1>3. ASSUME alone, Busy(r)' PROVE MakeInv(r)'
  <2>1. pc'[r] = "mkdir" /\ got'[r] \in Free
    BY <1>3, Ports DEF TypedInv, TypeOK, InstTypeOK, Busy, Answer, Failing, Alloc
  <2>2. \A p \in Free, b \in App : dir[b].port # p
    BY PortsAssumption DEF Free, used_ports
  <2>3. QED
    BY <1>1, <2>1, <2>2 DEF MakeInv, PortIsFree
<1>4. ASSUME alone, Busy(r)' PROVE BackInv(r)'
  BY <1>1, <1>2, <1>4, Frames, Routes DEF BackInv, Placed, TypedInv, TypeOK, Busy, Answer,
     CreatePC, DeletePC, BackupPC, RestorePC, Failing, Alloc
<1>5. QED
  BY <1>1, <1>3, <1>4, QuietStep

LEMMA CheckLone ==
    ASSUME TypedInv, TypedInv', LoneInv, NEW r \in Request, Check(r), UNCHANGED <<arcVars, workVars, oldVars>>
    PROVE  LoneInv'
<1>1. /\ Busy(r) /\ pc[r] \notin {"mark", "remark", "marker"} /\ \A q \in Request \ {r} : pc'[q] = pc[q]
      /\ UNCHANGED <<dir, site, cut, borrowed, dropped, unnamed, op, before, alone>>
  BY DEF TypedInv, TypeOK, Busy, Answer, Failing, Check
<1>2. alone => MakeInv(r) /\ BackInv(r)
  BY <1>1, Lone
<1>3. ASSUME alone, Busy(r)' PROVE MakeInv(r)'
  BY <1>1, <1>2, <1>3, Frames DEF MakeInv, TypedInv, TypeOK, Busy, Answer, Failing, Check
<1>4. ASSUME alone, Busy(r)' PROVE BackInv(r)'
  BY <1>1, <1>2, <1>4, Frames, Routes DEF BackInv, Placed, TypedInv, TypeOK, Busy, Answer,
     CreatePC, DeletePC, BackupPC, RestorePC, Failing, Check
<1>5. QED
  BY <1>1, <1>3, <1>4, QuietStep

LEMMA ActLone ==
    ASSUME TypedInv, TypedInv', LoneInv, NEW r \in Request, Act(r), UNCHANGED <<arcVars, workVars, oldVars>>
    PROVE  LoneInv'
<1>1. /\ Busy(r) /\ pc[r] \notin {"mark", "remark", "marker"} /\ \A q \in Request \ {r} : pc'[q] = pc[q]
      /\ UNCHANGED <<dir, site, cut, borrowed, dropped, unnamed, op, before, alone>>
  BY DEF TypedInv, TypeOK, Busy, Answer, Failing, Act
<1>2. alone => MakeInv(r) /\ BackInv(r)
  BY <1>1, Lone
<1>3. ASSUME alone, Busy(r)' PROVE MakeInv(r)'
  BY <1>1, <1>2, <1>3, Frames DEF MakeInv, TypedInv, TypeOK, Busy, Answer, Failing, Act
<1>4. ASSUME alone, Busy(r)' PROVE BackInv(r)'
  BY <1>1, <1>2, <1>4, Frames, Routes DEF BackInv, Placed, TypedInv, TypeOK, Busy, Answer,
     CreatePC, DeletePC, BackupPC, RestorePC, Failing, Act
<1>5. QED
  BY <1>1, <1>3, <1>4, QuietStep

LEMMA RemoveScheduleLone ==
    ASSUME TypedInv, TypedInv', LoneInv, NEW r \in Request, RemoveSchedule(r),
           UNCHANGED <<arcVars, workVars, oldVars>>
    PROVE  LoneInv'
<1>1. /\ Busy(r) /\ pc[r] \notin {"mark", "remark", "marker"} /\ \A q \in Request \ {r} : pc'[q] = pc[q]
      /\ UNCHANGED <<dir, site, cut, borrowed, dropped, unnamed, op, before, alone>>
  BY DEF TypedInv, TypeOK, Busy, Answer, Failing, RemoveSchedule
<1>2. alone => MakeInv(r) /\ BackInv(r)
  BY <1>1, Lone
<1>3. ASSUME alone, Busy(r)' PROVE MakeInv(r)'
  BY <1>1, <1>2, <1>3, Frames DEF MakeInv, TypedInv, TypeOK, Busy, Answer, Failing,
     RemoveSchedule
<1>4. ASSUME alone, Busy(r)' PROVE BackInv(r)'
  BY <1>1, <1>2, <1>4, Frames, Routes DEF BackInv, Placed, TypedInv, TypeOK, Busy, Answer,
     CreatePC, DeletePC, BackupPC, RestorePC, Failing, RemoveSchedule
<1>5. QED
  BY <1>1, <1>3, <1>4, QuietStep

LEMMA InstallUnitLone ==
    ASSUME TypedInv, TypedInv', LoneInv, NEW r \in Request, NEW then,
           \/ then = "start" /\ op[r].do \in {"create", "repair"}
           \/ then = "resecure" /\ op[r].do = "restore",
           InstallUnit(r, then), UNCHANGED <<arcVars, workVars, oldVars>>
    PROVE  LoneInv'
<1>1. /\ Busy(r) /\ pc[r] \notin {"mark", "remark", "marker"} /\ \A q \in Request \ {r} : pc'[q] = pc[q]
      /\ UNCHANGED <<dir, site, cut, borrowed, dropped, unnamed, op, before, alone>>
  BY DEF TypedInv, TypeOK, Busy, Answer, Failing, InstallUnit
<1>2. alone => MakeInv(r) /\ BackInv(r)
  BY <1>1, Lone
<1>3. ASSUME alone, Busy(r)' PROVE MakeInv(r)'
  BY <1>1, <1>2, <1>3, Frames DEF MakeInv, TypedInv, TypeOK, Busy, Answer, Failing, InstallUnit
<1>4. ASSUME alone, Busy(r)' PROVE BackInv(r)'
  <2>1. (StagedDom(r)' <=> StagedDom(r))
    BY <1>1 DEF StagedDom, InstallUnit
  <2>2. op[r].do = "restore" => pc[r] \in Placed /\ pc'[r] \in Placed
    BY <1>4 DEF Placed, TypedInv, TypeOK, Busy, Answer, Failing, InstallUnit
  <2>3. QED
    BY <1>1, <1>2, <1>4, <2>1, <2>2, Frames DEF BackInv, Placed
<1>5. QED
  BY <1>1, <1>3, <1>4, QuietStep

LEMMA StartUnitLone ==
    ASSUME TypedInv, TypedInv', LoneInv, NEW r \in Request, NEW then,
           \/ then = "done" /\ op[r].do \in {"create", "repair"}
           \/ then = "republish" /\ op[r].do = "restore",
           StartUnit(r, then), UNCHANGED <<arcVars, workVars, oldVars>>
    PROVE  LoneInv'
<1>1. /\ Busy(r) /\ pc[r] \notin {"mark", "remark", "marker"} /\ \A q \in Request \ {r} : pc'[q] = pc[q]
      /\ UNCHANGED <<dir, site, cut, borrowed, dropped, unnamed, op, before, alone>>
  BY DEF TypedInv, TypeOK, Busy, Answer, Failing, StartUnit
<1>2. alone => MakeInv(r) /\ BackInv(r)
  BY <1>1, Lone
<1>3. ASSUME alone, Busy(r)' PROVE MakeInv(r)'
  BY <1>1, <1>2, <1>3, Frames DEF MakeInv, TypedInv, TypeOK, Busy, Answer, Failing, StartUnit
<1>4. ASSUME alone, Busy(r)' PROVE BackInv(r)'
  <2>1. (StagedDom(r)' <=> StagedDom(r))
    BY <1>1 DEF StagedDom, StartUnit
  <2>2. op[r].do = "restore" => pc[r] \in Placed /\ pc'[r] \in Placed
    BY <1>4 DEF Placed, TypedInv, TypeOK, Busy, Answer, Failing, StartUnit
  <2>3. QED
    BY <1>1, <1>2, <1>4, <2>1, <2>2, Frames DEF BackInv, Placed
<1>5. QED
  BY <1>1, <1>3, <1>4, QuietStep

LEMMA DisableUnitLone ==
    ASSUME TypedInv, TypedInv', LoneInv, NEW r \in Request, NEW l, NEW then,
           (l = "disable" /\ then = "tree") \/ (l = "halt" /\ then = "site"),
           DisableUnit(r, l, then), UNCHANGED <<arcVars, workVars, oldVars>>
    PROVE  LoneInv'
<1>1. /\ Busy(r) /\ pc[r] \notin {"mark", "remark", "marker"} /\ \A q \in Request \ {r} : pc'[q] = pc[q]
      /\ UNCHANGED <<dir, site, cut, borrowed, dropped, unnamed, op, before, alone>>
  BY DEF TypedInv, TypeOK, Busy, Answer, Failing, DisableUnit
<1>2. alone => MakeInv(r) /\ BackInv(r)
  BY <1>1, Lone
<1>3. ASSUME alone, Busy(r)' PROVE MakeInv(r)'
  BY <1>1, <1>2, <1>3, Frames DEF MakeInv, TypedInv, TypeOK, Busy, Answer, Failing, DisableUnit
<1>4. ASSUME alone, Busy(r)' PROVE BackInv(r)'
  BY <1>1, <1>2, <1>4, Frames, Routes DEF BackInv, Placed, TypedInv, TypeOK, Busy, Answer,
     CreatePC, DeletePC, BackupPC, RestorePC, Failing, DisableUnit
<1>5. QED
  BY <1>1, <1>3, <1>4, QuietStep

\* Backups, prunes and deletions of archives touch no app.
LEMMA BackupLone ==
    ASSUME TypedInv, TypedInv', LoneInv, NEW r \in Request, Backup(r)
    PROVE  LoneInv'
<1>1. /\ pc[r] \in BackupPC
      /\ pc'[r] \in {"pack", "publish", "upload", "list", "drop"} \cup Answer
      /\ \A q \in Request \ {r} : pc'[q] = pc[q]
      /\ UNCHANGED <<dir, site, cut, borrowed, dropped, unnamed, op, before, alone>>
  <2>1. CASE BackupCheck(r) \/ Pack(r) \/ Publish(r) \/ Upload(r)
    BY <2>1 DEF TypedInv, TypeOK, BackupPC, Answer, Failing, BackupCheck, Pack, Publish, Upload
  <2>2. CASE PruneList(r) \/ PruneDrop(r) \/ DeleteBackup(r)
    BY <2>2 DEF TypedInv, TypeOK, BackupPC, Answer, PruneList, PruneDrop, DeleteBackup
  <2>3. QED
    BY <2>1, <2>2 DEF Backup
<1>2. Busy(r) /\ pc[r] \notin {"mark", "remark", "marker"} /\ op[r].do \in {"backup", "discard"}
  BY <1>1, Routes DEF BackupPC, Busy, Answer
<1>3. MakeInv(r)' /\ BackInv(r)'
  BY <1>1, <1>2 DEF MakeInv, BackInv, Answer
<1>4. QED
  BY <1>1, <1>2, <1>3, QuietStep

\* A restore until its archive is proven.
LEMMA FetchLone ==
    ASSUME TypedInv, TypedInv', LoneInv, NEW r \in Request, Fetch(r)
    PROVE  LoneInv'
<1>1. /\ Busy(r) /\ pc[r] \notin {"mark", "remark", "marker"} /\ \A q \in Request \ {r} : pc'[q] = pc[q]
      /\ UNCHANGED <<dir, site, cut, borrowed, dropped, unnamed, op, before, alone>>
  BY DEF TypedInv, TypeOK, Busy, Answer, Failing, Fetch
<1>2. alone => MakeInv(r) /\ BackInv(r)
  BY <1>1, Lone
<1>3. ASSUME alone, Busy(r)' PROVE MakeInv(r)'
  BY <1>1, <1>2, <1>3, Frames DEF MakeInv, TypedInv, TypeOK, Busy, Answer, Failing, Fetch
<1>4. ASSUME alone, Busy(r)' PROVE BackInv(r)'
  <2>1. pc[r] \in {"fetch", "download"} /\ pc'[r] \in {"download", "stage"} /\ (Untouched(r)' <=> Untouched(r))
    BY <1>1, <1>4, AppFrames DEF TypedInv, TypeOK, Busy, Answer, Failing, Fetch
  <2>2. QED
    BY <1>1, <1>2, <1>4, <2>1, Frames DEF BackInv, Placed
<1>5. QED
  BY <1>1, <1>3, <1>4, QuietStep

LEMMA DownloadLone ==
    ASSUME TypedInv, TypedInv', LoneInv, NEW r \in Request, Download(r)
    PROVE  LoneInv'
<1>1. /\ Busy(r) /\ pc[r] \notin {"mark", "remark", "marker"} /\ \A q \in Request \ {r} : pc'[q] = pc[q]
      /\ UNCHANGED <<dir, site, cut, borrowed, dropped, unnamed, op, before, alone>>
  BY DEF TypedInv, TypeOK, Busy, Answer, Failing, Download
<1>2. alone => MakeInv(r) /\ BackInv(r)
  BY <1>1, Lone
<1>3. ASSUME alone, Busy(r)' PROVE MakeInv(r)'
  BY <1>1, <1>2, <1>3, Frames DEF MakeInv, TypedInv, TypeOK, Busy, Answer, Failing, Download
<1>4. ASSUME alone, Busy(r)' PROVE BackInv(r)'
  <2>1. pc[r] \in {"fetch", "download"} /\ pc'[r] \in {"download", "stage"} /\ (Untouched(r)' <=> Untouched(r))
    BY <1>1, <1>4, AppFrames DEF TypedInv, TypeOK, Busy, Answer, Failing, Download
  <2>2. QED
    BY <1>1, <1>2, <1>4, <2>1, Frames DEF BackInv, Placed
<1>5. QED
  BY <1>1, <1>3, <1>4, QuietStep

LEMMA StageLone ==
    ASSUME TypedInv, TypedInv', LoneInv, NEW r \in Request, Stage(r)
    PROVE  LoneInv'
<1>1. /\ Busy(r) /\ pc[r] \notin {"mark", "remark", "marker"} /\ \A q \in Request \ {r} : pc'[q] = pc[q]
      /\ UNCHANGED <<dir, site, cut, borrowed, dropped, unnamed, op, before, alone>>
  BY DEF TypedInv, TypeOK, Busy, Answer, Failing, Stage, StageIf
<1>2. alone => MakeInv(r) /\ BackInv(r)
  BY <1>1, Lone
<1>3. ASSUME alone, Busy(r)' PROVE MakeInv(r)'
  <2>1. pc'[r] \in {"clear", "halt", "failed"}
    BY DEF TypedInv, TypeOK, Failing, Stage, StageIf
  <2>2. QED
    BY <2>1 DEF MakeInv
<1>4. ASSUME alone, Busy(r)' PROVE BackInv(r)'
  <2>1. pc[r] = "stage" /\ pc'[r] \in {"clear", "halt"}
    BY <1>4 DEF TypedInv, TypeOK, Busy, Answer, Failing, Stage, StageIf
  <2>2. Untouched(r) => SameDom(r)
    BY DEF Untouched, App0, SameDom, Was
  <2>3. QED
    BY <1>1, <1>2, <1>4, <2>1, <2>2, Frames DEF BackInv, Placed
<1>5. QED
  BY <1>1, <1>3, <1>4, QuietStep

\* What marking a tree leaves of it.
LEMMA MarkedFields ==
    ASSUME NEW t \in LiveTree
    PROVE  Marked(t).managed /\ Marked(t).port = t.port /\ Marked(t).dom = t.dom
<1>1. CASE t = NoTree
  BY <1>1 DEF Marked, NoTree, Bare
<1>2. CASE t # NoTree
  BY <1>2 DEF Marked, LiveTree, Tree
<1>3. QED
  BY <1>1, <1>2

\* The steps of a create: the app has a port that no other tree names.
LEMMA MakeDirsLone ==
    ASSUME TypedInv, TypedInv', LoneInv, NEW r \in Request, MakeDirs(r),
           UNCHANGED <<arcVars, workVars, oldVars>>
    PROVE  LoneInv'
<1>1. /\ Busy(r) /\ pc[r] # "marker" /\ On(r) \in App /\ op[r].do = "create"
      /\ \A q \in Request \ {r} : pc'[q] = pc[q]
      /\ UNCHANGED <<site, borrowed, dropped, unnamed, op, got, alone>> /\ cut \ {On(r)} \subseteq cut'
      /\ \A b \in App \ {On(r)} : dir'[b] = dir[b]
      /\ dir \in [App -> LiveTree] /\ dir' \in [App -> LiveTree] /\ dir[On(r)] \in LiveTree
  <2>1. dir \in [App -> LiveTree] /\ dir' \in [App -> LiveTree] /\ pc \in [Request -> Label]
    BY DEF TypedInv, TypeOK, InstTypeOK, LiveTree
  <2>2. pc[r] \in CreatePC
    BY DEF MakeDirs, CreatePC
  <2>3. Busy(r) /\ pc[r] # "marker" /\ op[r].do = "create" /\ On(r) \in App
    BY <2>2, AtWork, Routes DEF Busy, Answer, CreatePC
  <2>4. QED
    BY <2>1, <2>3 DEF Failing, MakeDirs, Write, Spoilt
<1>2. alone => DistinctInv /\ SiteInv /\ HeldInv /\ OwnInv /\ MakeInv(r)
  BY <1>1, Lone
<1>3. alone => dir'[On(r)].dom = dir[On(r)].dom
  BY <1>1, Trees DEF MakeDirs, Write, Spoilt, exists
<1>4. alone => DistinctInv'
  <2>1. alone => dir'[On(r)].port \in {dir[On(r)].port, 0}
    BY <1>1, <1>2, Trees DEF MakeDirs, Write, Spoilt
  <2>2. QED
    BY <1>1, <1>2, <1>3, <2>1, PortsKept
<1>5. alone /\ Unmarked(On(r))' => On(r) \in cut' \/ pc'[r] \in {"mark", "remark"}
  BY <1>1, <1>2, Trees DEF MakeDirs, Write, Spoilt, Failing, TypedInv, TypeOK, Unmarked, exists
<1>6. alone /\ Busy(r)' => MakeInv(r)'
  BY <1>1, <1>2, Trees DEF MakeDirs, Write, Spoilt, Failing, TypedInv, TypeOK, MakeInv,
     PortIsFree, Busy, Answer
<1>7. BackInv(r)'
  BY <1>1 DEF BackInv
<1>8. alone => SiteInv' /\ HeldInv' /\ OwnInv'
  BY <1>1, <1>2, <1>3, DomsKept
<1>9. QED
  BY <1>1, <1>4, <1>5, <1>6, <1>7, <1>8, OwnStep

LEMMA MarkLone ==
    ASSUME TypedInv, TypedInv', LoneInv, NEW r \in Request, Mark(r),
           UNCHANGED <<arcVars, workVars, oldVars>>
    PROVE  LoneInv'
<1>1. /\ Busy(r) /\ pc[r] # "marker" /\ On(r) \in App /\ op[r].do = "create"
      /\ \A q \in Request \ {r} : pc'[q] = pc[q]
      /\ UNCHANGED <<site, borrowed, dropped, unnamed, op, got, alone>> /\ cut \ {On(r)} \subseteq cut'
      /\ \A b \in App \ {On(r)} : dir'[b] = dir[b]
      /\ dir \in [App -> LiveTree] /\ dir' \in [App -> LiveTree] /\ dir[On(r)] \in LiveTree
  <2>1. dir \in [App -> LiveTree] /\ dir' \in [App -> LiveTree] /\ pc \in [Request -> Label]
    BY DEF TypedInv, TypeOK, InstTypeOK, LiveTree
  <2>2. pc[r] \in CreatePC
    BY DEF Mark, CreatePC
  <2>3. Busy(r) /\ pc[r] # "marker" /\ op[r].do = "create" /\ On(r) \in App
    BY <2>2, AtWork, Routes DEF Busy, Answer, CreatePC
  <2>4. QED
    BY <2>1, <2>3 DEF Failing, Mark, Write, Spoilt
<1>2. alone => DistinctInv /\ SiteInv /\ HeldInv /\ OwnInv /\ MakeInv(r)
  BY <1>1, Lone
<1>3. alone => dir'[On(r)].dom = dir[On(r)].dom
  BY <1>1, MarkedFields DEF Mark, Write, Spoilt, exists
<1>4. alone => DistinctInv'
  <2>1. alone => dir'[On(r)].port \in {dir[On(r)].port, 0}
    BY <1>1, <1>2, MarkedFields DEF Mark, Write, Spoilt
  <2>2. QED
    BY <1>1, <1>2, <1>3, <2>1, PortsKept
<1>5. alone /\ Unmarked(On(r))' => On(r) \in cut' \/ pc'[r] \in {"mark", "remark"}
  BY <1>1, <1>2, MarkedFields DEF Mark, Write, Spoilt, Failing, TypedInv, TypeOK, Unmarked,
     exists
<1>6. alone /\ Busy(r)' => MakeInv(r)'
  <2>1. CASE pc'[r] = "setup"
    <3>1. dir'[On(r)].managed
      BY <1>1, <2>1, MarkedFields DEF Mark, Write, Spoilt, Failing, TypedInv, TypeOK
    <3>2. QED
      BY <1>1, <1>2, <2>1, <3>1 DEF MakeInv, PortIsFree, Mark
  <2>2. CASE pc'[r] = "failed"
    BY <2>2 DEF Busy, Answer
  <2>3. QED
    BY <2>1, <2>2 DEF Mark, Spoilt, Failing, TypedInv, TypeOK
<1>7. BackInv(r)'
  BY <1>1 DEF BackInv
<1>8. alone => SiteInv' /\ HeldInv' /\ OwnInv'
  BY <1>1, <1>2, <1>3, DomsKept
<1>9. QED
  BY <1>1, <1>4, <1>5, <1>6, <1>7, <1>8, OwnStep

LEMMA SetupLone ==
    ASSUME TypedInv, TypedInv', LoneInv, NEW r \in Request, Setup(r),
           UNCHANGED <<arcVars, workVars, oldVars>>
    PROVE  LoneInv'
<1>1. /\ Busy(r) /\ pc[r] # "marker" /\ On(r) \in App /\ op[r].do = "create"
      /\ \A q \in Request \ {r} : pc'[q] = pc[q]
      /\ UNCHANGED <<site, borrowed, dropped, unnamed, op, got, alone>> /\ cut \ {On(r)} \subseteq cut'
      /\ \A b \in App \ {On(r)} : dir'[b] = dir[b]
      /\ dir \in [App -> LiveTree] /\ dir' \in [App -> LiveTree] /\ dir[On(r)] \in LiveTree
  <2>1. dir \in [App -> LiveTree] /\ dir' \in [App -> LiveTree] /\ pc \in [Request -> Label]
    BY DEF TypedInv, TypeOK, InstTypeOK, LiveTree
  <2>2. pc[r] \in CreatePC
    BY DEF Setup, CreatePC
  <2>3. Busy(r) /\ pc[r] # "marker" /\ op[r].do = "create" /\ On(r) \in App
    BY <2>2, AtWork, Routes DEF Busy, Answer, CreatePC
  <2>4. QED
    BY <2>1, <2>3 DEF Failing, Setup, Write, Spoilt
<1>2. alone => DistinctInv /\ SiteInv /\ HeldInv /\ OwnInv /\ MakeInv(r)
  BY <1>1, Lone
<1>3. alone => dir'[On(r)].dom = dir[On(r)].dom
  <2>1. CASE UNCHANGED dir
    BY <2>1
  <2>2. CASE ~UNCHANGED dir
    <3>1. dir'[On(r)] = [dir[On(r)] EXCEPT !.kind = IF @ = "jar" THEN @ ELSE op[r].kind,
                                             !.stage = IF @ = "full" THEN @ ELSE "env"]
      BY <1>1, <2>2 DEF Setup, Write, Spoilt
    <3>2. QED
      BY <1>1, <3>1 DEF LiveTree, Tree
  <2>3. QED
    BY <2>1, <2>2
<1>4. alone => DistinctInv'
  <2>1. dir'[On(r)].port = dir[On(r)].port
    <3>1. CASE UNCHANGED dir
      BY <3>1
    <3>2. CASE ~UNCHANGED dir
      <4>1. dir'[On(r)] = [dir[On(r)] EXCEPT !.kind = IF @ = "jar" THEN @ ELSE op[r].kind,
                                               !.stage = IF @ = "full" THEN @ ELSE "env"]
        BY <1>1, <3>2 DEF Setup, Write, Spoilt
      <4>2. QED
        BY <1>1, <4>1 DEF LiveTree, Tree
    <3>3. QED
      BY <3>1, <3>2
  <2>2. QED
    BY <1>1, <1>2, <1>3, <2>1, PortsKept
<1>5. alone /\ Unmarked(On(r))' => On(r) \in cut' \/ pc'[r] \in {"mark", "remark"}
  <2>1. dir'[On(r)].managed = dir[On(r)].managed
    <3>1. CASE UNCHANGED dir
      BY <3>1
    <3>2. CASE ~UNCHANGED dir
      <4>1. dir'[On(r)] = [dir[On(r)] EXCEPT !.kind = IF @ = "jar" THEN @ ELSE op[r].kind,
                                               !.stage = IF @ = "full" THEN @ ELSE "env"]
        BY <1>1, <3>2 DEF Setup, Write, Spoilt
      <4>2. QED
        BY <1>1, <4>1 DEF LiveTree, Tree
    <3>3. QED
      BY <3>1, <3>2
  <2>2. alone => dir[On(r)].managed
    BY <1>2 DEF MakeInv, Setup
  <2>3. QED
    BY <1>1, <2>1, <2>2 DEF Unmarked
<1>6. alone /\ Busy(r)' => MakeInv(r)'
  <2>1. dir'[On(r)].managed = dir[On(r)].managed
    <3>1. CASE UNCHANGED dir
      BY <3>1
    <3>2. CASE ~UNCHANGED dir
      <4>1. dir'[On(r)] = [dir[On(r)] EXCEPT !.kind = IF @ = "jar" THEN @ ELSE op[r].kind,
                                               !.stage = IF @ = "full" THEN @ ELSE "env"]
        BY <1>1, <3>2 DEF Setup, Write, Spoilt
      <4>2. QED
        BY <1>1, <4>1 DEF LiveTree, Tree
    <3>3. QED
      BY <3>1, <3>2
  <2>2. pc[r] = "setup" /\ pc'[r] \in {"conf", "failed"}
    BY DEF Setup, Spoilt, Failing, TypedInv, TypeOK
  <2>3. QED
    BY <1>1, <1>2, <2>1, <2>2 DEF MakeInv, PortIsFree
<1>7. BackInv(r)'
  BY <1>1 DEF BackInv
<1>8. alone => SiteInv' /\ HeldInv' /\ OwnInv'
  BY <1>1, <1>2, <1>3, DomsKept
<1>9. QED
  BY <1>1, <1>4, <1>5, <1>6, <1>7, <1>8, OwnStep

LEMMA ConfLone ==
    ASSUME TypedInv, TypedInv', LoneInv, NEW r \in Request, Conf(r),
           UNCHANGED <<arcVars, workVars, oldVars>>
    PROVE  LoneInv'
<1>1. /\ Busy(r) /\ pc[r] # "marker" /\ On(r) \in App /\ op[r].do = "create"
      /\ \A q \in Request \ {r} : pc'[q] = pc[q]
      /\ UNCHANGED <<site, borrowed, dropped, unnamed, op, got, alone>> /\ cut \ {On(r)} \subseteq cut'
      /\ \A b \in App \ {On(r)} : dir'[b] = dir[b]
      /\ dir \in [App -> LiveTree] /\ dir' \in [App -> LiveTree] /\ dir[On(r)] \in LiveTree
  <2>1. dir \in [App -> LiveTree] /\ dir' \in [App -> LiveTree] /\ pc \in [Request -> Label]
    BY DEF TypedInv, TypeOK, InstTypeOK, LiveTree
  <2>2. pc[r] \in CreatePC
    BY DEF Conf, CreatePC
  <2>3. Busy(r) /\ pc[r] # "marker" /\ op[r].do = "create" /\ On(r) \in App
    BY <2>2, AtWork, Routes DEF Busy, Answer, CreatePC
  <2>4. QED
    BY <2>1, <2>3 DEF Failing, Conf, Write, Spoilt
<1>2. alone => DistinctInv /\ SiteInv /\ HeldInv /\ OwnInv /\ MakeInv(r)
  BY <1>1, Lone
<1>3. alone => dir'[On(r)].dom = dir[On(r)].dom
  <2>1. CASE UNCHANGED dir
    BY <2>1
  <2>2. CASE ~UNCHANGED dir
    <3>1. PICK p \in {got[r]} \cup (IF op[r].kind = "jar" THEN {dir[On(r)].port} \ {0} ELSE {}) :
             dir'[On(r)] = [dir[On(r)] EXCEPT !.port = p, !.kind = IF @ = "none" THEN "tomcat" ELSE @,
                                             !.stage = IF @ \in {"env", "full"} THEN "full" ELSE "bare"]
      BY <1>1, <2>2 DEF Conf, Write, Spoilt
    <3>2. QED
      BY <1>1, <3>1 DEF LiveTree, Tree
  <2>3. QED
    BY <2>1, <2>2
<1>4. alone => DistinctInv'
  <2>1. dir'[On(r)].port \in {dir[On(r)].port, got[r]}
    <3>1. CASE UNCHANGED dir
      BY <3>1
    <3>2. CASE ~UNCHANGED dir
      <4>1. PICK p \in {got[r]} \cup (IF op[r].kind = "jar" THEN {dir[On(r)].port} \ {0} ELSE {}) :
               dir'[On(r)] = [dir[On(r)] EXCEPT !.port = p, !.kind = IF @ = "none" THEN "tomcat" ELSE @,
                                               !.stage = IF @ \in {"env", "full"} THEN "full" ELSE "bare"]
        BY <1>1, <3>2 DEF Conf, Write, Spoilt
      <4>2. QED
        BY <1>1, <4>1 DEF LiveTree, Tree
    <3>3. QED
      BY <3>1, <3>2
  <2>2. alone => PortIsFree(r)
    BY <1>2 DEF MakeInv, Conf
  <2>3. ASSUME alone, NEW a \in App, NEW b \in App, a # b, Shares(b, dir[a].port, dir[a].dom)'
        PROVE  {a, b} \cap borrowed # {}
    <3>1. CASE dir'[a].dom # "none" /\ dir'[b].dom = dir'[a].dom
      BY <1>1, <1>2, <1>3, <2>3, <3>1 DEF DistinctInv, Shares
    <3>2. CASE dir'[a].port # 0 /\ dir'[b].port = dir'[a].port
      BY <1>1, <1>2, <2>1, <2>2, <2>3, <3>2 DEF DistinctInv, Shares, PortIsFree
    <3>3. QED
      BY <2>3, <3>1, <3>2 DEF Shares
  <2>4. QED
    BY <1>1, <2>3 DEF DistinctInv
<1>5. alone /\ Unmarked(On(r))' => On(r) \in cut' \/ pc'[r] \in {"mark", "remark"}
  <2>1. dir'[On(r)].managed = dir[On(r)].managed
    <3>1. CASE UNCHANGED dir
      BY <3>1
    <3>2. CASE ~UNCHANGED dir
      <4>1. PICK p \in {got[r]} \cup (IF op[r].kind = "jar" THEN {dir[On(r)].port} \ {0} ELSE {}) :
               dir'[On(r)] = [dir[On(r)] EXCEPT !.port = p, !.kind = IF @ = "none" THEN "tomcat" ELSE @,
                                               !.stage = IF @ \in {"env", "full"} THEN "full" ELSE "bare"]
        BY <1>1, <3>2 DEF Conf, Write, Spoilt
      <4>2. QED
        BY <1>1, <4>1 DEF LiveTree, Tree
    <3>3. QED
      BY <3>1, <3>2
  <2>2. alone => dir[On(r)].managed
    BY <1>2 DEF MakeInv, Conf
  <2>3. QED
    BY <1>1, <2>1, <2>2 DEF Unmarked
<1>6. alone /\ Busy(r)' => MakeInv(r)'
  <2>1. pc'[r] \in {"unit", "failed"}
    BY DEF Conf, Spoilt, Failing, TypedInv, TypeOK
  <2>2. QED
    BY <2>1 DEF MakeInv
<1>7. BackInv(r)'
  BY <1>1 DEF BackInv
<1>8. alone => SiteInv' /\ HeldInv' /\ OwnInv'
  BY <1>1, <1>2, <1>3, DomsKept
<1>9. QED
  BY <1>1, <1>4, <1>5, <1>6, <1>7, <1>8, OwnStep

\* An unmarked tree that is not about to be marked was cut short.
LEMMA CutShort ==
    ASSUME TypedInv, LoneInv, alone, NEW r \in Request, Busy(r), pc[r] \notin {"mark", "remark"},
           Unmarked(On(r))
    PROVE  On(r) \in cut
<1>1. CASE On(r) \notin cut
  <2>1. PICK q \in Request : pc[q] \in {"mark", "remark"} /\ On(q) = On(r)
    BY <1>1, AtWork DEF LoneInv, MarkInv
  <2>2. Busy(q) /\ q # r
    BY <2>1 DEF Busy, Answer
  <2>3. QED
    BY <2>2, LoneFinds
<1>2. QED
  BY <1>1

\* What a request knows of the rest does not depend on its own tree.
LEMMA OwnFrames ==
    ASSUME NEW r \in Request, \A b \in App \ {On(r)} : dir'[b] = dir[b],
           UNCHANGED <<site, op, before>>, borrowed \subseteq borrowed',
           dropped \subseteq dropped', unnamed \subseteq unnamed'
    PROVE  /\ Apart(r) => Apart(r)'
           /\ FreshDom(r) => FreshDom(r)'
           /\ DomGone(r) => DomGone(r)'
           /\ Unrelied(r) => Unrelied(r)'
<1>1. Apart(r) => Apart(r)'
  BY DEF Apart, Shares, Was
<1>2. FreshDom(r) => FreshDom(r)'
  BY DEF FreshDom
<1>3. DomGone(r) => DomGone(r)'
  BY DEF DomGone, Gone, Was
<1>4. Unrelied(r) => Unrelied(r)'
  BY DEF Unrelied, Spare, Lent, Unknown
<1>5. QED
  BY <1>1, <1>2, <1>3, <1>4

\* Sites that are taken down, with the markers that name them.
LEMMA SiteGone ==
    ASSUME SiteInv, HeldInv, OwnInv, TypedInv, UNCHANGED <<borrowed, dropped, unnamed>>,
           \A d \in Domain : site'[d] \in {site[d], "none"},
           \A b \in App : \/ dir'[b].dom = dir[b].dom
                          \/ dir'[b].dom = "none" /\ \A d \in Domain : dir[b].dom = d => site'[d] = "none"
    PROVE  SiteInv' /\ HeldInv' /\ OwnInv'
<1>1. \A d \in Domain : site[d] # "none" => site[d] \in App
  BY DEF TypedInv, TypeOK, InstTypeOK
<1>2. SiteInv'
  BY DEF SiteInv, Named, Unknown
<1>3. ASSUME NEW d \in Domain, site'[d] # "none"
      PROVE  \A b \in App : dir'[b].dom = d <=> dir[b].dom = d
  BY <1>3, NamesAssumption
<1>4. HeldInv'
  BY <1>1, <1>3 DEF HeldInv, Lent
<1>5. OwnInv'
  BY <1>3, NamesAssumption DEF OwnInv
<1>6. QED
  BY <1>2, <1>4, <1>5

\* The steps of delete(): the marker goes with the site, and the tree after both.
LEMMA RemoveSiteLone ==
    ASSUME TypedInv, TypedInv', LoneInv, NEW r \in Request, RemoveSite(r),
           UNCHANGED <<arcVars, workVars, oldVars>>
    PROVE  LoneInv'
<1>1. dir \in [App -> LiveTree] /\ dir' \in [App -> LiveTree] /\ pc \in [Request -> Label]
  BY DEF TypedInv, TypeOK, InstTypeOK, LiveTree
<1>2. Busy(r) /\ pc[r] # "marker" /\ On(r) \in App /\ dir[On(r)] \in LiveTree
  <2>1. Busy(r) /\ pc[r] # "marker"
    BY DEF RemoveSite, Busy, Answer
  <2>2. QED
    BY <1>1, <2>1, AtWork, Routes DEF RemoveSite, RestorePC
<1>3. /\ UNCHANGED <<op, alone, cut, borrowed, dropped, unnamed, before>> /\ cut \ {On(r)} \subseteq cut'
      /\ \A q \in Request \ {r} : pc'[q] = pc[q]
      /\ \A b \in App \ {On(r)} : dir'[b] = dir[b]
  BY <1>1, <1>2 DEF Failing, RemoveSite
<1> SUFFICES ASSUME alone
             PROVE  /\ Unmarked(On(r))' => On(r) \in cut' \/ pc'[r] \in {"mark", "remark"}
                    /\ DistinctInv' /\ SiteInv' /\ HeldInv' /\ OwnInv'
                    /\ Busy(r)' => MakeInv(r)' /\ BackInv(r)'
  BY <1>2, <1>3, OwnStep
<1>4. DistinctInv /\ SiteInv /\ HeldInv /\ OwnInv /\ MakeInv(r) /\ BackInv(r)
  BY <1>2, Lone
<1>5. SiteInv' /\ HeldInv' /\ OwnInv'
  <2>1. \A d \in Domain : site'[d] \in {site[d], "none"}
    BY DEF RemoveSite, TypedInv, TypeOK, InstTypeOK
  <2>2. \/ dir'[On(r)].dom = dir[On(r)].dom
        \/ dir'[On(r)].dom = "none" /\ \A d \in Domain : dir[On(r)].dom = d => site'[d] = "none"
    BY <1>1, <1>2 DEF RemoveSite, TypedInv, TypeOK, InstTypeOK, LiveTree, Tree
  <2>3. QED
    BY <1>3, <1>4, <2>1, <2>2, SiteGone
<1>6. dir'[On(r)].port = dir[On(r)].port /\ dir'[On(r)].dom \in {dir[On(r)].dom, "none"}
      /\ (Unmarked(On(r))' => Unmarked(On(r)))
  BY <1>1, <1>2, <1>3, Trees DEF RemoveSite, Unmarked, exists, LiveTree, Tree
<1>7. DistinctInv'
  BY <1>3, <1>4, <1>6, PortsKept
<1>8. Unmarked(On(r))' => On(r) \in cut'
  BY <1>2, <1>3, <1>6, CutShort DEF RemoveSite
<1>9. pc'[r] = "sched" /\ pc[r] = "site"
  BY <1>1 DEF RemoveSite
<1>10. MakeInv(r)'
  BY <1>1, <1>2, <1>9 DEF MakeInv, NoSite, RemoveSite, TypedInv, TypeOK, InstTypeOK, LiveTree,
     Tree
<1>11. BackInv(r)'
  <2>1. (Apart(r) => Apart(r)') /\ (FreshDom(r) => FreshDom(r)')
    BY <1>3 DEF Apart, Shares, Was, FreshDom
  <2>2. SameDom(r) => SameDom(r)' \/ DomGone(r)'
    BY <1>1, <1>2, <1>3, TreeFields DEF SameDom, DomGone, Gone, Was, RemoveSite, TypedInv,
       TypeOK, InstTypeOK, LiveTree
  <2>3. QED
    BY <1>3, <1>4, <1>9, <2>1, <2>2 DEF BackInv, Placed
<1>12. QED
  BY <1>5, <1>7, <1>8, <1>10, <1>11

LEMMA RemoveTreeLone ==
    ASSUME TypedInv, TypedInv', LoneInv, NEW r \in Request, NEW end,
           (end = "done" /\ op[r].do = "delete") \/ (end = "clear" /\ op[r].do = "restore"),
           RemoveTree(r, end),
           UNCHANGED <<arcVars, workVars, oldVars>>
    PROVE  LoneInv'
<1>1. dir \in [App -> LiveTree] /\ dir' \in [App -> LiveTree] /\ pc \in [Request -> Label]
  BY DEF TypedInv, TypeOK, InstTypeOK, LiveTree
<1>2. Busy(r) /\ pc[r] # "marker" /\ On(r) \in App /\ dir[On(r)] \in LiveTree
  <2>1. Busy(r) /\ pc[r] # "marker"
    BY DEF RemoveTree, Busy, Answer
  <2>2. QED
    BY <1>1, <2>1, AtWork, Routes DEF RemoveTree, RestorePC
<1>3. /\ UNCHANGED <<site, op, alone, borrowed, dropped, unnamed, before>> /\ cut \ {On(r)} \subseteq cut'
      /\ \A q \in Request \ {r} : pc'[q] = pc[q]
      /\ \A b \in App \ {On(r)} : dir'[b] = dir[b]
  BY <1>1, <1>2 DEF Failing, RemoveTree
<1> SUFFICES ASSUME alone
             PROVE  /\ Unmarked(On(r))' => On(r) \in cut' \/ pc'[r] \in {"mark", "remark"}
                    /\ DistinctInv' /\ SiteInv' /\ HeldInv' /\ OwnInv'
                    /\ Busy(r)' => MakeInv(r)' /\ BackInv(r)'
  BY <1>2, <1>3, OwnStep
<1>4. DistinctInv /\ SiteInv /\ HeldInv /\ OwnInv /\ MakeInv(r) /\ BackInv(r)
  BY <1>2, Lone
<1>5. ~blocked[r] => dir[On(r)].dom = "none"
  BY <1>4 DEF MakeInv, NoSite, RemoveTree
<1>6. dir'[On(r)].port \in {dir[On(r)].port, 0} /\ dir'[On(r)].dom = dir[On(r)].dom
  BY <1>1, <1>2, <1>5, Trees, HalfTrees DEF RemoveTree
<1>7. SiteInv' /\ HeldInv' /\ OwnInv' /\ DistinctInv'
  BY <1>3, <1>4, <1>6, DomsKept, PortsKept
<1>8. Unmarked(On(r))' => On(r) \in cut'
  <2>1. CASE UNCHANGED dir
    <3>1. Unmarked(On(r))' => Unmarked(On(r))
      BY <1>3, <2>1 DEF Unmarked, exists
    <3>2. UNCHANGED cut \/ ~exists(On(r))' \/ On(r) \in cut'
      BY <1>1, <1>2, <1>3 DEF RemoveTree, exists
    <3>3. QED
      BY <1>2, <3>1, <3>2, CutShort DEF RemoveTree, Unmarked
  <2>2. CASE ~UNCHANGED dir
    BY <1>1, <1>2, <1>3, <2>2 DEF RemoveTree, Unmarked, exists
  <2>3. QED
    BY <2>1, <2>2
<1>9. pc'[r] \in {end, "failed"} /\ pc[r] = "tree"
  BY <1>1 DEF RemoveTree, Failing
<1>10. MakeInv(r)'
  BY <1>9 DEF MakeInv
<1>11. Busy(r)' => BackInv(r)'
  <2>1. SameDom(r) => SameDom(r)'
    BY <1>3, <1>6 DEF SameDom, Was
  <2>2. QED
    BY <1>3, <1>4, <1>9, <2>1, OwnFrames DEF BackInv, Placed, Busy, Answer
<1>12. QED
  BY <1>7, <1>8, <1>10, <1>11

\* What a restore removes it has been rid of the site of, or it is remembered as dropped.
LEMMA ClearLone ==
    ASSUME TypedInv, TypedInv', LoneInv, NEW r \in Request, Clear(r)
    PROVE  LoneInv'
<1>1. dir \in [App -> LiveTree] /\ dir' \in [App -> LiveTree] /\ pc \in [Request -> Label]
  BY DEF TypedInv, TypeOK, InstTypeOK, LiveTree
<1>2. Busy(r) /\ pc[r] # "marker" /\ op[r].do = "restore" /\ On(r) \in App /\ dir[On(r)] \in LiveTree
  <2>1. Busy(r) /\ pc[r] # "marker"
    BY DEF Clear, Busy, Answer
  <2>2. QED
    BY <1>1, <2>1, AtWork, Routes DEF Clear, RestorePC
<1>3. /\ UNCHANGED <<site, op, alone, unnamed>> /\ cut \ {On(r)} \subseteq cut'
      /\ \A q \in Request \ {r} : pc'[q] = pc[q]
      /\ \A b \in App \ {On(r)} : dir'[b] = dir[b]
  BY <1>1, <1>2 DEF Failing, Clear
<1> SUFFICES ASSUME alone
             PROVE  /\ Unmarked(On(r))' => On(r) \in cut' \/ pc'[r] \in {"mark", "remark"}
                    /\ DistinctInv' /\ SiteInv' /\ HeldInv' /\ OwnInv'
                    /\ Busy(r)' => MakeInv(r)' /\ BackInv(r)'
  BY <1>2, <1>3, OwnStep
<1>4. DistinctInv /\ SiteInv /\ HeldInv /\ OwnInv /\ MakeInv(r) /\ BackInv(r)
  BY <1>2, Lone
<1>5. /\ dir'[On(r)].port = 0 /\ dir'[On(r)].dom \in {dir[On(r)].dom, "none"}
      /\ UNCHANGED borrowed /\ dropped' = dropped \cup Forgotten(On(r)) /\ UNCHANGED before
  BY <1>1, <1>2, Trees, HalfTrees DEF Clear
<1>6. SiteInv' /\ HeldInv' /\ OwnInv'
  <2>1. \A d \in Domain : dir[On(r)].dom = d => d \in dropped'
    BY <1>5, NamesAssumption DEF Forgotten
  <2>2. QED
    BY <1>2, <1>3, <1>4, <1>5, <2>1, DomLost
<1>7. DistinctInv'
  BY <1>3, <1>4, <1>5, PortsKept
<1>8. Unmarked(On(r))' => On(r) \in cut'
  BY <1>1, <1>2, <1>3 DEF Clear, Unmarked, exists
<1>9. pc[r] = "clear" /\ (pc'[r] = "failed" \/ (pc'[r] = "move" /\ dir'[On(r)] = NoTree))
  BY <1>1, <1>2 DEF Clear, Failing
<1>10. MakeInv(r)'
  BY <1>9 DEF MakeInv
<1>11. ASSUME pc'[r] = "move" PROVE BackInv(r)'
  <2>1. dir'[On(r)] = NoTree
    BY <1>9, <1>11
  <2>2. DomGone(r)'
    <3>1. CASE DomGone(r)
      BY <1>3, <1>5, <3>1, OwnFrames
    <3>2. CASE SameDom(r)
      BY <1>3, <1>5, <3>2 DEF SameDom, DomGone, Gone, Was, Forgotten
    <3>3. QED
      BY <1>2, <1>4, <1>9, <3>1, <3>2 DEF BackInv
  <2>3. Unrelied(r)'
    <3>1. \A d \in Domain : dir'[On(r)].dom # d
      BY <2>1, Trees, NamesAssumption
    <3>2. \A d \in Domain : site'[d] # "none" => (\E b \in App \ {On(r)} : dir'[b].dom = d) \/ d \in Unknown'
      BY <1>6, <3>1 DEF SiteInv, Named
    <3>3. \A d \in Domain : site'[d] = On(r) => Lent(On(r), d)'
      BY <1>2, <1>3, <1>6, <3>1, NamesAssumption DEF HeldInv
    <3>4. QED
      BY <1>3, <3>2, <3>3 DEF Unrelied, Spare
  <2>4. Apart(r)' /\ FreshDom(r)'
    BY <1>2, <1>3, <1>4, <1>5, <1>9, OwnFrames DEF BackInv, Placed
  <2>5. QED
    BY <1>3, <1>11, <2>1, <2>2, <2>3, <2>4 DEF BackInv, Placed
<1>12. QED
  BY <1>6, <1>7, <1>8, <1>9, <1>10, <1>11 DEF Busy, Answer

\* Once the archived tree is in place, it names the domain it was archived with.
LEMMA RemarkLone ==
    ASSUME TypedInv, TypedInv', LoneInv, NEW r \in Request, Remark(r)
    PROVE  LoneInv'
<1>1. dir \in [App -> LiveTree] /\ dir' \in [App -> LiveTree] /\ pc \in [Request -> Label]
  BY DEF TypedInv, TypeOK, InstTypeOK, LiveTree
<1>2. Busy(r) /\ pc[r] # "marker" /\ op[r].do = "restore" /\ On(r) \in App /\ dir[On(r)] \in LiveTree
  <2>1. Busy(r) /\ pc[r] # "marker"
    BY DEF Remark, Busy, Answer
  <2>2. QED
    BY <1>1, <2>1, AtWork, Routes DEF Remark, RestorePC
<1>3. /\ UNCHANGED <<site, op, alone, unnamed>> /\ cut \ {On(r)} \subseteq cut'
      /\ \A q \in Request \ {r} : pc'[q] = pc[q]
      /\ \A b \in App \ {On(r)} : dir'[b] = dir[b]
  BY <1>1, <1>2 DEF Failing, Remark
<1> SUFFICES ASSUME alone
             PROVE  /\ Unmarked(On(r))' => On(r) \in cut' \/ pc'[r] \in {"mark", "remark"}
                    /\ DistinctInv' /\ SiteInv' /\ HeldInv' /\ OwnInv'
                    /\ Busy(r)' => MakeInv(r)' /\ BackInv(r)'
  BY <1>2, <1>3, OwnStep
<1>4. DistinctInv /\ SiteInv /\ HeldInv /\ OwnInv /\ MakeInv(r) /\ BackInv(r)
  BY <1>2, Lone
<1>5. /\ dir'[On(r)].port \in {dir[On(r)].port, 0} /\ dir'[On(r)].dom \in {dir[On(r)].dom, "none"}
      /\ UNCHANGED <<borrowed, dropped, before, staged>>
  BY <1>1, <1>2, Trees, MarkedFields DEF Remark
<1>6. Unrelied(r) /\ FreshDom(r) /\ StagedDom(r)
  BY <1>2, <1>4 DEF BackInv, Placed, Remark
<1>7. SiteInv' /\ HeldInv' /\ OwnInv'
  <2>1. \A d \in Domain :
           /\ site[d] # "none" => (\E b \in App \ {On(r)} : dir[b].dom = d) \/ d \in Unknown
           /\ site[d] = On(r) => Lent(On(r), d)
    BY <1>6 DEF Unrelied, Spare
  <2>2. QED
    BY <1>2, <1>3, <1>4, <1>5, <2>1, DomLost
<1>8. DistinctInv'
  BY <1>3, <1>4, <1>5, PortsKept
<1>9. Unmarked(On(r))' => On(r) \in cut'
  BY <1>1, <1>2, <1>3, MarkedFields DEF Remark, Unmarked, exists
<1>10. \/ pc'[r] = "failed"
       \/ pc'[r] = "port" /\ dir'[On(r)].dom = dir[On(r)].dom
  BY <1>1, <1>2, MarkedFields DEF Remark, Failing
<1>11. MakeInv(r)'
  BY <1>10 DEF MakeInv
<1>12. Busy(r)' => BackInv(r)'
  <2>1. dir'[On(r)].dom = dir[On(r)].dom => StagedDom(r)'
    BY <1>3, <1>5, <1>6 DEF StagedDom
  <2>2. Unrelied(r)' /\ FreshDom(r)'
    BY <1>3, <1>5, <1>6, OwnFrames
  <2>3. QED
    BY <1>10, <2>1, <2>2 DEF BackInv, Placed, Busy, Answer
<1>13. QED
  BY <1>7, <1>8, <1>9, <1>11, <1>12

LEMMA ResecureLone ==
    ASSUME TypedInv, TypedInv', LoneInv, NEW r \in Request, Resecure(r)
    PROVE  LoneInv'
<1>1. dir \in [App -> LiveTree] /\ dir' \in [App -> LiveTree] /\ pc \in [Request -> Label]
  BY DEF TypedInv, TypeOK, InstTypeOK, LiveTree
<1>2. Busy(r) /\ pc[r] # "marker" /\ op[r].do = "restore" /\ On(r) \in App /\ dir[On(r)] \in LiveTree
  <2>1. Busy(r) /\ pc[r] # "marker"
    BY DEF Resecure, Busy, Answer
  <2>2. QED
    BY <1>1, <2>1, AtWork, Routes DEF Resecure, RestorePC
<1>3. /\ UNCHANGED <<site, op, alone, unnamed>> /\ cut \ {On(r)} \subseteq cut'
      /\ \A q \in Request \ {r} : pc'[q] = pc[q]
      /\ \A b \in App \ {On(r)} : dir'[b] = dir[b]
  BY <1>1, <1>2 DEF Failing, Resecure
<1> SUFFICES ASSUME alone
             PROVE  /\ Unmarked(On(r))' => On(r) \in cut' \/ pc'[r] \in {"mark", "remark"}
                    /\ DistinctInv' /\ SiteInv' /\ HeldInv' /\ OwnInv'
                    /\ Busy(r)' => MakeInv(r)' /\ BackInv(r)'
  BY <1>2, <1>3, OwnStep
<1>4. DistinctInv /\ SiteInv /\ HeldInv /\ OwnInv /\ MakeInv(r) /\ BackInv(r)
  BY <1>2, Lone
<1>5. /\ dir'[On(r)].port \in {dir[On(r)].port, 0} /\ dir'[On(r)].dom \in {dir[On(r)].dom, "none"}
      /\ UNCHANGED <<borrowed, dropped, before, staged>>
  BY <1>1, <1>2, Trees DEF Resecure
<1>6. Unrelied(r) /\ FreshDom(r) /\ StagedDom(r)
  BY <1>2, <1>4 DEF BackInv, Placed, Resecure
<1>7. SiteInv' /\ HeldInv' /\ OwnInv'
  <2>1. \A d \in Domain :
           /\ site[d] # "none" => (\E b \in App \ {On(r)} : dir[b].dom = d) \/ d \in Unknown
           /\ site[d] = On(r) => Lent(On(r), d)
    BY <1>6 DEF Unrelied, Spare
  <2>2. QED
    BY <1>2, <1>3, <1>4, <1>5, <2>1, DomLost
<1>8. DistinctInv'
  BY <1>3, <1>4, <1>5, PortsKept
<1>9. Unmarked(On(r))' => On(r) \in cut'
  <2>1. Unmarked(On(r))' => Unmarked(On(r))
    BY <1>1, <1>2, <1>3 DEF Resecure, Unmarked, exists
  <2>2. UNCHANGED cut
    BY DEF Resecure
  <2>3. QED
    BY <1>2, <2>1, <2>2, CutShort DEF Resecure
<1>10. \/ pc'[r] = "failed"
       \/ pc'[r] = "start" /\ UNCHANGED dir
  BY <1>1, <1>2 DEF Resecure, Failing
<1>11. MakeInv(r)'
  BY <1>10 DEF MakeInv
<1>12. Busy(r)' => BackInv(r)'
  <2>1. UNCHANGED dir => StagedDom(r)'
    BY <1>3, <1>5, <1>6 DEF StagedDom
  <2>2. Unrelied(r)' /\ FreshDom(r)'
    BY <1>3, <1>5, <1>6, OwnFrames
  <2>3. QED
    BY <1>10, <2>1, <2>2 DEF BackInv, Placed, Busy, Answer
<1>13. QED
  BY <1>7, <1>8, <1>9, <1>11, <1>12

\* A restore in place borrows a port or a domain that its app no longer had.
LEMMA MoveLone ==
    ASSUME TypedInv, TypedInv', LoneInv, NEW r \in Request, Move(r)
    PROVE  LoneInv'
<1>1. dir \in [App -> LiveTree] /\ dir' \in [App -> LiveTree] /\ pc \in [Request -> Label]
  BY DEF TypedInv, TypeOK, InstTypeOK, LiveTree
<1>2. Busy(r) /\ pc[r] # "marker" /\ op[r].do = "restore" /\ On(r) \in App /\ dir[On(r)] \in LiveTree
  <2>1. Busy(r) /\ pc[r] # "marker"
    BY DEF Move, Busy, Answer
  <2>2. QED
    BY <1>1, <2>1, AtWork, Routes DEF Move, RestorePC
<1>3. /\ UNCHANGED <<site, op, alone, unnamed>> /\ cut \ {On(r)} \subseteq cut'
      /\ \A q \in Request \ {r} : pc'[q] = pc[q]
      /\ \A b \in App \ {On(r)} : dir'[b] = dir[b]
  BY <1>1, <1>2 DEF Failing, Move
<1> SUFFICES ASSUME alone
             PROVE  /\ Unmarked(On(r))' => On(r) \in cut' \/ pc'[r] \in {"mark", "remark"}
                    /\ DistinctInv' /\ SiteInv' /\ HeldInv' /\ OwnInv'
                    /\ Busy(r)' => MakeInv(r)' /\ BackInv(r)'
  BY <1>2, <1>3, OwnStep
<1>4. DistinctInv /\ SiteInv /\ HeldInv /\ OwnInv /\ MakeInv(r) /\ BackInv(r)
  BY <1>2, Lone
<1>5. pc[r] = "move" /\ dir[On(r)] = NoTree /\ DomGone(r) /\ Apart(r) /\ Unrelied(r) /\ FreshDom(r)
  BY <1>2, <1>4 DEF BackInv, Placed, Move
<1>6. UNCHANGED <<dropped, before, staged>> /\ borrowed \subseteq borrowed'
  BY DEF Move
<1>7. \/ pc'[r] = "failed" /\ dir'[On(r)].port = 0 /\ dir'[On(r)].dom = "none" /\ On(r) \in cut'
      \/ /\ pc'[r] = "remark" /\ dir'[On(r)] = staged[r]
         /\ \/ On(r) \in borrowed'
            \/ ~New(r) /\ staged[r].port = Was(r).port /\ staged[r].dom = Was(r).dom
  <2>1. CASE Goto(r, "remark")
    <3>1. pc'[r] = "remark"
      BY <1>1, <2>1
    <3>2. /\ dir' = [dir EXCEPT ![On(r)] = IF @ = NoTree THEN staged[r] ELSE @]
          /\ borrowed' = IF New(r) \/ staged[r].port # Was(r).port
                               \/ staged[r].dom # Was(r).dom THEN borrowed \cup {On(r)} ELSE borrowed
      BY <1>1, <3>1 DEF Move, Failing, Was
    <3>3. dir'[On(r)] = staged[r]
      BY <1>1, <1>2, <1>5, <3>2
    <3>4. QED
      BY <3>1, <3>2, <3>3
  <2>2. CASE Failing(r, "io")
    BY <1>1, <1>2, <1>5, <2>2, Trees DEF Move, Failing
  <2>3. QED
    BY <2>1, <2>2 DEF Move
<1>8. CASE pc'[r] = "failed"
  <2>1. SiteInv' /\ HeldInv' /\ OwnInv' /\ DistinctInv'
    BY <1>3, <1>4, <1>5, <1>6, <1>7, <1>8, Trees, DomsKept, PortsKept
  <2>2. QED
    BY <1>3, <1>7, <1>8, <2>1 DEF Busy, Answer
<1>9. CASE pc'[r] = "remark"
  <2> DEFINE a == On(r)
  <2>1. /\ dir'[a] = staged[r]
        /\ a \in borrowed' \/ (~New(r) /\ staged[r].port = Was(r).port /\ staged[r].dom = Was(r).dom)
    BY <1>7, <1>9
  <2>2. ASSUME NEW b \in App \ {a}, Shares(b, staged[r].port, staged[r].dom)
        PROVE  {a, b} \cap borrowed' # {}
    BY <1>5, <1>6, <2>1, <2>2 DEF Apart
  <2>3. DistinctInv'
    <3>1. ASSUME NEW b \in App, NEW c \in App, b # c, Shares(c, dir[b].port, dir[b].dom)'
          PROVE  {b, c} \cap borrowed' # {}
      <4>1. CASE b = a
        BY <1>3, <2>1, <2>2, <3>1, <4>1 DEF Shares
      <4>2. CASE c = a
        BY <1>3, <2>1, <2>2, <3>1, <4>2 DEF Shares
      <4>3. CASE b # a /\ c # a
        BY <1>3, <1>4, <1>6, <3>1, <4>3 DEF DistinctInv, Shares
      <4>4. QED
        BY <4>1, <4>2, <4>3
    <3>2. QED
      BY <3>1 DEF DistinctInv
  <2>4. SiteInv'
    BY <1>3, <1>5, <1>6 DEF SiteInv, Named, Unrelied, Spare, Unknown
  <2>5. ASSUME NEW d \in Domain, site[d] # "none", staged[r].dom = d
        PROVE  a \in borrowed' \/ d \in dropped
    BY <1>5, <2>1, <2>5, NamesAssumption DEF DomGone, Gone
  <2>6. HeldInv'
    <3>1. ASSUME NEW d \in Domain, site[d] # "none", dir'[site[d]].dom # d
          PROVE  d \in dropped \/ \A b \in App \ {site[d]} : dir'[b].dom = d => b \in borrowed'
      <4>1. site[d] \in App
        BY <3>1 DEF TypedInv, TypeOK, InstTypeOK
      <4>2. dir[site[d]].dom # d
        BY <1>3, <1>5, <3>1, <4>1, Trees, NamesAssumption
      <4>3. Lent(site[d], d)
        BY <1>4, <3>1, <4>2 DEF HeldInv
      <4>4. QED
        BY <1>3, <1>6, <2>1, <2>5, <3>1, <4>3 DEF Lent
    <3>2. QED
      BY <1>3, <1>6, <3>1 DEF HeldInv, Lent
  <2>7. OwnInv'
    BY <1>3, <1>4, <1>6, <2>1, <2>5 DEF OwnInv
  <2>8. MakeInv(r)'
    BY <1>9 DEF MakeInv
  <2>9. BackInv(r)'
    <3>1. StagedDom(r)'
      BY <1>3, <1>6, <2>1 DEF StagedDom
    <3>2. Unrelied(r)' /\ FreshDom(r)'
      BY <1>3, <1>5, <1>6, OwnFrames
    <3>3. QED
      BY <1>9, <3>1, <3>2 DEF BackInv, Placed
  <2>10. QED
    BY <1>9, <2>3, <2>4, <2>6, <2>7, <2>8, <2>9
<1>10. QED
  BY <1>7, <1>8, <1>9

\* A new app is given a port of its own and no domain: what it borrowed it returns.
LEMMA PlaceLone ==
    ASSUME TypedInv, TypedInv', LoneInv, NEW r \in Request, Place(r)
    PROVE  LoneInv'
<1>1. dir \in [App -> LiveTree] /\ dir' \in [App -> LiveTree] /\ pc \in [Request -> Label]
  BY DEF TypedInv, TypeOK, InstTypeOK, LiveTree
<1>2. Busy(r) /\ pc[r] # "marker" /\ op[r].do = "restore" /\ On(r) \in App /\ dir[On(r)] \in LiveTree
  <2>1. Busy(r) /\ pc[r] # "marker"
    BY DEF Place, Busy, Answer
  <2>2. QED
    BY <1>1, <2>1, AtWork, Routes DEF Place, RestorePC
<1>3. /\ UNCHANGED <<site, op, alone, unnamed>> /\ cut \ {On(r)} \subseteq cut'
      /\ \A q \in Request \ {r} : pc'[q] = pc[q]
      /\ \A b \in App \ {On(r)} : dir'[b] = dir[b]
  BY <1>1, <1>2 DEF Failing, Place
<1> SUFFICES ASSUME alone
             PROVE  /\ Unmarked(On(r))' => On(r) \in cut' \/ pc'[r] \in {"mark", "remark"}
                    /\ DistinctInv' /\ SiteInv' /\ HeldInv' /\ OwnInv'
                    /\ Busy(r)' => MakeInv(r)' /\ BackInv(r)'
  BY <1>2, <1>3, OwnStep
<1>4. DistinctInv /\ SiteInv /\ HeldInv /\ OwnInv /\ MakeInv(r) /\ BackInv(r)
  BY <1>2, Lone
<1>5. pc[r] = "port" /\ Unrelied(r) /\ FreshDom(r) /\ StagedDom(r)
  BY <1>2, <1>4 DEF BackInv, Placed, Place
<1>6. UNCHANGED <<dropped, before, staged, cut>> /\ pc'[r] \in {"unit", "failed"}
  BY <1>1 DEF Place, Failing
<1>7. MakeInv(r)'
  BY <1>6 DEF MakeInv
<1>8. CASE UNCHANGED <<dir, borrowed>>
  <2>1. SiteInv' /\ HeldInv' /\ OwnInv' /\ DistinctInv'
    BY <1>3, <1>4, <1>6, <1>8, Frames
  <2>2. StagedDom(r)' /\ Unrelied(r)' /\ FreshDom(r)'
    BY <1>3, <1>5, <1>6, <1>8, Frames DEF StagedDom
  <2>3. Busy(r)' => BackInv(r)'
    BY <1>6, <2>2 DEF BackInv, Placed, Busy, Answer
  <2>4. Unmarked(On(r))' => Unmarked(On(r))
    BY <1>3, <1>8 DEF Unmarked, exists
  <2>5. QED
    BY <1>2, <1>5, <1>6, <1>7, <2>1, <2>3, <2>4, CutShort
<1>9. CASE ~UNCHANGED <<dir, borrowed>>
  <2> DEFINE a == On(r)
  <2>1. New(r) /\ borrowed' = borrowed \ {a} /\ pc'[r] = "unit"
    BY <1>1, <1>9 DEF Place
  <2>2. PICK p \in Free :
           dir' = [dir EXCEPT ![a].port = IF @ = 0 THEN 0 ELSE p, ![a].dom = "none"]
    BY <1>9, Ports DEF Place
  <2>3. dir'[a].port \in {0, p} /\ dir'[a].dom = "none" /\ dir'[a].managed = dir[a].managed
    BY <1>1, <1>2, <2>2 DEF LiveTree, Tree
  <2>4. \A b \in App \ {a} : dir'[b].port # p
    BY <1>3, PortsAssumption DEF Free, used_ports
  <2>5. DistinctInv'
    <3>1. ASSUME NEW b \in App, NEW c \in App, b # c, Shares(c, dir[b].port, dir[b].dom)'
          PROVE  {b, c} \cap borrowed' # {}
      <4>1. b # a /\ c # a
        BY <1>3, <2>3, <2>4, <3>1 DEF Shares
      <4>2. QED
        BY <1>3, <1>4, <2>1, <3>1, <4>1 DEF DistinctInv, Shares
    <3>2. QED
      BY <3>1 DEF DistinctInv
  <2>6. \A d \in Domain, b \in App : dir'[b].dom = d => b # a /\ dir[b].dom = d
    BY <1>3, <2>3, NamesAssumption
  <2>7. SiteInv'
    BY <1>3, <1>5, <1>6 DEF SiteInv, Named, Unrelied, Spare, Unknown
  <2>8. HeldInv'
    <3>1. ASSUME NEW d \in Domain, site[d] # "none", dir'[site[d]].dom # d
          PROVE  d \in dropped \/ \A b \in App \ {site[d]} : dir'[b].dom = d => b \in borrowed'
      <4>1. site[d] \in App
        BY <3>1 DEF TypedInv, TypeOK, InstTypeOK
      <4>2. Lent(site[d], d)
        BY <1>3, <1>4, <1>5, <3>1, <4>1 DEF HeldInv, Unrelied, Spare
      <4>3. QED
        BY <2>1, <2>6, <4>2 DEF Lent
    <3>2. QED
      BY <1>3, <1>6, <3>1 DEF HeldInv, Lent
  <2>9. OwnInv'
    <3>1. ASSUME NEW b \in App, NEW d \in Domain, dir'[b].dom = d, site[d] \notin {"none", b}
          PROVE  {site[d], b} \cap borrowed' # {} \/ d \in dropped
      <4>1. b # a /\ dir[b].dom = d
        BY <2>6, <3>1
      <4>2. CASE site[d] = a
        BY <1>5, <2>1, <4>1, <4>2 DEF Unrelied, Spare, Lent
      <4>3. CASE site[d] # a
        BY <1>4, <2>1, <3>1, <4>1, <4>3 DEF OwnInv
      <4>4. QED
        BY <4>2, <4>3
    <3>2. QED
      BY <1>3, <1>6, <3>1 DEF OwnInv
  <2>10. BackInv(r)'
    <3>1. Unrelied(r)'
      BY <1>3, <1>5, <1>6, <2>1 DEF Unrelied, Spare, Lent, Unknown
    <3>2. FreshDom(r)' /\ StagedDom(r)'
      BY <1>3, <1>5, <2>1 DEF FreshDom, StagedDom
    <3>3. QED
      BY <2>1, <3>1, <3>2 DEF BackInv, Placed
  <2>11. Unmarked(On(r))' => Unmarked(On(r))
    <3>1. CASE dir[a] = NoTree
      <4>1. dir'[a] = [dir[a] EXCEPT !.port = 0, !.dom = "none"]
        BY <1>1, <1>2, <2>2, <3>1, Trees
      <4>2. dir'[a] = NoTree
        BY <1>2, <3>1, <4>1, PlainTree, Trees
      <4>3. QED
        BY <1>3, <4>2 DEF Unmarked, exists
    <3>2. CASE dir[a] # NoTree
      BY <1>3, <2>3, <3>2 DEF Unmarked, exists
    <3>3. QED
      BY <3>1, <3>2
  <2>12. QED
    BY <1>2, <1>5, <1>6, <1>7, <2>5, <2>7, <2>8, <2>9, <2>10, <2>11, CutShort
<1>10. QED
  BY <1>8, <1>9

\* A domain that is published is the one asked for, or the one the app names: no other
\* tree names it, unless one of the two borrowed it.
LEMMA WantedRivals ==
    ASSUME NEW r \in Request, DistinctInv, FreshDom(r), StagedDom(r), Wanted(r) # "none",
           On(r) \in App, NEW b \in App \ {On(r)}, dir[b].dom = Wanted(r)
    PROVE  {On(r), b} \cap borrowed # {}
<1>1. CASE New(r)
  BY <1>1 DEF FreshDom, Wanted
<1>2. CASE ~New(r)
  BY <1>2 DEF StagedDom, Wanted, DistinctInv, Shares
<1>3. QED
  BY <1>1, <1>2

\* A domain is only pointed at the app that was asked for it, or had it.
LEMMA RepublishLone ==
    ASSUME TypedInv, TypedInv', LoneInv, NEW r \in Request, Republish(r)
    PROVE  LoneInv'
<1>1. dir \in [App -> LiveTree] /\ pc \in [Request -> Label] /\ pc[r] = "republish"
  BY DEF TypedInv, TypeOK, InstTypeOK, LiveTree, Republish
<1>2. Busy(r) /\ op[r].do = "restore" /\ On(r) \in App
  BY <1>1, AtWork, Routes DEF Busy, Answer, RestorePC
<1>3. /\ UNCHANGED <<dir, op, staged, alone, cut, borrowed, dropped, before>>
      /\ unnamed \subseteq unnamed' /\ \A q \in Request \ {r} : pc'[q] = pc[q]
  BY <1>1 DEF Republish
<1> SUFFICES ASSUME alone
             PROVE  /\ Unmarked(On(r))' => On(r) \in cut'
                    /\ DistinctInv' /\ (SiteInv' \/ pc'[r] = "marker") /\ HeldInv' /\ OwnInv'
                    /\ Busy(r)' => MakeInv(r)' /\ BackInv(r)'
  BY <1>2, <1>3, OwnStep
<1>4. DistinctInv /\ SiteInv /\ HeldInv /\ OwnInv /\ BackInv(r)
  BY <1>1, <1>2, Lone
<1>5. Unrelied(r) /\ FreshDom(r) /\ StagedDom(r)
  BY <1>1, <1>2, <1>4 DEF BackInv, Placed
<1>6. Unmarked(On(r))' => On(r) \in cut'
  BY <1>1, <1>2, <1>3, CutShort DEF Unmarked, exists
<1>7. DistinctInv'
  BY <1>3, <1>4 DEF DistinctInv, Shares
<1>8. CASE UNCHANGED site /\ pc'[r] = "done"
  BY <1>3, <1>4, <1>6, <1>7, <1>8, DomsKept DEF Busy, Answer
<1>9. CASE ~(UNCHANGED site /\ pc'[r] = "done")
  <2> DEFINE a == On(r)  w == Wanted(r)
  <2>1. /\ w # "none" /\ dir[a].port # 0 /\ site' = [site EXCEPT ![w] = a]
        /\ pc'[r] = "marker" \/ (pc'[r] = "done" /\ unnamed' = unnamed \cup Nameless(r))
    BY <1>1, <1>9 DEF Republish
  <2>2. w \in Domain
    <3>1. op[r] \in Ops /\ staged[r] \in Tree
      BY AtWork DEF TypedInv, TypeOK
    <3>2. QED
      BY <1>2, <2>1, <3>1, OpsAsked, TreeFields DEF Wanted
  <2>3. /\ site'[w] = a /\ \A x \in Domain \ {w} : site'[x] = site[x]
        /\ exists(a)
    BY <1>1, <1>2, <2>1, <2>2, Trees DEF TypedInv, TypeOK, InstTypeOK, exists
  <2>4. \A b \in App \ {a} : dir[b].dom = w => {a, b} \cap borrowed # {}
    BY <1>2, <1>4, <1>5, <2>1, WantedRivals
  <2>5. Lent(a, w) \/ dir[a].dom = w
    BY <1>5, <2>1 DEF FreshDom, StagedDom, Wanted, Lent
  <2>6. \A x \in Domain \ {w} : Spare(r, x)'
    BY <1>3, <1>5, <2>3 DEF Unrelied, Spare, Lent, Unknown
  <2>7. HeldInv'
    <3>1. ASSUME NEW x \in Domain, site'[x] # "none", dir[site'[x]].dom # x PROVE Lent(site'[x], x)
      BY <1>4, <2>3, <2>5, <3>1 DEF HeldInv
    <3>2. QED
      BY <1>3, <3>1 DEF HeldInv, Lent
  <2>8. OwnInv'
    BY <1>3, <1>4, <2>3, <2>4 DEF OwnInv
  <2>9. CASE pc'[r] = "marker"
    <3>1. Attached(r)'
      BY <1>3, <2>3, <2>6 DEF Attached, Wanted, exists
    <3>2. FreshDom(r)' /\ StagedDom(r)'
      BY <1>3, <1>5 DEF FreshDom, StagedDom
    <3>3. MakeInv(r)' /\ BackInv(r)'
      BY <2>9, <3>1, <3>2 DEF MakeInv, BackInv, Placed
    <3>4. QED
      BY <1>6, <1>7, <2>7, <2>8, <2>9, <3>3
  <2>10. CASE pc'[r] = "done" /\ unnamed' = unnamed \cup Nameless(r)
    <3>1. SiteInv'
      <4>1. ASSUME NEW x \in Domain, site'[x] # "none" PROVE Named(x) \/ x \in dropped \cup unnamed'
        BY <1>2, <1>4, <2>3, <2>10, <4>1 DEF SiteInv, Named, Unknown, Nameless
      <4>2. QED
        BY <1>3, <4>1 DEF SiteInv, Named, Unknown
    <3>2. QED
      BY <1>6, <1>7, <2>7, <2>8, <2>10, <3>1 DEF Busy, Answer
  <2>11. QED
    BY <2>1, <2>9, <2>10
<1>10. QED
  BY <1>8, <1>9

\* Once the tree names the domain, or the naming is known to have failed, nothing else
\* depends on what it named.
LEMMA NameSiteLone ==
    ASSUME TypedInv, TypedInv', LoneInv, NEW r \in Request, NameSite(r)
    PROVE  LoneInv'
<1>1. dir \in [App -> LiveTree] /\ pc \in [Request -> Label] /\ pc[r] = "marker"
  BY DEF TypedInv, TypeOK, InstTypeOK, LiveTree, NameSite
<1>2. Busy(r) /\ op[r].do = "restore" /\ On(r) \in App /\ dir[On(r)] \in LiveTree
  BY <1>1, AtWork, Routes DEF Busy, Answer, RestorePC
<1>3. /\ UNCHANGED <<op, staged, alone, cut, borrowed, dropped, before>>
      /\ pc'[r] = "done" /\ \A q \in Request \ {r} : pc'[q] = pc[q]
      /\ \A b \in App \ {On(r)} : dir'[b] = dir[b]
  BY <1>1, <1>2 DEF NameSite
<1> SUFFICES ASSUME alone
             PROVE  /\ Unmarked(On(r))' => On(r) \in cut'
                    /\ DistinctInv' /\ SiteInv' /\ HeldInv' /\ OwnInv'
  BY <1>2, <1>3, OwnStep DEF Busy, Answer
<1> DEFINE a == On(r)  w == Wanted(r)
<1>4. DistinctInv /\ HeldInv /\ OwnInv /\ BackInv(r) /\ WorkInv(r)
  BY <1>2, LoneFinds DEF TypedInv
<1>5. Attached(r) /\ FreshDom(r) /\ StagedDom(r) /\ w # "none"
  BY <1>1, <1>2, <1>4 DEF BackInv, Placed, WorkInv
<1>6. \A d \in Domain : site'[d] \in {site[d], "none"}
  BY DEF NameSite, TypedInv, TypeOK, InstTypeOK
<1>7. \/ dir'[a].dom = w /\ unnamed' = unnamed \ {w}
      \/ dir'[a].dom = dir[a].dom /\ unnamed' = unnamed \cup ({w} \ {dir[a].dom})
  BY <1>1, <1>2 DEF NameSite, Nameless, LiveTree, Tree, Bare
<1>8. dir'[a].port = dir[a].port /\ dir'[a].managed = dir[a].managed
  BY <1>1, <1>2, <1>5 DEF NameSite, Attached, exists, LiveTree, Tree
<1>9. \A b \in App \ {a} : dir[b].dom = w => {a, b} \cap borrowed # {}
  BY <1>2, <1>4, <1>5, WantedRivals
<1>10. Unmarked(a)' => a \in cut'
  BY <1>1, <1>2, <1>3, <1>5, <1>8, CutShort DEF Unmarked, Attached, exists
<1>11. DistinctInv'
  <2>1. ASSUME NEW b \in App, NEW c \in App, b # c, Shares(c, dir[b].port, dir[b].dom)'
        PROVE  {b, c} \cap borrowed # {}
    <3>1. dir'[b].port = dir[b].port /\ dir'[c].port = dir[c].port
      BY <1>3, <1>8
    <3>2. CASE Shares(c, dir[b].port, dir[b].dom)
      BY <1>4, <2>1, <3>2 DEF DistinctInv
    <3>3. CASE dir'[b].dom # "none" /\ dir'[c].dom = dir'[b].dom /\ b # a /\ c # a
      BY <1>3, <1>4, <2>1, <3>3 DEF DistinctInv, Shares
    <3>4. CASE /\ dir'[b].dom # "none" /\ dir'[c].dom = dir'[b].dom /\ (b = a \/ c = a)
               /\ ~Shares(c, dir[b].port, dir[b].dom)
      BY <1>3, <1>7, <1>9, <2>1, <3>4 DEF Shares
    <3>5. QED
      BY <2>1, <3>1, <3>2, <3>3, <3>4 DEF Shares
  <2>2. QED
    BY <1>3, <2>1 DEF DistinctInv
<1>12. SiteInv'
  <2>1. ASSUME NEW d \in Domain, site'[d] # "none" PROVE Named(d)' \/ d \in dropped \cup unnamed'
    <3>1. CASE d = w
      BY <1>2, <1>7, <3>1 DEF Named
    <3>2. CASE d # w
      BY <1>3, <1>5, <1>6, <1>7, <2>1, <3>2 DEF Named, Attached, Spare, Unknown
    <3>3. QED
      BY <3>1, <3>2
  <2>2. QED
    BY <1>3, <2>1 DEF SiteInv, Unknown
<1>13. HeldInv'
  <2>1. ASSUME NEW d \in Domain, site'[d] # "none", dir'[site'[d]].dom # d
        PROVE  d \in dropped \/ \A b \in App \ {site'[d]} : dir'[b].dom = d => b \in borrowed
    <3>1. site'[d] = site[d] /\ site[d] \in App
      BY <1>6, <2>1 DEF TypedInv, TypeOK, InstTypeOK
    <3>2. CASE d = w
      <4>1. site[d] = a
        BY <1>5, <3>2 DEF Attached
      <4>2. dir'[a].dom = dir[a].dom
        BY <1>7, <2>1, <3>1, <3>2, <4>1
      <4>3. Lent(a, d)
        BY <1>4, <2>1, <3>1, <4>1, <4>2 DEF HeldInv
      <4>4. QED
        BY <1>3, <3>1, <4>1, <4>3 DEF Lent
    <3>3. CASE d # w
      <4>1. Lent(site[d], d)
        BY <1>3, <1>4, <1>5, <2>1, <3>1, <3>3 DEF HeldInv, Attached, Spare
      <4>2. \A b \in App : dir'[b].dom = d => dir[b].dom = d
        BY <1>3, <1>7, <3>3
      <4>3. QED
        BY <3>1, <4>1, <4>2 DEF Lent
    <3>4. QED
      BY <3>2, <3>3
  <2>2. QED
    BY <1>3, <2>1 DEF HeldInv, Lent
<1>14. OwnInv'
  <2>1. ASSUME NEW b \in App, NEW d \in Domain, dir'[b].dom = d, site'[d] \notin {"none", b}
        PROVE  {site'[d], b} \cap borrowed # {} \/ d \in dropped
    <3>1. site'[d] = site[d]
      BY <1>6, <2>1
    <3>2. dir[b].dom = d \/ (b = a /\ d = w)
      BY <1>3, <1>7, <2>1
    <3>3. ~(b = a /\ d = w)
      BY <1>5, <2>1, <3>1 DEF Attached
    <3>4. QED
      BY <1>4, <2>1, <3>1, <3>2, <3>3 DEF OwnInv
  <2>2. QED
    BY <1>3, <2>1 DEF OwnInv
<1>15. QED
  BY <1>10, <1>11, <1>12, <1>13, <1>14

\* A tree that cannot be rendered ends the restore.
LEMMA RestoreUnitLone ==
    ASSUME TypedInv, TypedInv', LoneInv, NEW r \in Request, RestoreUnit(r)
    PROVE  LoneInv'
<1>1. CASE InstallUnit(r, "resecure")
  BY <1>1, InstallUnitLone DEF RestoreUnit
<1>2. CASE pc[r] = "unit" /\ Goto(r, "failed") /\ UNCHANGED <<appVars, kept>>
  <2>1. /\ Busy(r) /\ pc[r] \notin {"mark", "remark", "marker"} /\ ~Busy(r)'
        /\ \A q \in Request \ {r} : pc'[q] = pc[q]
        /\ UNCHANGED <<dir, site, cut, borrowed, dropped, unnamed, op, before, alone>>
    BY <1>2 DEF RestoreUnit, TypedInv, TypeOK, Busy, Answer
  <2>2. QED
    BY <2>1, QuietStep
<1>3. QED
  BY <1>1, <1>2 DEF RestoreUnit

\* A request that dies half-way leaves a tree that is known to be cut short.
LEMMA KilledLone ==
    ASSUME TypedInv, TypedInv', LoneInv, NEW r \in Request, Killed(r)
    PROVE  LoneInv'
<1>1. dir \in [App -> LiveTree] /\ dir' \in [App -> LiveTree] /\ pc \in [Request -> Label]
  BY DEF TypedInv, TypeOK, InstTypeOK, LiveTree
<1>2. Busy(r) /\ On(r) \in App /\ dir[On(r)] \in LiveTree
  BY <1>1, AtWork DEF Killed, Dies
<1>3. /\ UNCHANGED <<site, op, alone, borrowed>> /\ cut \ {On(r)} \subseteq cut'
      /\ dropped \subseteq dropped' /\ unnamed \subseteq unnamed' /\ pc'[r] = "dead"
      /\ \A q \in Request \ {r} : pc'[q] = pc[q]
      /\ \A b \in App \ {On(r)} : dir'[b] = dir[b]
  BY <1>1, <1>2 DEF Killed, Dies
<1> SUFFICES ASSUME alone
             PROVE  /\ Unmarked(On(r))' => On(r) \in cut'
                    /\ DistinctInv' /\ SiteInv' /\ HeldInv' /\ OwnInv'
  BY <1>2, <1>3, OwnStep DEF Busy, Answer
<1>4. DistinctInv /\ HeldInv /\ OwnInv /\ MakeInv(r) /\ BackInv(r) /\ (pc[r] # "marker" => SiteInv)
  BY <1>2, Lone, LoneFinds
<1>5. Unmarked(On(r))' => On(r) \in cut'
  BY <1>2, <1>3 DEF Killed, Dies, Unmarked, exists
<1>6. CASE pc[r] = "marker"
  <2>1. /\ \A b \in App : dir'[b].port = dir[b].port /\ dir'[b].dom = dir[b].dom
        /\ UNCHANGED dropped /\ unnamed' = unnamed \cup Nameless(r)
    BY <1>6, <1>1, <1>2, <1>3, Trees DEF Killed, Dies, exists
  <2>2. op[r].do = "restore"
    BY <1>6, Routes DEF RestorePC
  <2>3. Attached(r)
    BY <1>6, <1>4, <2>2 DEF BackInv
  <2>4. SiteInv'
    BY <1>2, <1>3, <2>1, <2>3 DEF SiteInv, Named, Unknown, Attached, Spare, Nameless
  <2>5. HeldInv' /\ OwnInv'
    BY <1>3, <1>4, <2>1 DEF HeldInv, OwnInv, Lent, TypedInv, TypeOK, InstTypeOK
  <2>6. QED
    BY <1>4, <1>3, <1>5, <2>1, <2>4, <2>5, PortsKept
<1>7. CASE UNCHANGED dir /\ pc[r] # "marker"
  <2>1. \A b \in App : /\ dir'[b].port \in {dir[b].port, 0} /\ dir'[b].dom \in {dir[b].dom, "none"}
                       /\ dir'[b].dom = dir[b].dom
    BY <1>7
  <2>2. QED
    BY <1>3, <1>4, <1>5, <1>7, <2>1, DomsKept, PortsKept
<1>8. CASE pc[r] = "clear" /\ \E t \in Half(dir[On(r)]) : dir' = [dir EXCEPT ![On(r)] = t]
  <2>1. dir'[On(r)].port = 0 /\ dir'[On(r)].dom \in {dir[On(r)].dom, "none"}
    BY <1>1, <1>2, <1>8, HalfTrees
  <2>2. \A d \in Domain : dir[On(r)].dom = d => d \in dropped'
    BY <1>8, NamesAssumption DEF Killed, Forgotten
  <2>3. SiteInv' /\ HeldInv' /\ OwnInv'
    BY <1>2, <1>3, <1>4, <1>8, <2>1, <2>2, DomLost
  <2>4. DistinctInv'
    BY <1>3, <1>4, <2>1, PortsKept
  <2>5. QED
    BY <1>5, <2>3, <2>4
<1>9. CASE pc[r] = "tree" /\ ~blocked[r] /\ \E t \in Half(dir[On(r)]) : dir' = [dir EXCEPT ![On(r)] = t]
  <2>1. dir[On(r)].dom = "none"
    BY <1>4, <1>9 DEF MakeInv, NoSite
  <2>2. dir'[On(r)].port = 0 /\ dir'[On(r)].dom = dir[On(r)].dom
    BY <1>1, <1>2, <1>9, <2>1, HalfTrees
  <2>3. QED
    BY <1>3, <1>4, <1>5, <1>9, <2>2, DomsKept, PortsKept
<1>10. CASE pc[r] = "move" /\ dir[On(r)] = NoTree /\ dir' = [dir EXCEPT ![On(r)] = Bare]
  <2>1. dir'[On(r)].port = 0 /\ dir'[On(r)].dom = dir[On(r)].dom
    BY <1>1, <1>2, <1>10, Trees
  <2>2. QED
    BY <1>3, <1>4, <1>5, <1>10, <2>1, DomsKept, PortsKept
<1>11. QED
  BY <1>6, <1>7, <1>8, <1>9, <1>10 DEF Killed, Dies, exists

\* Each request has its own note of what it found.
BeforeInv == DOMAIN before = Request

\* A request notes what it finds when it begins, and keeps the note.
LEMMA BeforeStep == ASSUME BeforeInv, [Next]_vars PROVE BeforeInv'
<1>1. ASSUME NEW r \in Request, AskAny(r) PROVE BeforeInv'
  BY <1>1 DEF AskAny, BeforeInv
<1>2. ASSUME NEW r \in Request, AppStep(r) \/ Killed(r) PROVE UNCHANGED before
  BY <1>2 DEF AppStep, Killed
<1>3. ASSUME NEW r \in Request, Backup(r) PROVE UNCHANGED before
  BY <1>3 DEF Backup, BackupCheck, Pack, Publish, Upload, PruneList, PruneDrop, DeleteBackup
<1>4. ASSUME NEW r \in Request, Restore(r) PROVE UNCHANGED before
  <2>1. StageIf(r, Whole(store[op[r].arch])) => UNCHANGED before
    BY DEF StageIf
  <2>2. QED
    BY <1>4, <2>1 DEF Restore, Fetch, Download, Stage, Halt, DeleteLive, Clear, Move, Remark,
       Place,
       RestoreUnit, Resecure, RestoreStart, Republish, NameSite
<1>5. CASE UNCHANGED vars
  BY <1>5 DEF vars, BeforeInv
<1>6. QED
  BY <1>1, <1>2, <1>3, <1>4, <1>5 DEF Next, BeforeInv

\* A request that begins when no other is at work finds apps with ports and domains of their own.
LEMMA AskLone ==
    ASSUME TypedInv, TypedInv', LoneInv, BeforeInv, NEW r \in Request, AskAny(r)
    PROVE  LoneInv'
<1>1. PICK o \in Ops, l \in {"admit", "site", "check", "act", "bcheck", "discard", "fetch"} :
         /\ Begin(r, o, l)
         /\ o.do = "restore" =>
               /\ l = "fetch"
               /\ o.new /\ o.dom # "none" => \A b \in App : dir[b].dom # o.dom
  <2>1. ASSUME NEW o \in Asked
        PROVE  /\ o \in Ops /\ o.do # "restore"
               /\ Enter(o) \in {"admit", "site", "check", "act", "bcheck", "discard", "fetch"}
    BY DEF Asked, Ops, Enter
  <2>2. ASSUME NEW o \in BackupOps PROVE o \in Ops /\ o.do # "restore"
    BY DEF BackupOps, Ops
  <2>3. ASSUME NEW o \in DiscardOps PROVE o \in Ops /\ o.do # "restore"
    BY DEF DiscardOps, Ops
  <2>4. ASSUME NEW o \in RestoreOps PROVE o \in Ops
    BY DEF Ops
  <2>5. QED
    BY <2>1, <2>2, <2>3, <2>4 DEF AskAny, Ask
<1>2. /\ UNCHANGED <<dir, unit, listens, site, sched, cut, borrowed, dropped, unnamed>>
      /\ op'[r] = o /\ pc'[r] = l /\ before'[r] = App0(o.app) /\ before'[r].tree = dir[o.app]
      /\ \A q \in Request \ {r} : pc'[q] = pc[q]
      /\ alone' => alone /\ \A q \in Request : ~Busy(q)
  BY <1>1 DEF AskAny, Begin, TypedInv, TypeOK, App0, BeforeInv
<1>3. SUFFICES ASSUME alone' PROVE LoneInv'
  BY DEF LoneInv, AloneInv
<1>4. \A q \in Request \ {r} : ~Busy(q)'
  BY <1>2, <1>3 DEF Busy
<1>5. AloneInv'
  BY <1>4 DEF AloneInv
<1>6. DistinctInv' /\ SiteInv' /\ HeldInv' /\ OwnInv'
  <2>1. DistinctInv /\ SiteInv /\ HeldInv /\ OwnInv
    BY <1>2, <1>3 DEF LoneInv, Busy, Answer
  <2>2. QED
    BY <1>2, <2>1 DEF DistinctInv, SiteInv, HeldInv, OwnInv, Shares, Named, Lent, Unknown
<1>7. MarkInv'
  <2>1. ASSUME NEW a \in App, Unmarked(a)', a \notin cut' PROVE FALSE
    <3>1. Unmarked(a) /\ a \notin cut
      BY <1>2, <2>1 DEF Unmarked, exists
    <3>2. PICK q \in Request : pc[q] \in {"mark", "remark"}
      BY <1>2, <1>3, <3>1 DEF LoneInv, MarkInv
    <3>3. QED
      BY <1>2, <1>3, <3>2 DEF Busy, Answer
  <2>2. QED
    BY <2>1 DEF MarkInv
<1>8. MakeInv(r)'
  BY <1>2 DEF MakeInv
<1>9. ASSUME op'[r].do = "restore" PROVE BackInv(r)'
  <2>1. On(r)' \in App /\ pc'[r] = "fetch"
    BY <1>1, <1>2, <1>9, OpsAsked
  <2>2. Untouched(r)'
    BY <1>2 DEF Untouched, App0
  <2>3. Apart(r)'
    <3>1. DistinctInv
      BY <1>2, <1>3 DEF LoneInv
    <3>2. QED
      BY <1>2, <2>1, <3>1 DEF Apart, Was, DistinctInv, Shares
  <2>4. FreshDom(r)'
    BY <1>1, <1>2, <1>9 DEF FreshDom
  <2>5. QED
    BY <2>1, <2>2, <2>3, <2>4 DEF BackInv, Placed
<1>10. BackInv(r)'
  BY <1>9 DEF BackInv
<1>11. QED
  BY <1>4, <1>5, <1>6, <1>7, <1>8, <1>10 DEF LoneInv

\* Earlier requests have left marked apps with a port and a domain of their own.
LEMMA LoneInitial == Init => LoneInv
<1> SUFFICES ASSUME Init PROVE LoneInv
  OBVIOUS
<1>1. PICK i \in Initial :
         /\ dir = i.dir
         /\ site = [d \in Domain |-> IF \E a \in App : i.dir[a].dom = d
                                     THEN CHOOSE a \in App : i.dir[a].dom = d ELSE "none"]
  BY DEF Init
<1>2. \A r \in Request : ~Busy(r)
  BY DEF Init, Busy
<1>3. ASSUME NEW a \in App, NEW b \in App, a # b
      PROVE  /\ dir[a].port = dir[b].port => dir[a].port = 0
             /\ dir[a].dom = dir[b].dom => dir[a].dom = "none"
  BY <1>1, <1>3, InitialAssumption
<1>4. DistinctInv
  <2>1. ASSUME NEW a \in App, NEW b \in App, a # b PROVE ~Shares(b, dir[a].port, dir[a].dom)
    <3>1. /\ dir[a].port = dir[b].port => dir[a].port = 0
          /\ dir[a].dom = dir[b].dom => dir[a].dom = "none"
      BY <1>3, <2>1
    <3>2. QED
      BY <3>1 DEF Shares
  <2>2. QED
    BY <2>1 DEF DistinctInv
<1>5. MarkInv
  BY <1>1, InitialAssumption DEF MarkInv, Unmarked, exists
<1>6. \A d \in Domain : site[d] # "none" => site[d] \in App /\ dir[site[d]].dom = d
  BY <1>1
<1>7. SiteInv /\ HeldInv
  BY <1>6 DEF SiteInv, HeldInv, Named
<1>8. OwnInv
  <2>1. ASSUME NEW a \in App, NEW d \in Domain, dir[a].dom = d, site[d] \notin {"none", a} PROVE FALSE
    <3>1. site[d] \in App \ {a} /\ dir[site[d]].dom = dir[a].dom
      BY <1>6, <2>1
    <3>2. dir[a].dom = dir[site[d]].dom => dir[a].dom = "none"
      BY <1>3, <3>1
    <3>3. QED
      BY <2>1, <3>1, <3>2, NamesAssumption
  <2>2. QED
    BY <2>1 DEF OwnInv
<1>9. QED
  BY <1>2, <1>4, <1>5, <1>7, <1>8 DEF LoneInv, AloneInv

\* Every step keeps what requests that do not overlap know.
LEMMA LoneStep == ASSUME TypedInv, LoneInv, BeforeInv, [Next]_vars PROVE LoneInv'
<1>0. TypedInv'
  BY TypedStep
<1>1. ASSUME NEW r \in Request, AppStep(r) PROVE LoneInv'
  <2>1. CASE Step(r)
    BY <1>0, <1>1, <2>1, AdmitLone, AllocLone, MakeDirsLone, MarkLone, SetupLone, ConfLone,
       CheckLone, ActLone, RemoveSiteLone, RemoveScheduleLone, DisableUnitLone DEF Step, AppStep
  <2>2. CASE op[r].do \in {"create", "repair"} /\ (InstallUnit(r, "start") \/ StartUnit(r, "done"))
    BY <1>0, <1>1, <2>2, InstallUnitLone, StartUnitLone DEF AppStep
  <2>3. CASE op[r].do = "delete" /\ RemoveTree(r, "done")
    BY <1>0, <1>1, <2>3, RemoveTreeLone DEF AppStep
  <2>4. QED
    BY <1>1, <2>1, <2>2, <2>3 DEF AppStep
<1>2. ASSUME NEW r \in Request, Backup(r) PROVE LoneInv'
  BY <1>0, <1>2, BackupLone
<1>3. ASSUME NEW r \in Request, Restore(r) PROVE LoneInv'
  <2>1. ASSUME Halt(r) PROVE LoneInv'
    BY <1>0, <2>1, DisableUnitLone DEF Halt
  <2>2. ASSUME DeleteLive(r) PROVE LoneInv'
    BY <1>0, <2>2, RemoveTreeLone DEF DeleteLive
  <2>3. ASSUME RestoreStart(r) PROVE LoneInv'
    BY <1>0, <2>3, StartUnitLone DEF RestoreStart
  <2>4. QED
    BY <1>0, <1>3, <2>1, <2>2, <2>3, FetchLone, DownloadLone, StageLone, ClearLone, MoveLone,
       RemarkLone, PlaceLone, RestoreUnitLone, ResecureLone, RepublishLone,
       NameSiteLone DEF Restore
<1>4. CASE UNCHANGED vars
  <2>1. /\ AloneInv => AloneInv'
        /\ DistinctInv => DistinctInv'
        /\ MarkInv => MarkInv'
        /\ SiteInv => SiteInv'
        /\ HeldInv => HeldInv'
        /\ OwnInv => OwnInv'
    BY <1>4 DEF vars, instVars, reqVars, AloneInv, Busy, DistinctInv, Shares, MarkInv,
       Unmarked, exists,
       SiteInv, Named, Unknown, HeldInv, Lent, OwnInv
  <2>2. ASSUME NEW r \in Request
        PROVE  (Busy(r)' <=> Busy(r)) /\ (MakeInv(r) => MakeInv(r)') /\ (BackInv(r) => BackInv(r)')
    BY <1>4 DEF vars, instVars, reqVars, Busy, MakeInv, PortIsFree, NoSite, BackInv, Untouched,
       App0,
       SameDom, DomGone, Gone, Was, Apart, Shares, Unrelied, Spare, Unknown, Attached, exists,
       Wanted, Lent, FreshDom, StagedDom
  <2>3. QED
    BY <1>4, <2>1, <2>2 DEF LoneInv, vars, instVars, reqVars
<1>5. QED
  BY <1>0, <1>1, <1>2, <1>3, <1>4, AskLone, KilledLone DEF Next

\* The inductive invariant: types and routes, whoever is at work; and, of requests that do
\* not overlap, whose ports, domains, sites and markers are whose.
THEOREM BackupsSafe == Spec => [](TypedInv /\ LoneInv)
<1>1. Init => TypedInv /\ LoneInv /\ BeforeInv
  BY TypedInitial, LoneInitial DEF Init, BeforeInv
<1>2. TypedInv /\ LoneInv /\ BeforeInv /\ [Next]_vars => TypedInv' /\ LoneInv' /\ BeforeInv'
  BY TypedStep, LoneStep, BeforeStep
<1>3. QED
  BY <1>1, <1>2, PTL DEF Spec

\* The state has its types (the type invariant of the runs).
THEOREM AppsTyped == Spec => []TypeOK
<1>1. TypedInv => TypeOK
  BY DEF TypedInv
<1>2. QED
  BY <1>1, BackupsTyped, PTL

\* Two trees never name one port, unless a restore in place brought it back
\* (instance.py 59-91, store.py 562-566).
THEOREM PortsAlwaysDistinct == Spec => []PortsDistinct
<1>1. LoneInv => PortsDistinct
  <2> SUFFICES ASSUME LoneInv, alone, NEW a \in App, NEW b \in App,
                      a # b, dir[a].port # 0, dir[a].port = dir[b].port
               PROVE  {a, b} \cap borrowed # {}
    BY DEF PortsDistinct
  <2>1. Shares(b, dir[a].port, dir[a].dom)
    BY DEF Shares
  <2>2. QED
    BY <2>1 DEF LoneInv, DistinctInv
<1>2. QED
  BY <1>1, BackupsSafe, PTL

\* A tree that no request is making is marked, or was cut short (fs.safe_rmtree refuses it).
THEOREM MarkedWhenIdle == Spec => []MarkedForRemoval
<1>1. LoneInv => MarkedForRemoval
  <2> SUFFICES ASSUME LoneInv, alone, \A r \in Request : ~Busy(r), NEW a \in App,
                      exists(a), ~dir[a].managed, a \notin cut
               PROVE  FALSE
    BY DEF MarkedForRemoval
  <2>1. PICK r \in Request : pc[r] \in {"mark", "remark"}
    BY DEF LoneInv, MarkInv, Unmarked
  <2>2. QED
    BY <2>1 DEF Busy, Answer
<1>2. QED
  BY <1>1, BackupsSafe, PTL

\* The site of an app stays removable: a tree names its domain (instance.py 705-706), or a
\* restore is about to name it, unless one lost the panel's answer or was kept from naming it.
THEOREM SitesRemembered == Spec => []SiteRemembered
<1>1. TypedInv /\ LoneInv => SiteRemembered
  <2> SUFFICES ASSUME TypedInv, LoneInv, alone, NEW d \in Domain, site[d] # "none"
               PROVE  Named(d) \/ d \in Unknown \/ Naming(d)
    BY DEF SiteRemembered, Named, Unknown
  <2>1. CASE SiteInv
    BY <2>1 DEF SiteInv
  <2>2. CASE ~SiteInv
    <3>1. PICK r \in Request : pc[r] = "marker"
      BY <2>2 DEF LoneInv
    <3>2. Busy(r) /\ op[r].do = "restore"
      BY <3>1, Routes DEF RestorePC, Busy, Answer
    <3>3. Attached(r)
      BY <3>1, <3>2, LoneFinds DEF BackInv
    <3>4. QED
      BY <3>1, <3>3 DEF Attached, Spare, Named, Naming
  <2>3. QED
    BY <2>1, <2>2
<1>2. QED
  BY <1>1, BackupsSafe, PTL

------------------------------------------------------------------------------
\* Only delete() takes a site down, and set_site() one its tree named before.
LEMMA SiteTaken ==
    ASSUME TypedInv, [Next]_vars, NEW d \in Domain, site[d] # "none", site'[d] = "none"
    PROVE  \E r \in Request : RemoveSite(r) \/ NameSite(r)
<1>1. ASSUME NEW r \in Request, AskAny(r) \/ Killed(r) PROVE UNCHANGED site
  BY <1>1 DEF AskAny, Ask, Begin, Killed, Dies
<1>2. ASSUME NEW r \in Request, AppStep(r) PROVE RemoveSite(r) \/ UNCHANGED site
  BY <1>2 DEF AppStep, Step, Admit, Alloc, MakeDirs, Mark, Setup, Conf, Write, Spoilt, Check,
     Act,
     RemoveSchedule, DisableUnit, InstallUnit, StartUnit, RemoveTree
<1>3. ASSUME NEW r \in Request, Backup(r) PROVE UNCHANGED site
  BY <1>3 DEF Backup, BackupCheck, Pack, Publish, Upload, PruneList, PruneDrop, DeleteBackup
<1>4. ASSUME NEW r \in Request, Restore(r), ~Republish(r), ~NameSite(r) PROVE UNCHANGED site
  <2>1. StageIf(r, Whole(store[op[r].arch])) => UNCHANGED site
    BY DEF StageIf
  <2>2. QED
    BY <1>4, <2>1 DEF Restore, Fetch, Download, Stage, Halt, DisableUnit, DeleteLive,
       RemoveTree,
       Clear, Move, Remark, Place, RestoreUnit, InstallUnit, Resecure, RestoreStart, StartUnit
<1>5. ASSUME NEW r \in Request, Republish(r) PROVE FALSE
  <2>1. On(r) \in App
    BY <1>5, AtWork DEF Republish, Busy, Answer
  <2>2. site \in [Domain -> App \cup {"none"}]
    BY DEF TypedInv, TypeOK, InstTypeOK
  <2>3. site' = site \/ \E x : site' = [site EXCEPT ![x] = On(r)]
    BY <1>5 DEF Republish
  <2>4. QED
    BY <2>1, <2>2, <2>3, NamesAssumption
<1>6. CASE UNCHANGED vars
  BY <1>6 DEF vars, instVars
<1>7. QED
  BY <1>1, <1>2, <1>3, <1>4, <1>5, <1>6 DEF Next

\* delete(), also for a restore in place, takes down no other app's site (store.py 18-19, 564).
THEOREM SitesTakenAreOwn == Spec => OwnSiteOnly
<1>1. ASSUME TypedInv, LoneInv, [Next]_vars, NEW r \in Request, NEW d \in Domain,
             alone, pc[r] = "site", site[d] # "none", site'[d] = "none"
      PROVE  site[d] = On(r) \/ {site[d], On(r)} \cap borrowed # {} \/ d \in dropped
  <2>1. PICK q \in Request : RemoveSite(q) \/ NameSite(q)
    BY <1>1, SiteTaken
  <2>2. Busy(r) /\ Busy(q)
    BY <1>1, <2>1 DEF Busy, Answer, RemoveSite, NameSite
  <2>3. q = r /\ On(r) \in App /\ RemoveSite(r)
    BY <1>1, <2>1, <2>2, Lone, AtWork DEF NameSite
  <2>4. dir[On(r)].dom = d
    BY <1>1, <2>1, <2>3 DEF RemoveSite, TypedInv, TypeOK, InstTypeOK
  <2>5. QED
    BY <1>1, <2>3, <2>4 DEF LoneInv, OwnInv
<1>2. TypedInv /\ LoneInv /\ [Next]_vars =>
         [\A r \in Request, d \in Domain :
             /\ alone /\ pc[r] = "site" /\ pc'[r] = "sched" /\ site[d] # "none" /\ site'[d] = "none"
             => site[d] = On(r) \/ {site[d], On(r)} \cap borrowed # {} \/ d \in dropped]_vars
  BY <1>1
<1>3. QED
  BY <1>2, BackupsSafe, PTL DEF Spec, OwnSiteOnly

\* A step is taken by one request, which is at work or just asked.
LEMMA Turn ==
    ASSUME TypedInv, NEW q \in Request,
           AskAny(q) \/ Killed(q) \/ AppStep(q) \/ Backup(q) \/ Restore(q)
    PROVE  /\ \A x \in Request \ {q} : pc'[x] = pc[x]
           /\ (Busy(q) /\ UNCHANGED op) \/ pc'[q] # "failed"
<1>1. pc \in [Request -> Label]
  BY DEF TypedInv, TypeOK
<1>2. CASE AskAny(q)
  <2>1. ASSUME NEW o, NEW l, Begin(q, o, l)
        PROVE  (\A x \in Request \ {q} : pc'[x] = pc[x]) /\ pc'[q] = l
    BY <1>1, <2>1 DEF Begin
  <2>2. \E o, l : Begin(q, o, l) /\ l # "failed"
    <3>1. ASSUME NEW o \in Asked PROVE Enter(o) # "failed"
      BY <3>1 DEF Asked, Enter
    <3>2. QED
      BY <1>2, <3>1 DEF AskAny, Ask
  <2>3. QED
    BY <2>1, <2>2
<1>3. CASE Killed(q)
  BY <1>1, <1>3 DEF Killed, Dies
<1>4. CASE AppStep(q)
  <2>1. CASE Admit(q) \/ Alloc(q) \/ Check(q) \/ Act(q) \/ RemoveSite(q) \/ RemoveSchedule(q)
    BY <1>1, <2>1 DEF Admit, Alloc, Check, Act, RemoveSite, RemoveSchedule, Failing, Busy,
       Answer
  <2>2. CASE MakeDirs(q) \/ Mark(q) \/ Setup(q) \/ Conf(q)
    BY <1>1, <2>2 DEF MakeDirs, Mark, Setup, Conf, Spoilt, Failing, Busy, Answer
  <2>3. ASSUME NEW l, \/ DisableUnit(q, "disable", l) \/ InstallUnit(q, l) \/ StartUnit(q, l)
                      \/ RemoveTree(q, l)
        PROVE  (\A x \in Request \ {q} : pc'[x] = pc[x]) /\ Busy(q) /\ UNCHANGED op
    BY <1>1, <2>3 DEF DisableUnit, InstallUnit, StartUnit, RemoveTree, Failing, Busy, Answer
  <2>4. QED
    BY <1>4, <2>1, <2>2, <2>3 DEF AppStep, Step
<1>5. CASE Backup(q)
  <2>1. CASE BackupCheck(q) \/ Pack(q) \/ Publish(q) \/ Upload(q)
    BY <1>1, <2>1 DEF BackupCheck, Pack, Publish, Upload, Failing, Busy, Answer
  <2>2. CASE PruneList(q) \/ PruneDrop(q) \/ DeleteBackup(q)
    BY <1>1, <2>2 DEF PruneList, PruneDrop, DeleteBackup, Busy, Answer
  <2>3. QED
    BY <1>5, <2>1, <2>2 DEF Backup
<1>6. CASE Restore(q)
  <2>1. CASE Fetch(q) \/ Download(q) \/ Stage(q)
    BY <1>1, <2>1 DEF Fetch, Download, Stage, StageIf, Failing, Busy, Answer
  <2>2. CASE Clear(q) \/ Move(q) \/ Remark(q) \/ Place(q) \/ Resecure(q)
            \/ Republish(q) \/ NameSite(q)
    BY <1>1, <2>2 DEF Clear, Move, Remark, Place, Resecure, Republish, NameSite, Failing, Busy, Answer
  <2>3. CASE Halt(q) \/ DeleteLive(q) \/ RestoreStart(q)
    BY <1>1, <2>3 DEF Halt, DisableUnit, DeleteLive, RemoveTree, RestoreStart, StartUnit,
       Failing, Busy, Answer
  <2>4. CASE RestoreUnit(q)
    BY <1>1, <2>4 DEF RestoreUnit, InstallUnit, Failing, Busy, Answer
  <2>5. QED
    BY <1>6, <2>1, <2>2, <2>3, <2>4 DEF Restore
<1>7. QED
  BY <1>2, <1>3, <1>4, <1>5, <1>6

\* A restore leaves the app alone until its archive is proven.
LEMMA Untried ==
    ASSUME TypedInv, NEW q \in Request, pc[q] \in {"fetch", "download", "stage"}, pc'[q] = "failed",
           AskAny(q) \/ Killed(q) \/ AppStep(q) \/ Backup(q) \/ Restore(q)
    PROVE  UNCHANGED appVars
<1>1. pc \in [Request -> Label]
  BY DEF TypedInv, TypeOK
<1>2. ~AskAny(q)
  BY DEF AskAny, Ask, Begin
<1>3. ~Killed(q)
  BY <1>1 DEF Killed, Dies
<1>4. ~AppStep(q)
  BY DEF AppStep, Step, Admit, Alloc, MakeDirs, Mark, Setup, Conf, Check, Act, RemoveSite,
     RemoveSchedule, DisableUnit, InstallUnit, StartUnit, RemoveTree
<1>5. ~Backup(q)
  BY DEF Backup, BackupCheck, Pack, Publish, Upload, PruneList, PruneDrop, DeleteBackup
<1>6. Fetch(q) \/ Download(q) \/ Stage(q)
  BY <1>2, <1>3, <1>4, <1>5 DEF Restore, Halt, DisableUnit, DeleteLive, RemoveTree, Clear,
     Move, Remark,
     Place, RestoreUnit, InstallUnit, Resecure, RestoreStart, StartUnit, Republish, NameSite
<1>7. QED
  BY <1>6 DEF Fetch, Download, Stage, StageIf

\* No step takes a proof back.
LEMMA ProvenGrows ==
    ASSUME NEW q \in Request, AskAny(q) \/ Killed(q) \/ AppStep(q) \/ Backup(q) \/ Restore(q)
    PROVE  proven \subseteq proven'
<1>1. AskAny(q) \/ Killed(q) \/ AppStep(q) => UNCHANGED proven
  BY DEF AskAny, Killed, AppStep
<1>2. Backup(q) => UNCHANGED proven
  BY DEF Backup, BackupCheck, Pack, Publish, Upload, PruneList, PruneDrop, DeleteBackup
<1>3. Restore(q) => proven \subseteq proven'
  BY DEF Restore, Fetch, Download, Stage, StageIf, Halt, DeleteLive, Clear, Move, Remark, Place,
     RestoreUnit, Resecure, RestoreStart, Republish, NameSite
<1>4. QED
  BY <1>1, <1>2, <1>3

\* A restore whose archive was not proven has not touched the app (store.py 535-536).
THEOREM StagingAlwaysHarmless == Spec => FailedStagingHarmless
<1>1. ASSUME TypedInv, LoneInv, Next, NEW r \in Request,
             op[r].do = "restore", alone, pc[r] # "failed", pc'[r] = "failed", r \notin proven'
      PROVE  App0(On(r))' = before[r]
  <2>1. PICK q \in Request : AskAny(q) \/ Killed(q) \/ AppStep(q) \/ Backup(q) \/ Restore(q)
    BY <1>1 DEF Next
  <2>2. q = r /\ Busy(r) /\ UNCHANGED op
    BY <1>1, <2>1, Turn
  <2>3. CASE pc[r] \in {"fetch", "download", "stage"}
    <3>1. UNCHANGED appVars
      BY <1>1, <2>1, <2>2, <2>3, Untried
    <3>2. Untouched(r)
      BY <1>1, <2>2, <2>3, Lone DEF BackInv
    <3>3. QED
      BY <2>2, <3>1, <3>2 DEF Untouched, App0
  <2>4. CASE pc[r] \notin {"fetch", "download", "stage"}
    <3>1. r \in proven
      BY <1>1, <2>2, <2>4 DEF TypedInv, WorkInv
    <3>2. proven \subseteq proven'
      BY <2>1, ProvenGrows
    <3>3. QED
      BY <1>1, <3>1, <3>2
  <2>5. QED
    BY <2>3, <2>4
<1>2. TypedInv /\ LoneInv /\ [Next]_vars =>
         [\A r \in Request :
             /\ op[r].do = "restore" /\ alone
             /\ pc[r] # "failed" /\ pc'[r] = "failed" /\ r \notin proven'
             => App0(On(r))' = before[r]]_vars
  BY <1>1
<1>3. QED
  BY <1>2, BackupsSafe, PTL DEF Spec, FailedStagingHarmless

------------------------------------------------------------------------------
(* Retention                                                               *)

Newer(d, n) == {m \in Arch : m[1] = n[1] /\ m[2] > n[2] /\ Held(d, m) # NoTree}

\* Whatever a prune is about to delete has enough newer archives there.
CountInv ==
    ~manual => \A r \in Request : pc[r] = "drop" =>
        \A n \in vict[r] : Cardinality(Newer(at[r], n)) >= op[r].keep

\* A set of archives of one app that holds enough.
LEMMA Enough ==
    ASSUME NEW T \in SUBSET Arch, NEW a, \A m \in T : m[1] = a, NEW S \in SUBSET T,
           NEW k \in Nat, Cardinality(S) >= k
    PROVE  Cardinality(T) >= k
<1>1. T \subseteq {a} \X Stamp
  BY DEF Arch
<1>2. IsFiniteSet({a} \X Stamp)
  BY StampsAssumption, FS_Singleton, FS_Product
<1>3. IsFiniteSet(T)
  BY <1>1, <1>2, FS_Subset
<1>4. IsFiniteSet(S) /\ Cardinality(S) <= Cardinality(T)
  BY <1>3, FS_Subset
<1>5. Cardinality(S) \in Nat /\ Cardinality(T) \in Nat
  BY <1>3, <1>4, FS_CardinalityType
<1>6. QED
  BY <1>4, <1>5

\* A prune has the retention of a schedule.
LEMMA Retention ==
    ASSUME TypedInv, NEW r \in Request, pc[r] \in {"list", "drop"}
    PROVE  op[r].keep \in Keep /\ op[r].keep \in Nat /\ vict[r] \subseteq Arch /\ at[r] \in Dest
BY StampsAssumption DEF TypedInv, WorkInv, TypeOK

\* While archives are only added, what a prune is about to delete stays superfluous.
LEMMA GrowStep ==
    ASSUME TypedInv, CountInv, manual => manual',
           \A d \in Dest, m \in Arch : Held(d, m) # NoTree => Held(d, m)' # NoTree,
           \A x \in Request : pc'[x] = "drop" =>
              /\ pc[x] = "drop" /\ vict'[x] \subseteq vict[x] /\ at'[x] = at[x] /\ op'[x] = op[x]
    PROVE  CountInv'
<1> SUFFICES ASSUME ~manual', NEW x \in Request, pc'[x] = "drop", NEW n \in vict'[x]
             PROVE  Cardinality(Newer(at[x], n)') >= op'[x].keep
  BY DEF CountInv, Newer, Held
<1>1. pc[x] = "drop" /\ n \in vict[x] /\ at'[x] = at[x] /\ op'[x] = op[x] /\ ~manual
  BY DEF CountInv
<1>2. Cardinality(Newer(at[x], n)) >= op[x].keep
  BY <1>1 DEF CountInv
<1>3. at[x] \in Dest /\ op[x].keep \in Nat
  BY <1>1, Retention
<1>4. Newer(at[x], n) \subseteq Newer(at[x], n)'
  BY <1>1, <1>3 DEF Newer
<1>5. Newer(at[x], n)' \subseteq Arch /\ \A m \in Newer(at[x], n)' : m[1] = n[1]
  BY DEF Newer
<1>6. QED
  BY <1>1, <1>2, <1>3, <1>4, <1>5, Enough

\* Steps that are not a prune's leave what prunes are about to delete.
LEMMA NoDrop ==
    ASSUME TypedInv, NEW q \in Request,
           \/ AskAny(q) \/ Killed(q) \/ AppStep(q) \/ Restore(q)
           \/ BackupCheck(q) \/ Pack(q) \/ Publish(q) \/ Upload(q) \/ DeleteBackup(q)
    PROVE  /\ UNCHANGED <<vict, at>>
           /\ pc'[q] # "drop" /\ \A x \in Request \ {q} : op'[x] = op[x]
<1>1. pc \in [Request -> Label] /\ op \in [Request -> Ops]
  BY DEF TypedInv, TypeOK, Ops
<1>2. CASE AskAny(q)
  <2>1. ASSUME NEW o, NEW l, Begin(q, o, l)
        PROVE  pc'[q] = l /\ \A x \in Request \ {q} : op'[x] = op[x]
    BY <1>1, <2>1 DEF Begin
  <2>2. \E o, l : Begin(q, o, l) /\ l # "drop"
    <3>1. ASSUME NEW o \in Asked PROVE Enter(o) # "drop"
      BY <3>1 DEF Asked, Enter
    <3>2. QED
      BY <1>2, <3>1 DEF AskAny, Ask
  <2>3. QED
    BY <1>2, <2>1, <2>2 DEF AskAny
<1>3. CASE Killed(q)
  BY <1>1, <1>3 DEF Killed, Dies
<1>4. CASE AppStep(q)
  <2>1. CASE Admit(q) \/ Alloc(q) \/ Check(q) \/ Act(q) \/ RemoveSite(q) \/ RemoveSchedule(q)
    BY <1>1, <1>4, <2>1 DEF AppStep, Admit, Alloc, Check, Act, RemoveSite, RemoveSchedule,
       Failing
  <2>2. CASE MakeDirs(q) \/ Mark(q) \/ Setup(q) \/ Conf(q)
    BY <1>1, <1>4, <2>2 DEF AppStep, MakeDirs, Mark, Setup, Conf, Spoilt, Failing
  <2>3. ASSUME NEW l \in {"tree", "start", "done"},
               \/ DisableUnit(q, "disable", l) \/ InstallUnit(q, l) \/ StartUnit(q, l) \/ RemoveTree(q, l)
        PROVE  pc'[q] # "drop" /\ UNCHANGED op
    BY <1>1, <2>3 DEF DisableUnit, InstallUnit, StartUnit, RemoveTree, Failing
  <2>4. QED
    BY <1>4, <2>1, <2>2, <2>3 DEF AppStep, Step
<1>5. CASE BackupCheck(q) \/ Pack(q) \/ Publish(q) \/ Upload(q) \/ DeleteBackup(q)
  BY <1>1, <1>5 DEF BackupCheck, Pack, Publish, Upload, DeleteBackup, Failing
<1>6. CASE Restore(q)
  <2>1. CASE Fetch(q) \/ Download(q) \/ Stage(q)
    BY <1>1, <2>1 DEF Fetch, Download, Stage, StageIf, Failing
  <2>2. CASE Clear(q) \/ Move(q) \/ Remark(q) \/ Place(q) \/ Resecure(q)
            \/ Republish(q) \/ NameSite(q)
    BY <1>1, <2>2 DEF Clear, Move, Remark, Place, Resecure, Republish, NameSite, Failing
  <2>3. CASE Halt(q) \/ DeleteLive(q) \/ RestoreStart(q)
    BY <1>1, <2>3 DEF Halt, DisableUnit, DeleteLive, RemoveTree, RestoreStart, StartUnit,
       Failing
  <2>4. CASE RestoreUnit(q)
    BY <1>1, <2>4 DEF RestoreUnit, InstallUnit, Failing
  <2>5. QED
    BY <1>6, <2>1, <2>2, <2>3, <2>4 DEF Restore
<1>7. QED
  BY <1>2, <1>3, <1>4, <1>5, <1>6

\* No step forgets that an archive was deleted by hand.
LEMMA ManualStays ==
    ASSUME manual, NEW q \in Request, AskAny(q) \/ Killed(q) \/ AppStep(q) \/ Backup(q) \/ Restore(q)
    PROVE  manual'
<1>1. AskAny(q) \/ Killed(q) \/ AppStep(q) => UNCHANGED manual
  BY DEF AskAny, Killed, AppStep
<1>2. Backup(q) /\ ~DeleteBackup(q) => UNCHANGED manual
  BY DEF Backup, BackupCheck, Pack, Publish, Upload, PruneList, PruneDrop
<1>3. DeleteBackup(q) => manual'
  BY DEF DeleteBackup
<1>4. Restore(q) => UNCHANGED manual
  BY DEF Restore, Fetch, Download, Stage, StageIf, Halt, DeleteLive, Clear, Move, Remark, Place,
     RestoreUnit, Resecure, RestoreStart, Republish, NameSite
<1>5. QED
  BY <1>1, <1>2, <1>3, <1>4

\* Only a prune and DeleteBackup take an archive away.
LEMMA ArchivesStay ==
    ASSUME TypedInv, NEW q \in Request,
           \/ AskAny(q) \/ Killed(q) \/ AppStep(q) \/ Restore(q)
           \/ BackupCheck(q) \/ Pack(q) \/ Publish(q) \/ Upload(q) \/ PruneList(q),
           NEW d \in Dest, NEW m \in Arch, Held(d, m) # NoTree
    PROVE  Held(d, m)' # NoTree
<1>1. /\ store \in [Arch -> Tree] /\ remote \in [Profile -> [Arch -> Tree]]
      /\ d # "local" => d \in Profile
  BY DEF TypedInv, TypeOK, Dest
<1>2. CASE UNCHANGED <<store, remote>>
  BY <1>2 DEF Held
<1>3. CASE Publish(q)
  <2>1. store' = store \/ \E t : t # NoTree /\ store' = [store EXCEPT ![name[q]] = t]
    BY <1>3 DEF Publish
  <2>2. UNCHANGED remote
    BY <1>3 DEF Publish
  <2>3. QED
    BY <1>1, <2>1, <2>2 DEF Held
<1>4. CASE Upload(q)
  <2> DEFINE n == name[q]
  <2>1. PICK s : /\ remote' = [p \in Profile |-> IF p \in s THEN [remote[p] EXCEPT ![n] = store[n]] ELSE remote[p]]
                 /\ store[n] = NoTree => s = {}
    BY <1>4 DEF Upload
  <2>2. UNCHANGED store
    BY <1>4 DEF Upload
  <2>3. ASSUME d \in Profile PROVE remote'[d][m] # NoTree
    <3>1. CASE d \in s
      <4>1. remote'[d] = [remote[d] EXCEPT ![n] = store[n]] /\ store[n] # NoTree
        BY <2>1, <2>3, <3>1
      <4>2. remote[d][m] # NoTree /\ remote[d] \in [Arch -> Tree]
        BY <1>1, <2>3, ProfilesAssumption DEF Held
      <4>3. QED
        BY <4>1, <4>2
    <3>2. CASE d \notin s
      BY <1>1, <2>1, <2>3, <3>2, ProfilesAssumption DEF Held
    <3>3. QED
      BY <3>1, <3>2
  <2>4. QED
    BY <1>1, <2>1, <2>2, <2>3 DEF Held
<1>5. CASE Fetch(q) \/ Download(q)
  <2>1. pc[q] = "download" => staged[q] # NoTree
    BY DEF TypedInv, WorkInv
  <2>2. store' = store \/ \E t : t # NoTree /\ store' = [store EXCEPT ![op[q].arch] = t]
    BY <1>5, <2>1, Trees DEF Fetch, Download
  <2>3. UNCHANGED remote
    BY <1>5 DEF Fetch, Download
  <2>4. QED
    BY <1>1, <2>2, <2>3 DEF Held
<1>6. CASE AskAny(q) \/ Killed(q) \/ AppStep(q)
  BY <1>2, <1>6 DEF AskAny, Killed, AppStep
<1>7. CASE BackupCheck(q) \/ Pack(q) \/ PruneList(q)
  BY <1>2, <1>7 DEF BackupCheck, Pack, PruneList
<1>8. CASE Restore(q) /\ ~Fetch(q) /\ ~Download(q)
  <2>1. StageIf(q, Whole(store[op[q].arch])) => UNCHANGED <<store, remote>>
    BY DEF StageIf
  <2>2. QED
    BY <1>2, <1>8, <2>1 DEF Restore, Stage, Halt, DeleteLive, Clear, Move, Remark, Place,
       RestoreUnit,
       Resecure, RestoreStart, Republish, NameSite
<1>9. QED
  BY <1>3, <1>4, <1>5, <1>6, <1>7, <1>8

\* What a prune has listed is what lies beyond the newest.
LEMMA PruneListCount ==
    ASSUME TypedInv, TypedInv', CountInv, NEW r \in Request, PruneList(r)
    PROVE  CountInv'
<1>1. /\ pc \in [Request -> Label] /\ vict \in [Request -> SUBSET Arch] /\ at \in [Request -> Dest]
      /\ UNCHANGED <<store, remote, op, manual>> /\ pc[r] = "list"
  BY DEF TypedInv, TypeOK, PruneList
<1> SUFFICES ASSUME ~manual, NEW x \in Request, pc'[x] = "drop", NEW n \in vict'[x]
             PROVE  Cardinality(Newer(at[x], n)') >= op[x].keep
  BY <1>1 DEF CountInv, Newer, Held
<1>2. \A d, m : Newer(d, m)' = Newer(d, m)
  BY <1>1 DEF Newer, Held
<1>3. CASE x # r
  <2>1. pc[x] = "drop" /\ vict'[x] = vict[x] /\ at'[x] = at[x]
    BY <1>1, <1>3 DEF PruneList
  <2>2. Cardinality(Newer(at[x], n)) >= op[x].keep
    BY <2>1 DEF CountInv
  <2>3. Newer(at[x], n)' = Newer(at[x], n)
    BY <1>1, <2>1 DEF Newer, Held
  <2>4. QED
    BY <2>2, <2>3
<1>4. CASE x = r
  <2>1. PICK d \in left[r] : /\ at' = [at EXCEPT ![r] = d]
                             /\ \/ vict' = [vict EXCEPT ![r] = Beyond(On(r), d, op[r].keep)]
                                \/ vict' = [vict EXCEPT ![r] = {}]
    BY DEF PruneList
  <2>2. at'[r] = d /\ n \in Beyond(On(r), d, op[r].keep)
    BY <1>1, <1>4, <2>1
  <2> DEFINE N == {m \in Arch : m[1] = On(r) /\ Held(d, m) # NoTree}
  <2>3. n \in N /\ Cardinality({m \in N : m[2] > n[2]}) >= op[r].keep
    BY <2>2 DEF Beyond
  <2>4. {m \in N : m[2] > n[2]} = Newer(d, n)
    BY <2>3 DEF Newer
  <2>5. Newer(at[r], n)' = Newer(d, n)
    BY <1>1, <2>2 DEF Newer, Held
  <2>6. QED
    BY <1>4, <2>3, <2>4, <2>5
<1>5. QED
  BY <1>3, <1>4

\* An archive a prune deletes has enough newer ones, which are newer than any older one too.
LEMMA PruneDropCount ==
    ASSUME \A k, l \in Keep : k = l,
           TypedInv, TypedInv', CountInv, NEW r \in Request, PruneDrop(r)
    PROVE  CountInv'
<1>1. /\ pc \in [Request -> Label] /\ vict \in [Request -> SUBSET Arch] /\ at \in [Request -> Dest]
      /\ store \in [Arch -> Tree] /\ remote \in [Profile -> [Arch -> Tree]]
      /\ UNCHANGED <<op, at>> /\ pc[r] = "drop"
  BY DEF TypedInv, TypeOK, PruneDrop
<1>2. UNCHANGED manual
  BY DEF PruneDrop
<1>3. CASE UNCHANGED <<store, remote>>
  <2>1. \A x \in Request : pc'[x] = "drop" => pc[x] = "drop" /\ vict'[x] \subseteq vict[x]
    BY <1>1 DEF PruneDrop
  <2>2. \A d \in Dest, m \in Arch : Held(d, m) # NoTree => Held(d, m)' # NoTree
    BY <1>3 DEF Held
  <2>3. QED
    BY <1>1, <1>2, <2>1, <2>2, GrowStep
<1>4. CASE ~UNCHANGED <<store, remote>>
  <2>1. PICK m \in vict[r] : vict' = [vict EXCEPT ![r] = @ \ {m}] /\ Put(at[r], m, NoTree) /\ UNCHANGED pc
    BY <1>4 DEF PruneDrop
  <2>2. m \in Arch /\ at[r] \in Dest
    BY <1>1, <2>1
  <2>3. \A d \in Dest, j \in Arch : d # at[r] \/ j # m => Held(d, j)' = Held(d, j)
    <3>1. CASE at[r] = "local"
      BY <1>1, <2>1, <2>2, <3>1 DEF Put, Held
    <3>2. CASE at[r] # "local"
      <4>1. at[r] \in Profile /\ remote' = [remote EXCEPT ![at[r]][m] = NoTree] /\ UNCHANGED store
        BY <2>1, <2>2, <3>2 DEF Put, Dest
      <4>2. \A p \in Profile, j \in Arch : p # at[r] \/ j # m => remote'[p][j] = remote[p][j]
        BY <1>1, <4>1
      <4>3. QED
        BY <4>1, <4>2 DEF Held, Dest
    <3>3. QED
      BY <3>1, <3>2
  <2> SUFFICES ASSUME ~manual, NEW x \in Request, pc[x] = "drop", NEW n \in vict'[x]
               PROVE  Cardinality(Newer(at[x], n)') >= op[x].keep
    BY <1>1, <1>2, <2>1 DEF CountInv, Newer, Held
  <2>4. /\ n \in vict[x] /\ n \in Arch /\ at[x] \in Dest /\ op[x].keep \in Nat /\ op[x].keep = op[r].keep
        /\ x = r => n # m
    BY <1>1, <2>1, Retention
  <2>5. /\ Cardinality(Newer(at[x], n)) >= op[x].keep
        /\ Cardinality(Newer(at[r], m)) >= op[x].keep
    BY <1>1, <2>1, <2>4 DEF CountInv
  <2>6. Newer(at[x], n)' \subseteq Arch /\ \A j \in Newer(at[x], n)' : j[1] = n[1]
    BY DEF Newer
  <2>7. CASE at[x] # at[r] \/ m \notin Newer(at[x], n)
    <3>1. Newer(at[x], n) \subseteq Newer(at[x], n)'
      BY <1>1, <2>3, <2>4, <2>7 DEF Newer
    <3>2. QED
      BY <2>4, <2>5, <2>6, <3>1, Enough
  <2>8. CASE at[x] = at[r] /\ m \in Newer(at[x], n)
    <3>1. m[1] = n[1] /\ m[2] > n[2] /\ \A j \in Arch : j[2] \in Nat
      BY <2>8, StampsAssumption DEF Newer, Arch
    <3>2. Newer(at[r], m) \subseteq Newer(at[x], n)'
      <4>1. ASSUME NEW j \in Newer(at[r], m) PROVE j \in Newer(at[x], n)'
        <5>1. j \in Arch /\ j[1] = m[1] /\ j[2] > m[2] /\ Held(at[r], j) # NoTree
          BY <4>1 DEF Newer
        <5>2. j # m /\ j[2] > n[2]
          BY <2>2, <2>4, <3>1, <5>1
        <5>3. Held(at[r], j)' # NoTree
          BY <1>1, <2>2, <2>3, <5>1, <5>2
        <5>4. QED
          BY <1>1, <2>8, <3>1, <5>1, <5>2, <5>3 DEF Newer
      <4>2. QED
        BY <4>1
    <3>3. QED
      BY <2>4, <2>5, <2>6, <3>2, Enough
  <2>9. QED
    BY <2>7, <2>8
<1>5. QED
  BY <1>3, <1>4

\* Every step keeps what prunes are about to delete superfluous.
LEMMA CountStep ==
    ASSUME \A k, l \in Keep : k = l, TypedInv, CountInv, [Next]_vars
    PROVE  CountInv'
<1>1. TypedInv'
  BY TypedStep
<1>2. ASSUME NEW q \in Request,
             \/ AskAny(q) \/ Killed(q) \/ AppStep(q) \/ Restore(q)
             \/ BackupCheck(q) \/ Pack(q) \/ Publish(q) \/ Upload(q)
      PROVE  CountInv'
  <2>1. AskAny(q) \/ Killed(q) \/ AppStep(q) \/ Backup(q) \/ Restore(q)
    BY <1>2 DEF Backup
  <2>2. \A x \in Request : pc'[x] = "drop" =>
           /\ pc[x] = "drop" /\ vict'[x] \subseteq vict[x] /\ at'[x] = at[x] /\ op'[x] = op[x]
    <3>1. /\ UNCHANGED <<vict, at>> /\ pc'[q] # "drop"
          /\ \A x \in Request \ {q} : op'[x] = op[x] /\ pc'[x] = pc[x]
      BY <1>2, <2>1, NoDrop, Turn
    <3>2. QED
      BY <3>1
  <2>3. manual => manual'
    BY <2>1, ManualStays
  <2>4. \A d \in Dest, m \in Arch : Held(d, m) # NoTree => Held(d, m)' # NoTree
    BY <1>2, ArchivesStay
  <2>5. QED
    BY <2>2, <2>3, <2>4, GrowStep
<1>3. ASSUME NEW q \in Request, DeleteBackup(q) PROVE CountInv'
  BY <1>3 DEF DeleteBackup, CountInv
<1>4. ASSUME NEW q \in Request, PruneList(q) \/ PruneDrop(q) PROVE CountInv'
  BY <1>1, <1>4, PruneListCount, PruneDropCount
<1>5. CASE UNCHANGED vars
  BY <1>5 DEF vars, instVars, reqVars, CountInv, Newer, Held
<1>6. QED
  BY <1>2, <1>3, <1>4, <1>5 DEF Next, Backup

\* A prune only deletes archives with enough newer ones, however the runs of a schedule
\* overlap, as long as the retention is not changed between them (store.py 336-337).
THEOREM NewestAlwaysKept ==
    ASSUME \A k, l \in Keep : k = l
    PROVE  Spec => PruneKeepsNewest
<1>1. Init => CountInv
  BY DEF Init, CountInv
<1>2. TypedInv /\ CountInv /\ [Next]_vars => CountInv'
  BY CountStep
<1>3. ASSUME TypedInv, CountInv, NEW r \in Request, NEW n \in Arch, pc[r] = "drop", n \in vict[r], ~manual
      PROVE  Cardinality({m \in Arch : m[1] = n[1] /\ m[2] > n[2] /\ Held(at[r], m) # NoTree}) >= op[r].keep
  BY <1>3 DEF CountInv, Newer
<1>4. TypedInv /\ CountInv /\ [Next]_vars =>
         [\A r \in Request, d \in Dest, n \in Arch :
             /\ pc[r] = "drop" /\ at[r] = d /\ n \in vict[r] /\ ~manual
             /\ Held(d, n) # NoTree /\ Held(d, n)' = NoTree
             => Cardinality({m \in Arch : m[1] = n[1] /\ m[2] > n[2] /\ Held(d, m) # NoTree}) >= op[r].keep]_vars
  BY <1>3
<1>5. QED
  BY <1>1, <1>2, <1>4, BackupsTyped, PTL DEF Spec, PruneKeepsNewest

===============================================================================
