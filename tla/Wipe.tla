--------------------------------- MODULE Wipe ---------------------------------
(***************************************************************************)
(* core/maintenance.py: the danger zone.                                   *)
(*                                                                         *)
(* A wipe takes its categories in a fixed order and never stops at an      *)
(* error: apps, sites, Tomcat homes, JDKs, and for a full wipe the data    *)
(* root.  Runtimes an app still pins are skipped.  Nothing is locked:      *)
(* apps are created and restored meanwhile, and two wipes may overlap.     *)
(***************************************************************************)
EXTENDS Requests, Sequences

CONSTANTS Instance, Jdk, Tomcat

VARIABLES
    apps,       \* each app's tree: whole, part of one, none
    pins,       \* runtimes its configuration names
    served,     \* apps with a unit and a schedule
    vhost,      \* apps with a vhost file of the plugin
    runtime,    \* each JDK and Tomcat home: whole, part of one, none
    plan,       \* .uninstall_plan is there
    todo,       \* categories a wipe has before it
    items,      \* what a wipe has before it in its category
    users,      \* apps a wipe has found before the Tomcat homes
    late        \* history: apps made since a wipe last asked who uses a runtime

wipeVars == <<apps, pins, served, vhost, runtime, plan, todo, items, users, late>>
allWipeVars == <<reqVars, wipeVars>>

Runtime == Jdk \cup Tomcat
Order   == <<"apps", "sites", "tomcats", "jdks">>
Wiping  == {"plan", "next", "app", "tree", "vhost", "gate", "remove", "root"}

WipeInit ==
    /\ NoRequest
    /\ pins \in [Instance -> {Jdk, Runtime}]
    /\ apps \in [Instance -> {"none", "whole"}]
    /\ served = {a \in Instance : apps[a] = "whole"}
    /\ vhost \in {{}, served}
    /\ runtime = [x \in Runtime |-> "whole"]
    /\ plan = FALSE
    /\ todo = [r \in Request |-> <<>>]
    /\ items = [r \in Request |-> {}] /\ users = [r \in Request |-> {}]
    /\ late = [r \in Request |-> {}]

\* java.usage(), installer.usage(): a tree that is half gone may have lost its configuration.
UsersOf(x) == {a \in Instance : apps[a] = "whole" /\ x \in pins[a]}
MayUse(x)  == UsersOf(x) \cup {a \in Instance : apps[a] = "part" /\ x \in pins[a]}

\* How much of a tree is there, and trees of which no more is there than before.
Extent == {"none", "part", "whole"}
Less(old, new) == \A k \in DOMAIN old : /\ old[k] = "none" => new[k] = "none"
                                        /\ old[k] = "part" => new[k] # "whole"

------------------------------------------------------------------------------
\* The plan is kept whatever the wipe does next; a wipe goes on without it.
WritePlan(r) ==
    /\ pc[r] = "plan"
    /\ plan' \in {TRUE} \cup (IF "io" \in Faults THEN {plan} ELSE {})
    /\ todo' = [todo EXCEPT ![r] = SelectSeq(Order, LAMBDA c : c \in op[r].scope \/ "full" \in op[r].scope)]
    /\ Goto(r, "next")
    /\ UNCHANGED <<apps, pins, served, vhost, runtime, items, users, late>>

\* A category lists what it will go through when it starts.  A Tomcat home that is half gone
\* may have lost the files it is known by.
NextCategory(r) ==
    /\ pc[r] = "next" /\ todo[r] # <<>>
    /\ LET c == Head(todo[r])
           held == {a \in Instance : apps[a] # "none"}
       IN  /\ \E homes \in SUBSET {x \in Tomcat : runtime[x] # "none"} :
                 /\ {x \in Tomcat : runtime[x] = "whole"} \subseteq homes
                 /\ items' = [items EXCEPT ![r] =
                       CASE c = "apps" -> held [] c = "sites" -> vhost [] c = "tomcats" -> homes
                         [] OTHER -> {x \in Jdk : runtime[x] # "none"}]
           /\ users' = [users EXCEPT ![r] = IF c = "tomcats" THEN held ELSE {}]
           /\ Goto(r, CASE c = "apps" -> "app" [] c = "sites" -> "vhost" [] OTHER -> "gate")
    /\ todo' = [todo EXCEPT ![r] = Tail(@)]
    /\ UNCHANGED <<apps, pins, served, vhost, runtime, plan, late>>

\* The category has come to its end.
EndCategory(r) ==
    /\ pc[r] \in {"app", "vhost", "gate"} /\ items[r] = {}
    /\ Goto(r, "next")
    /\ UNCHANGED wipeVars

EndWipe(r) ==
    /\ pc[r] = "next" /\ todo[r] = <<>>
    /\ Goto(r, IF "full" \in op[r].scope THEN "root" ELSE "done")
    /\ UNCHANGED wipeVars

\* The loop takes its items in name order; any order stands for it.
Item(r) == CHOOSE x \in items[r] : TRUE

Drop(r, x) == items' = [items EXCEPT ![r] = @ \ {x}]

\* Schedule, stop and unit; an error there leaves the app's tree.
WipeUnit(r) ==
    /\ pc[r] = "app" /\ items[r] # {}
    /\ \/ served' = served \ {Item(r)} /\ Goto(r, "tree") /\ UNCHANGED items
       \/ Failing(r, "io", "app") /\ Drop(r, Item(r)) /\ UNCHANGED served
    /\ UNCHANGED <<apps, pins, vhost, runtime, plan, todo, users, late>>

\* instance.delete(): the tree stays when the panel refuses to give up the site.
WipeTree(r) ==
    /\ pc[r] = "tree"
    /\ LET a == Item(r)
       IN  /\ \/ apps' = [apps EXCEPT ![a] = "none"] /\ vhost' = vhost \ {a}
              \/ "tool" \in Faults /\ UNCHANGED <<apps, vhost>>
              \/ "io" \in Faults /\ apps[a] # "none" /\ apps' = [apps EXCEPT ![a] = "part"] /\ vhost' = vhost \ {a}
           /\ Drop(r, a)
    /\ Goto(r, "app")
    /\ UNCHANGED <<pins, served, runtime, plan, todo, users, late>>

\* proxy.remove_site() of each vhost file of the plugin; then the include line goes.
WipeVhost(r) ==
    /\ pc[r] = "vhost" /\ items[r] # {}
    /\ LET a == Item(r)
       IN  /\ vhost' \in {vhost \ {a}} \cup (IF Faults \cap {"io", "tool"} # {} THEN {vhost} ELSE {})
           /\ Drop(r, a)
    /\ Goto(r, "vhost")
    /\ UNCHANGED <<apps, pins, served, runtime, plan, todo, users, late>>

\* Faulty variant: a Tomcat home is judged by the apps listed before the first one.
GateByList(r) ==
    /\ pc[r] = "gate" /\ items[r] # {}
    /\ LET x == Item(r)
           used == IF x \in Tomcat THEN users[r] \cap MayUse(x) ELSE UsersOf(x)
       IN  IF used # {} THEN Goto(r, "gate") /\ Drop(r, x) ELSE Goto(r, "remove") /\ UNCHANGED items
    /\ late' = [late EXCEPT ![r] = {}]
    /\ UNCHANGED <<apps, pins, served, vhost, runtime, plan, todo, users>>

\* A Tomcat home must be out of use in the list, and again when installer.uninstall() looks.
Gate(r) ==
    /\ pc[r] = "gate" /\ items[r] # {}
    /\ LET x == Item(r)
       IN  \/ UsersOf(x) = {} /\ Goto(r, "remove") /\ UNCHANGED items
           \/ MayUse(x) # {} /\ Goto(r, "gate") /\ Drop(r, x)
           \/ /\ x \in Tomcat /\ (\E a \in users[r] : x \in pins[a])
              /\ Goto(r, "gate") /\ Drop(r, x)
    /\ late' = [late EXCEPT ![r] = {}]
    /\ UNCHANGED <<apps, pins, served, vhost, runtime, plan, todo, users>>

RemoveRuntime(r) ==
    /\ pc[r] = "remove"
    /\ LET x == Item(r)
       IN  /\ \/ runtime' = [runtime EXCEPT ![x] = "none"]
              \/ "io" \in Faults /\ runtime[x] # "none" /\ runtime' = [runtime EXCEPT ![x] = "part"]
           /\ Drop(r, x)
    /\ Goto(r, "gate")
    /\ UNCHANGED <<apps, pins, served, vhost, plan, todo, users, late>>

\* Everything under the data root, the apps that could not be removed and the plan included.
\* A removal that fails has come as far as it came.
RemoveRoot(r) ==
    /\ pc[r] = "root"
    /\ \/ /\ apps' = [a \in Instance |-> "none"] /\ runtime' = [x \in Runtime |-> "none"]
          /\ plan' = FALSE
       \/ /\ "io" \in Faults
          /\ apps' \in [Instance -> Extent] /\ Less(apps, apps')
          /\ runtime' \in [Runtime -> Extent] /\ Less(runtime, runtime')
          /\ plan' \in {FALSE, plan}
    /\ Goto(r, "done")
    /\ UNCHANGED <<pins, served, vhost, todo, items, users, late>>

------------------------------------------------------------------------------
\* CreateApp and RestoreAppBackup, as far as runtimes are concerned: one step.
MakeApp(r) ==
    /\ pc[r] = "make"
    /\ LET a == op[r].app
       IN  IF apps[a] # "none" \/ (\E x \in op[r].pins : runtime[x] # "whole")
           THEN Goto(r, "refused") /\ UNCHANGED <<apps, pins, served, late>>
           ELSE /\ apps' = [apps EXCEPT ![a] = "whole"]
                /\ pins' = [pins EXCEPT ![a] = op[r].pins]
                /\ served' = served \cup {a}
                /\ late' = [q \in Request |-> IF pc[q] = "remove" THEN late[q] \cup {a} ELSE late[q]]
                /\ Goto(r, "done")
    /\ UNCHANGED <<vhost, runtime, plan, todo, items, users>>

WipeAsk(r) ==
    /\ \/ \E s \in {{"full"}, {"tomcats", "jdks"}} :
             Begin(r, [do |-> "wipe", scope |-> s], "plan")
       \/ \E a \in Instance, p \in {Jdk, Runtime} : Begin(r, [do |-> "make", app |-> a, pins |-> p], "make")
    /\ UNCHANGED wipeVars

WipeDies(r) == Dies(r) /\ UNCHANGED wipeVars

WipeNext ==
    \E r \in Request :
       \/ WipeAsk(r) \/ WipeDies(r) \/ WritePlan(r) \/ NextCategory(r) \/ EndCategory(r) \/ EndWipe(r)
       \/ WipeUnit(r) \/ WipeTree(r) \/ WipeVhost(r) \/ Gate(r) \/ RemoveRuntime(r) \/ RemoveRoot(r)
       \/ MakeApp(r)

WipeSpec == WipeInit /\ [][WipeNext]_allWipeVars

------------------------------------------------------------------------------
\* Short of the data root, a wipe removes no JDK and no Tomcat home that an app it has left
\* behind pins - refused by the panel, failed, out of its scope, made meanwhile - unless the
\* app was made between the wipe's last look at that runtime and its removal, which nothing
\* prevents (maintenance.py 202-211, 223-231, installer.py 165-170).
WipeSparesUsed ==
    [][\A x \in Runtime, r \in Request :
          pc[r] = "remove" /\ pc'[r] = "gate" /\ runtime'[x] # runtime[x]
          => UsersOf(x) \subseteq late[r]]_allWipeVars
==============================================================================
