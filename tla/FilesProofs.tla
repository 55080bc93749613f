----------------------------- MODULE FilesProofs -----------------------------
(***************************************************************************)
(* Three parts that change files of their own one step at a time, for any  *)
(* number of requests and any faults: a wipe removes no runtime that an    *)
(* app was using when it last looked (core/maintenance.py and the two      *)
(* usage() functions); a proxy that cannot be attached leaves the panel's  *)
(* files as they were, but for what the panel did without being heard      *)
(* (core/compat/aapanel.py); a deploy replaces webapps/ROOT whole          *)
(* (core/deploy/war.py).                                                   *)
(***************************************************************************)
EXTENDS RootSwap, PanelFiles, Wipe, TLAPS

------------------------------------------------------------------------------
(* A wipe beside other requests.  Wipe.tla.                                *)

WipeOps ==
    [do : {"none"}] \cup [do : {"wipe"}, scope : {{"full"}, {"tomcats", "jdks"}}]
                    \cup [do : {"make"}, app : Instance, pins : {Jdk, Runtime}]

WipeTypeOK ==
    /\ pc \in [Request -> Wiping \cup Answer \cup {"idle", "make"}]
    /\ op \in [Request -> WipeOps]
    /\ \A r \in Request : pc[r] = "make" => op[r].do = "make"
    /\ apps \in [Instance -> {"none", "part", "whole"}]
    /\ pins \in [Instance -> {Jdk, Runtime}]
    /\ runtime \in [Runtime -> {"none", "part", "whole"}]
    /\ vhost \subseteq Instance
    /\ items \in [Request -> SUBSET (Instance \cup Runtime)]
    /\ late \in [Request -> SUBSET Instance]

\* Whoever uses the runtime a wipe is about to remove has come since the wipe looked.
LookedInv == \A r \in Request : pc[r] = "remove" => UsersOf(Item(r)) \subseteq late[r]

WipeInv == WipeTypeOK /\ LookedInv
------------------------------------------------------------------------------
LEMMA OpsAsked ==
    /\ [do |-> "none"] \in WipeOps
    /\ \A s \in {{"full"}, {"tomcats", "jdks"}} : [do |-> "wipe", scope |-> s] \in WipeOps
    /\ \A a \in Instance, p \in {Jdk, Runtime} : [do |-> "make", app |-> a, pins |-> p] \in WipeOps
    /\ \A o \in WipeOps : o.do = "make" => o.app \in Instance /\ o.pins \in {Jdk, Runtime}
BY DEF WipeOps

\* The initial states satisfy the invariant.
LEMMA WipeInitial == WipeInit => WipeInv
<1> SUFFICES ASSUME WipeInit PROVE WipeInv
  OBVIOUS
<1>1. WipeTypeOK
  BY OpsAsked DEF WipeInit, NoRequest, WipeTypeOK
<1>2. LookedInv
  BY DEF WipeInit, NoRequest, LookedInv
<1>3. QED
  BY <1>1, <1>2 DEF WipeInv

\* A step that makes no app and ends no look cannot add a user.
LEMMA QuietStep ==
    ASSUME WipeInv, WipeTypeOK', UNCHANGED <<pins, late>>,
           \A a \in Instance : apps'[a] = "whole" => apps[a] = "whole",
           NEW r \in Request, \A q \in Request \ {r} : pc'[q] = pc[q] /\ items'[q] = items[q],
           pc'[r] # "remove"
    PROVE  WipeInv'
<1> SUFFICES ASSUME NEW q \in Request, pc'[q] = "remove"
             PROVE  UsersOf(Item(q))' \subseteq late'[q]
  BY DEF WipeInv, LookedInv
<1>1. q # r /\ pc[q] = "remove" /\ Item(q)' = Item(q)
  BY DEF Item
<1>2. UsersOf(Item(q))' \subseteq UsersOf(Item(q))
  BY <1>1 DEF UsersOf
<1>3. UsersOf(Item(q)) \subseteq late[q]
  BY <1>1 DEF WipeInv, LookedInv
<1>4. QED
  BY <1>2, <1>3

LEMMA WipeAskKeeps == ASSUME WipeInv, NEW r \in Request, WipeAsk(r) PROVE WipeInv'
<1>1. PICK o \in WipeOps, l \in {"plan", "make"} :
         /\ l = "make" => o.do = "make"
         /\ op' = [op EXCEPT ![r] = o] /\ pc' = [pc EXCEPT ![r] = l] /\ UNCHANGED wipeVars
  <2>1. CASE \E s \in {{"full"}, {"tomcats", "jdks"}} :
                Begin(r, [do |-> "wipe", scope |-> s], "plan")
    BY <2>1, OpsAsked DEF WipeAsk, Begin
  <2>2. CASE \E a \in Instance, p \in {Jdk, Runtime} :
                Begin(r, [do |-> "make", app |-> a, pins |-> p], "make")
    <3>1. PICK a \in Instance, p \in {Jdk, Runtime} :
             Begin(r, [do |-> "make", app |-> a, pins |-> p], "make")
      BY <2>2
    <3> DEFINE o == [do |-> "make", app |-> a, pins |-> p]
    <3>2. o \in WipeOps /\ o.do = "make"
      BY OpsAsked
    <3>3. /\ op' = [op EXCEPT ![r] = o] /\ pc' = [pc EXCEPT ![r] = "make"]
          /\ UNCHANGED wipeVars
      BY <3>1 DEF Begin, WipeAsk
    <3> HIDE DEF o
    <3>4. QED
      BY <3>2, <3>3
  <2>3. QED
    BY <2>1, <2>2 DEF WipeAsk
<1>2. WipeTypeOK'
  BY <1>1 DEF WipeInv, WipeTypeOK, Wiping, wipeVars
<1>3. /\ UNCHANGED <<pins, late>> /\ pc'[r] # "remove"
      /\ \A q \in Request \ {r} : pc'[q] = pc[q] /\ items'[q] = items[q]
      /\ \A a \in Instance : apps'[a] = "whole" => apps[a] = "whole"
  BY <1>1 DEF WipeInv, WipeTypeOK, wipeVars
<1>4. QED
  BY <1>2, <1>3, QuietStep

LEMMA WipeDiesKeeps == ASSUME WipeInv, NEW r \in Request, WipeDies(r) PROVE WipeInv'
<1>1. WipeTypeOK'
  BY DEF WipeInv, WipeTypeOK, Wiping, Answer, WipeDies, Dies, Failing, Goto, wipeVars
<1>2. /\ UNCHANGED <<pins, late>> /\ pc'[r] # "remove"
      /\ \A q \in Request \ {r} : pc'[q] = pc[q] /\ items'[q] = items[q]
      /\ \A a \in Instance : apps'[a] = "whole" => apps[a] = "whole"
  BY DEF WipeInv, WipeTypeOK, WipeDies, Dies, Failing, Goto, wipeVars
<1>3. QED
  BY <1>1, <1>2, QuietStep

LEMMA WritePlanKeeps == ASSUME WipeInv, NEW r \in Request, WritePlan(r) PROVE WipeInv'
<1>1. WipeTypeOK'
  BY DEF WipeInv, WipeTypeOK, Wiping, Answer, WritePlan, Goto
<1>2. /\ UNCHANGED <<pins, late>> /\ pc'[r] # "remove"
      /\ \A q \in Request \ {r} : pc'[q] = pc[q] /\ items'[q] = items[q]
      /\ \A a \in Instance : apps'[a] = "whole" => apps[a] = "whole"
  BY DEF WipeInv, WipeTypeOK, WritePlan, Goto
<1>3. QED
  BY <1>1, <1>2, QuietStep

LEMMA NextCategoryKeeps == ASSUME WipeInv, NEW r \in Request, NextCategory(r) PROVE WipeInv'
<1>1. WipeTypeOK'
  <2> DEFINE c == Head(todo[r])
             held == {a \in Instance : apps[a] # "none"}
             found(homes) == CASE c = "apps" -> held [] c = "sites" -> vhost
                                [] c = "tomcats" -> homes
                                [] OTHER -> {x \in Jdk : runtime[x] # "none"}
             label == CASE c = "apps" -> "app" [] c = "sites" -> "vhost" [] OTHER -> "gate"
  <2>1. PICK homes \in SUBSET Tomcat :
           /\ items' = [items EXCEPT ![r] = found(homes)]
           /\ pc' = [pc EXCEPT ![r] = label]
           /\ UNCHANGED <<op, apps, pins, vhost, runtime, late>>
    BY DEF NextCategory, Goto
  <2>2. found(homes) \subseteq Instance \cup Runtime
    BY DEF WipeInv, WipeTypeOK, Runtime
  <2>3. label \in {"app", "vhost", "gate"}
    OBVIOUS
  <2> HIDE DEF c, held, found, label
  <2>4. QED
    BY <2>1, <2>2, <2>3 DEF WipeInv, WipeTypeOK, Wiping
<1>2. /\ UNCHANGED <<pins, late>> /\ pc'[r] # "remove"
      /\ \A q \in Request \ {r} : pc'[q] = pc[q] /\ items'[q] = items[q]
      /\ \A a \in Instance : apps'[a] = "whole" => apps[a] = "whole"
  BY DEF WipeInv, WipeTypeOK, NextCategory, Goto, Runtime
<1>3. QED
  BY <1>1, <1>2, QuietStep

LEMMA EndCategoryKeeps == ASSUME WipeInv, NEW r \in Request, EndCategory(r) PROVE WipeInv'
<1>1. WipeTypeOK'
  BY DEF WipeInv, WipeTypeOK, Wiping, Answer, EndCategory, Goto, wipeVars
<1>2. /\ UNCHANGED <<pins, late>> /\ pc'[r] # "remove"
      /\ \A q \in Request \ {r} : pc'[q] = pc[q] /\ items'[q] = items[q]
      /\ \A a \in Instance : apps'[a] = "whole" => apps[a] = "whole"
  BY DEF WipeInv, WipeTypeOK, EndCategory, Goto, wipeVars
<1>3. QED
  BY <1>1, <1>2, QuietStep

LEMMA EndWipeKeeps == ASSUME WipeInv, NEW r \in Request, EndWipe(r) PROVE WipeInv'
<1>1. WipeTypeOK'
  BY DEF WipeInv, WipeTypeOK, Wiping, Answer, EndWipe, Goto, wipeVars
<1>2. /\ UNCHANGED <<pins, late>> /\ pc'[r] # "remove"
      /\ \A q \in Request \ {r} : pc'[q] = pc[q] /\ items'[q] = items[q]
      /\ \A a \in Instance : apps'[a] = "whole" => apps[a] = "whole"
  BY DEF WipeInv, WipeTypeOK, EndWipe, Goto, wipeVars
<1>3. QED
  BY <1>1, <1>2, QuietStep

LEMMA WipeUnitKeeps == ASSUME WipeInv, NEW r \in Request, WipeUnit(r) PROVE WipeInv'
<1>1. WipeTypeOK'
  BY DEF WipeInv, WipeTypeOK, Wiping, Answer, WipeUnit, Failing, Goto, Drop
<1>2. /\ UNCHANGED <<pins, late>> /\ pc'[r] # "remove"
      /\ \A q \in Request \ {r} : pc'[q] = pc[q] /\ items'[q] = items[q]
      /\ \A a \in Instance : apps'[a] = "whole" => apps[a] = "whole"
  BY DEF WipeInv, WipeTypeOK, WipeUnit, Failing, Goto, Drop
<1>3. QED
  BY <1>1, <1>2, QuietStep

LEMMA WipeTreeKeeps == ASSUME WipeInv, NEW r \in Request, WipeTree(r) PROVE WipeInv'
<1>1. WipeTypeOK'
  BY DEF WipeInv, WipeTypeOK, Wiping, Answer, WipeTree, Goto, Drop
<1>2. /\ UNCHANGED <<pins, late>> /\ pc'[r] # "remove"
      /\ \A q \in Request \ {r} : pc'[q] = pc[q] /\ items'[q] = items[q]
      /\ \A a \in Instance : apps'[a] = "whole" => apps[a] = "whole"
  BY DEF WipeInv, WipeTypeOK, WipeTree, Goto, Drop
<1>3. QED
  BY <1>1, <1>2, QuietStep

LEMMA WipeVhostKeeps == ASSUME WipeInv, NEW r \in Request, WipeVhost(r) PROVE WipeInv'
<1>1. WipeTypeOK'
  BY DEF WipeInv, WipeTypeOK, Wiping, Answer, WipeVhost, Goto, Drop
<1>2. /\ UNCHANGED <<pins, late>> /\ pc'[r] # "remove"
      /\ \A q \in Request \ {r} : pc'[q] = pc[q] /\ items'[q] = items[q]
      /\ \A a \in Instance : apps'[a] = "whole" => apps[a] = "whole"
  BY DEF WipeInv, WipeTypeOK, WipeVhost, Goto, Drop
<1>3. QED
  BY <1>1, <1>2, QuietStep

LEMMA RemoveRuntimeKeeps == ASSUME WipeInv, NEW r \in Request, RemoveRuntime(r) PROVE WipeInv'
<1>1. WipeTypeOK'
  BY DEF WipeInv, WipeTypeOK, Wiping, Answer, RemoveRuntime, Goto, Drop
<1>2. /\ UNCHANGED <<pins, late>> /\ pc'[r] # "remove"
      /\ \A q \in Request \ {r} : pc'[q] = pc[q] /\ items'[q] = items[q]
      /\ \A a \in Instance : apps'[a] = "whole" => apps[a] = "whole"
  BY DEF WipeInv, WipeTypeOK, RemoveRuntime, Goto, Drop
<1>3. QED
  BY <1>1, <1>2, QuietStep

LEMMA RemoveRootKeeps == ASSUME WipeInv, NEW r \in Request, RemoveRoot(r) PROVE WipeInv'
<1>1. WipeTypeOK'
  BY DEF WipeInv, WipeTypeOK, Wiping, Answer, RemoveRoot, Goto, Extent
<1>2. /\ UNCHANGED <<pins, late>> /\ pc'[r] # "remove"
      /\ \A q \in Request \ {r} : pc'[q] = pc[q] /\ items'[q] = items[q]
      /\ \A a \in Instance : apps'[a] = "whole" => apps[a] = "whole"
  BY DEF WipeInv, WipeTypeOK, RemoveRoot, Goto, Extent, Less
<1>3. QED
  BY <1>1, <1>2, QuietStep

\* The look: whoever uses the runtime now is not there, and the count of newcomers starts.
LEMMA GateKeeps == ASSUME WipeInv, NEW r \in Request, Gate(r) PROVE WipeInv'
<1>1. WipeTypeOK'
  BY DEF WipeInv, WipeTypeOK, Wiping, Answer, Gate, Goto, Drop
<1>2. LookedInv'
  <2> SUFFICES ASSUME NEW q \in Request, pc'[q] = "remove"
               PROVE  UsersOf(Item(q))' \subseteq late'[q]
    BY DEF LookedInv
  <2>1. \A x : UsersOf(x)' = UsersOf(x)
    BY DEF UsersOf, Gate
  <2>2. CASE q = r
    <3>1. UsersOf(Item(r)) = {} /\ items' = items
      BY <2>2 DEF WipeInv, WipeTypeOK, Gate, Goto
    <3>2. Item(r)' = Item(r)
      BY <3>1 DEF Item
    <3>3. QED
      BY <2>1, <2>2, <3>1, <3>2
  <2>3. CASE q # r
    <3>1. pc[q] = "remove" /\ late'[q] = late[q] /\ items'[q] = items[q]
      BY <2>3 DEF WipeInv, WipeTypeOK, Gate, Goto, Drop
    <3>2. Item(q)' = Item(q)
      BY <3>1 DEF Item
    <3>3. QED
      BY <2>1, <3>1, <3>2 DEF WipeInv, LookedInv
  <2>4. QED
    BY <2>2, <2>3
<1>3. QED
  BY <1>1, <1>2 DEF WipeInv

\* An app that is made is noted by every wipe that has looked.
LEMMA MakeAppKeeps == ASSUME WipeInv, NEW r \in Request, MakeApp(r) PROVE WipeInv'
<1>1. op[r].app \in Instance /\ op[r].pins \in {Jdk, Runtime}
  BY OpsAsked DEF WipeInv, WipeTypeOK, MakeApp
<1>2. CASE pc' = [pc EXCEPT ![r] = "refused"] /\ UNCHANGED <<op, apps, pins, late>>
  <2>1. WipeTypeOK'
    BY <1>2 DEF WipeInv, WipeTypeOK, Answer, MakeApp
  <2>2. QED
    BY <1>2, <2>1, QuietStep DEF WipeInv, WipeTypeOK, MakeApp
<1>3. CASE /\ apps' = [apps EXCEPT ![op[r].app] = "whole"]
           /\ pins' = [pins EXCEPT ![op[r].app] = op[r].pins]
           /\ late' = [q \in Request |->
                 IF pc[q] = "remove" THEN late[q] \cup {op[r].app} ELSE late[q]]
           /\ pc' = [pc EXCEPT ![r] = "done"] /\ op' = op
  <2>1. WipeTypeOK'
    BY <1>1, <1>3 DEF WipeInv, WipeTypeOK, Answer, MakeApp
  <2>2. LookedInv'
    <3> SUFFICES ASSUME NEW q \in Request, pc'[q] = "remove"
                 PROVE  UsersOf(Item(q))' \subseteq late'[q]
      BY DEF LookedInv
    <3>1. pc[q] = "remove" /\ late'[q] = late[q] \cup {op[r].app}
      BY <1>3 DEF WipeInv, WipeTypeOK
    <3>2. Item(q)' = Item(q)
      BY DEF Item, MakeApp
    <3>3. UsersOf(Item(q))' \subseteq UsersOf(Item(q)) \cup {op[r].app}
      BY <1>3, <3>2 DEF UsersOf, WipeInv, WipeTypeOK
    <3>4. QED
      BY <3>1, <3>3 DEF WipeInv, LookedInv
  <2>3. QED
    BY <2>1, <2>2 DEF WipeInv
<1>4. QED
  BY <1>2, <1>3 DEF MakeApp, Goto

------------------------------------------------------------------------------
LEMMA WipeStep == ASSUME WipeInv, [WipeNext]_allWipeVars PROVE WipeInv'
<1>1. CASE WipeNext
  BY <1>1, WipeAskKeeps, WipeDiesKeeps, WritePlanKeeps, NextCategoryKeeps, EndCategoryKeeps,
     EndWipeKeeps, WipeUnitKeeps, WipeTreeKeeps, WipeVhostKeeps, RemoveRuntimeKeeps,
     RemoveRootKeeps, GateKeeps, MakeAppKeeps DEF WipeNext
<1>2. CASE UNCHANGED allWipeVars
  BY <1>2 DEF allWipeVars, reqVars, wipeVars, WipeInv, WipeTypeOK, LookedInv, UsersOf, Item
<1>3. QED
  BY <1>1, <1>2

\* Types, and what a wipe knows of the users of the runtime it is about to remove.
THEOREM WipeSafe == WipeSpec => []WipeInv
<1>1. QED
  BY WipeInitial, WipeStep, PTL DEF WipeSpec

\* Short of the data root no wipe removes a runtime under an app that was there when it
\* last looked (maintenance.py 202-211, 223-231).
THEOREM UsedIsSpared == WipeSpec => WipeSparesUsed
<1> DEFINE Spares ==
       \A x \in Runtime, r \in Request :
          pc[r] = "remove" /\ pc'[r] = "gate" /\ runtime'[x] # runtime[x]
          => UsersOf(x) \subseteq late[r]
<1>1. WipeInv /\ [WipeNext]_allWipeVars => [Spares]_allWipeVars
  <2> SUFFICES ASSUME WipeInv, WipeNext, NEW x \in Runtime, NEW r \in Request,
                      pc[r] = "remove", pc'[r] = "gate", runtime'[x] # runtime[x]
               PROVE  UsersOf(x) \subseteq late[r]
    OBVIOUS
  <2>1. PICK q \in Request : RemoveRuntime(q) \/ RemoveRoot(q)
    BY DEF WipeNext, WipeAsk, WipeDies, WritePlan, NextCategory, EndCategory, EndWipe, WipeUnit,
       WipeTree, WipeVhost, Gate, MakeApp, wipeVars
  <2>2. RemoveRuntime(q) /\ q = r
    BY <2>1 DEF RemoveRuntime, RemoveRoot, Goto, WipeInv, WipeTypeOK
  <2>3. x = Item(r)
    BY <2>2 DEF RemoveRuntime, WipeInv, WipeTypeOK
  <2>4. QED
    BY <2>3 DEF WipeInv, LookedInv
<1>2. QED
  BY <1>1, WipeSafe, PTL DEF WipeSpec, WipeSparesUsed

------------------------------------------------------------------------------
(* Attaching a proxy in the panel's files.  PanelFiles.tla.                *)

Conf    == [blocks : SUBSET {"old", "panel"}, include : BOOLEAN]
Writer  == Request \cup {"none", "old"}
RowSet  == [Domain -> Writer]
Local   == [tries : Nat, first : Conf, conf : Conf, read : SUBSET {"rows", "snippet"},
            rows : RowSet, snippet : Writer]
Attach  == [do : {"attach"}, dom : Domain]
Asking  == {"scrub", "ask", "rescrub", "map", "read"}
HasRead == {"snippet", "include", "row", "test", "back1", "back2", "back3"}

PanelTypeOK ==
    /\ pc \in [Request -> Asking \cup HasRead \cup {"idle", "restore"} \cup Answer]
    /\ op \in [Request -> [do : {"none"}] \cup Attach]
    /\ \A r \in Request : Busy(r) => op[r] \in Attach
    /\ siteconf \in [Domain -> Conf] /\ snippet \in [Domain -> Writer] /\ rows \in RowSet
    /\ mine \in [Request -> Local]
    /\ before \in [Request -> {Idle} \cup [conf : Conf, snippet : Writer, rows : RowSet]]
    /\ excused \subseteq Request /\ unheard \subseteq Request

\* Two requests at work overlap, and are excused when they are for one domain.
ApartInv ==
    \A q, r \in Request : Busy(q) /\ Busy(r) /\ q # r => ~alone /\ (D(q) = D(r) => r \in excused)

\* A snippet, an include and a list that are what a request found, or what the panel made of
\* them for it in an answer that was lost.
KeptSnippet(r, s) == s = before[r].snippet \/ (r \in unheard /\ s = r)
KeptInclude(r, i) == i = before[r].conf.include \/ (r \in unheard /\ i = TRUE)
KeptRows(r, w)    == w = before[r].rows \/ (r \in unheard /\ w = [before[r].rows EXCEPT ![D(r)] = r])

\* What a request that is not excused still has, or holds a copy of, of what it found.
PanelKnows(r) ==
    LET m == mine[r] d == D(r)
    IN  /\ pc[r] = "scrub" => siteconf[d] = before[r].conf
        /\ pc[r] # "scrub" => m.first = before[r].conf
        /\ pc[r] \in Asking \cup {"snippet", "include", "back2", "back3", "restore"}
           => KeptInclude(r, siteconf[d].include)
        /\ pc[r] \in Asking \cup {"snippet", "restore"} => KeptSnippet(r, snippet[d])
        /\ pc[r] \in Asking \cup {"snippet", "include", "back3", "restore"} /\ alone
           => KeptRows(r, rows)
        /\ pc[r] \in HasRead =>
              /\ m.read = {"rows", "snippet"}
              /\ KeptInclude(r, m.conf.include) /\ KeptSnippet(r, m.snippet)
              /\ alone => KeptRows(r, m.rows)

PanelInv ==
    PanelTypeOK /\ ApartInv /\ \A r \in Request : Busy(r) /\ r \notin excused => PanelKnows(r)

------------------------------------------------------------------------------
LEMMA PanelTyped ==
    /\ [do |-> "none"] \in [do : {"none"}]
    /\ \A d \in Domain : [do |-> "attach", dom |-> d] \in Attach
    /\ \A o \in Attach : o.do = "attach" /\ o.dom \in Domain
    /\ Bare \in Conf /\ [blocks |-> {}, include |-> TRUE] \in Conf
    /\ \A c \in Conf : [c EXCEPT !.blocks = {}] \in Conf /\ [c EXCEPT !.include = TRUE] \in Conf
    /\ \A c \in Conf : [c EXCEPT !.blocks = @ \cup {"panel"}] \in Conf
BY DEF Attach, Conf, Bare

\* The initial states satisfy the invariant.
LEMMA PanelInitial == PanelInit => PanelInv
<1> SUFFICES ASSUME PanelInit PROVE PanelInv
  OBVIOUS
<1>1. PICK b \in {{}, {"old"}}, i \in BOOLEAN :
         /\ siteconf = [d \in Domain |-> [blocks |-> b, include |-> i]]
         /\ snippet = [d \in Domain |-> IF i THEN "old" ELSE "none"]
         /\ rows = [d \in Domain |-> IF i THEN "old" ELSE "none"]
  BY DEF PanelInit
<1>2. siteconf \in [Domain -> Conf] /\ snippet \in [Domain -> Writer] /\ rows \in RowSet
  BY <1>1 DEF Conf, Writer, RowSet
<1>3. Idle \in Local
  BY DEF Idle, Local, Bare, Conf, RowSet, Writer
<1>4. \A r \in Request : pc[r] = "idle" /\ ~Busy(r)
  BY DEF PanelInit, NoRequest, Busy
<1>5. PanelTypeOK
  BY <1>2, <1>3, <1>4, PanelTyped DEF PanelInit, NoRequest, PanelTypeOK
<1>6. QED
  BY <1>4, <1>5 DEF PanelInv, ApartInv

\* A step of a request at work changes nothing that another one knows of.
LEMMA OthersKnow ==
    ASSUME PanelInv, NEW q \in Request, Busy(q), PanelTypeOK',
           \A r \in Request \ {q} : pc'[r] = pc[r] /\ mine'[r] = mine[r],
           UNCHANGED <<op, alone, before>>, excused \subseteq excused', unheard \subseteq unheard',
           \A d \in Domain \ {D(q)} : siteconf'[d] = siteconf[d] /\ snippet'[d] = snippet[d],
           Busy(q)' /\ q \notin excused' => PanelKnows(q)'
    PROVE  PanelInv'
<1>1. \A r \in Request : Busy(r)' => Busy(r)
  BY DEF Busy
<1>2. ApartInv'
  BY <1>1 DEF PanelInv, ApartInv, D
<1>3. ASSUME NEW r \in Request \ {q}, Busy(r)', r \notin excused' PROVE PanelKnows(r)'
  <2>1. Busy(r) /\ r \notin excused /\ PanelKnows(r)
    BY <1>1, <1>3 DEF PanelInv
  <2>2. ~alone /\ D(q) # D(r)
    BY <1>3, <2>1 DEF PanelInv, ApartInv
  <2>3. D(r) \in Domain
    BY <2>1, PanelTyped DEF PanelInv, PanelTypeOK, D
  <2>4. D(r)' = D(r) /\ siteconf'[D(r)] = siteconf[D(r)] /\ snippet'[D(r)] = snippet[D(r)]
    BY <2>2, <2>3 DEF D
  <2>5. pc'[r] = pc[r] /\ mine'[r] = mine[r]
    BY <1>3
  <2>6. QED
    BY <2>1, <2>2, <2>4, <2>5 DEF PanelKnows, KeptInclude, KeptSnippet
<1>4. QED
  BY <1>2, <1>3 DEF PanelInv

\* Who is at work has asked for a domain of the panel.
LEMMA AskedDomain ==
    ASSUME PanelTypeOK, NEW r \in Request, Busy(r)
    PROVE  op[r] \in Attach /\ D(r) \in Domain /\ op[r].do = "attach"
BY PanelTyped DEF PanelTypeOK, D

LEMMA ScrubKeeps == ASSUME PanelInv, NEW r \in Request, Scrub(r) PROVE PanelInv'
<1>1. PanelTypeOK /\ Busy(r) /\ pc' = [pc EXCEPT ![r] = "ask"]
  BY DEF PanelInv, Scrub, Goto, Busy, Answer
<1>2. D(r) \in Domain
  BY <1>1, AskedDomain
<1>3. siteconf' \in [Domain -> Conf] /\ mine' \in [Request -> Local]
  <2>1. siteconf[D(r)] \in Conf
    BY <1>1, <1>2 DEF PanelTypeOK
  <2>2. [mine[r] EXCEPT !.first = siteconf[D(r)]] \in Local
    BY <1>1, <2>1 DEF PanelTypeOK, Local
  <2>3. /\ siteconf' \in {siteconf, [siteconf EXCEPT ![D(r)] = [siteconf[D(r)] EXCEPT !.blocks = {}]]}
        /\ mine' \in {mine, [mine EXCEPT ![r] = [mine[r] EXCEPT !.first = siteconf[D(r)]]]}
    BY <1>1, <1>2 DEF PanelTypeOK, Scrub
  <2>4. [siteconf[D(r)] EXCEPT !.blocks = {}] \in Conf
    BY <2>1, PanelTyped
  <2>5. siteconf' \in [Domain -> Conf]
    BY <1>1, <1>2, <2>3, <2>4 DEF PanelTypeOK
  <2>6. mine' \in [Request -> Local]
    BY <1>1, <2>2, <2>3 DEF PanelTypeOK
  <2>7. QED
    BY <2>5, <2>6
<1>4. PanelTypeOK'
  BY <1>1, <1>3 DEF PanelTypeOK, Scrub, Goto, Asking, Busy
<1>5. ASSUME r \notin excused' PROVE PanelKnows(r)'
  <2>1. r \notin excused /\ PanelKnows(r)
    BY <1>1, <1>5 DEF Scrub, PanelInv
  <2>2. siteconf'[D(r)].include = siteconf[D(r)].include
    BY <1>1, <1>2 DEF Scrub, PanelTypeOK, Conf
  <2>3. mine'[r].first = before[r].conf
    BY <1>1, <1>5, <2>1 DEF Scrub, PanelKnows, PanelTypeOK, Local
  <2>4. pc'[r] = "ask" /\ D(r)' = D(r) /\ UNCHANGED <<snippet, rows, before, unheard, alone>>
        /\ mine'[r].first = before[r].conf
    BY <1>1, <2>3 DEF Scrub, Goto, PanelTypeOK, D
  <2>5. KeptInclude(r, siteconf[D(r)].include)
    BY <1>1, <2>1 DEF Scrub, PanelKnows, KeptInclude, Asking
  <2>6. KeptSnippet(r, snippet[D(r)]) /\ (alone => KeptRows(r, rows))
    BY <1>1, <2>1 DEF Scrub, PanelKnows, Asking
  <2>7. QED
    BY <2>2, <2>4, <2>5, <2>6 DEF PanelKnows, KeptInclude, KeptSnippet, KeptRows, Asking,
       HasRead
<1>6. QED
  BY <1>1, <1>2, <1>4, <1>5, OthersKnow DEF Scrub, Goto, PanelTypeOK

\* The panel has attached the proxy or not; who hears of it is done, who does not knows that
\* the files are as he found them or as the panel made them for him.
LEMMA PanelTriesKeeps == ASSUME PanelInv, NEW r \in Request, PanelTries(r) PROVE PanelInv'
<1>1. PanelTypeOK /\ Busy(r) /\ pc[r] = "ask" /\ UNCHANGED <<op, alone, before, excused>>
  BY DEF PanelInv, PanelTries, Goto, Busy, Answer
<1>2. D(r) \in Domain
  BY <1>1, AskedDomain
<1>3. mine' \in [Request -> Local] /\ mine'[r].first = mine[r].first
      /\ \A q \in Request \ {r} : mine'[q] = mine[q]
  <2>1. [mine[r] EXCEPT !.tries = @ + 1] \in Local
    <3>1. mine[r] \in Local
      BY <1>1 DEF PanelTypeOK
    <3>2. mine[r].tries + 1 \in Nat
      BY <3>1 DEF Local
    <3>3. QED
      BY <3>1, <3>2 DEF Local
  <2>2. mine' = [mine EXCEPT ![r] = [mine[r] EXCEPT !.tries = @ + 1]]
    BY <1>1 DEF PanelTypeOK, PanelTries
  <2>3. QED
    BY <1>1, <2>1, <2>2 DEF PanelTypeOK, Local
<1>4. PICK attached \in BOOLEAN, heard \in BOOLEAN, block \in {{}, {"panel"}} :
         /\ heard => attached
         /\ siteconf' = [siteconf EXCEPT ![D(r)].blocks = @ \cup block,
                                         ![D(r)].include = @ \/ attached]
         /\ IF attached
            THEN snippet' = [snippet EXCEPT ![D(r)] = r] /\ rows' = [rows EXCEPT ![D(r)] = r]
            ELSE UNCHANGED <<snippet, rows>>
         /\ unheard' = IF attached /\ ~heard THEN unheard \cup {r} ELSE unheard
         /\ Goto(r, IF heard THEN "done" ELSE IF mine'[r].tries < Attempts THEN "rescrub" ELSE "map")
  BY DEF PanelTries
<1>5. PICK l \in {"done", "rescrub", "map"} : pc' = [pc EXCEPT ![r] = l] /\ (heard <=> l = "done")
  BY <1>4 DEF Goto
<1> DEFINE c == [blocks |-> siteconf[D(r)].blocks \cup block,
                 include |-> siteconf[D(r)].include \/ attached]
<1>6. siteconf[D(r)] \in Conf
  BY <1>1, <1>2 DEF PanelTypeOK
<1>7. c \in Conf
  BY <1>4, <1>6 DEF Conf
<1>8. siteconf' = [siteconf EXCEPT ![D(r)] = c]
  <2>1. siteconf' = [siteconf EXCEPT ![D(r)] =
                        [[siteconf[D(r)] EXCEPT !.blocks = @ \cup block]
                            EXCEPT !.include = @ \/ attached]]
    BY <1>1, <1>2, <1>4 DEF PanelTypeOK
  <2>2. [[siteconf[D(r)] EXCEPT !.blocks = @ \cup block] EXCEPT !.include = @ \/ attached] = c
    <3>1. PICK b \in SUBSET {"old", "panel"}, i \in BOOLEAN :
             siteconf[D(r)] = [blocks |-> b, include |-> i]
      BY <1>6 DEF Conf
    <3>2. [siteconf[D(r)] EXCEPT !.blocks = @ \cup block]
          = [blocks |-> b \cup block, include |-> i]
      BY <3>1
    <3>3. [[blocks |-> b \cup block, include |-> i] EXCEPT !.include = @ \/ attached]
          = [blocks |-> b \cup block, include |-> i \/ attached]
      OBVIOUS
    <3>4. c = [blocks |-> b \cup block, include |-> i \/ attached]
      BY <3>1
    <3>5. QED
      BY <3>2, <3>3, <3>4
  <2>3. QED
    BY <2>1, <2>2
<1>9. c.include = (siteconf[D(r)].include \/ attached)
  OBVIOUS
<1> HIDE DEF c
<1>10. siteconf' \in [Domain -> Conf] /\ siteconf'[D(r)].include = c.include
       /\ \A d \in Domain \ {D(r)} : siteconf'[d] = siteconf[d]
  BY <1>1, <1>2, <1>7, <1>8 DEF PanelTypeOK
<1>11. snippet' \in [Domain -> Writer] /\ rows' \in RowSet
       /\ \A d \in Domain \ {D(r)} : snippet'[d] = snippet[d]
  BY <1>1, <1>2, <1>4 DEF PanelTypeOK, RowSet, Writer
<1>12. unheard \subseteq unheard' /\ unheard' \subseteq Request
  BY <1>1, <1>4 DEF PanelTypeOK
<1>13. PanelTypeOK'
  BY <1>1, <1>3, <1>5, <1>10, <1>11, <1>12 DEF PanelTypeOK, Asking, Answer, Busy
<1>14. ASSUME Busy(r)', r \notin excused' PROVE PanelKnows(r)'
  <2>1. PanelKnows(r)
    BY <1>1, <1>14 DEF PanelInv
  <2>2. ~heard /\ l \in {"rescrub", "map"} /\ pc'[r] = l
    BY <1>1, <1>5, <1>14 DEF PanelTypeOK, Busy, Answer
  <2>3. /\ KeptInclude(r, siteconf[D(r)].include) /\ KeptSnippet(r, snippet[D(r)])
        /\ alone => KeptRows(r, rows)
        /\ mine[r].first = before[r].conf
    BY <1>1, <2>1 DEF PanelKnows, Asking
  <2>4. CASE attached
    <3>1. r \in unheard' /\ snippet'[D(r)] = r /\ siteconf'[D(r)].include = TRUE
          /\ rows' = [rows EXCEPT ![D(r)] = r]
      BY <1>1, <1>2, <1>4, <1>9, <1>10, <2>2, <2>4 DEF PanelTypeOK
    <3>2. alone => rows' = [before[r].rows EXCEPT ![D(r)] = r]
      BY <2>3, <3>1 DEF KeptRows
    <3>3. QED
      BY <1>1, <1>3, <2>2, <2>3, <3>1, <3>2
         DEF PanelKnows, KeptInclude, KeptSnippet, KeptRows, D, Asking, HasRead
  <2>5. CASE ~attached
    <3>1. siteconf'[D(r)].include = siteconf[D(r)].include /\ UNCHANGED <<snippet, rows, unheard>>
      BY <1>4, <1>6, <1>9, <1>10, <2>5 DEF Conf
    <3>2. QED
      BY <1>1, <1>3, <2>2, <2>3, <3>1
         DEF PanelKnows, KeptInclude, KeptSnippet, KeptRows, D, Asking, HasRead
  <2>6. QED
    BY <2>4, <2>5
<1>15. QED
  BY <1>1, <1>3, <1>5, <1>10, <1>11, <1>12, <1>13, <1>14, OthersKnow DEF PanelTypeOK

LEMMA AddMapKeeps == ASSUME PanelInv, NEW r \in Request, AddMap(r) PROVE PanelInv'
<1>1. /\ PanelTypeOK /\ Busy(r) /\ pc[r] = "map"
      /\ UNCHANGED <<op, alone, before, unheard, excused, siteconf, snippet, rows, mine>>
  BY DEF PanelInv, AddMap, Failing, Goto, Busy, Answer
<1>2. PICK l \in {"read", "restore"} : pc' = [pc EXCEPT ![r] = l]
  BY DEF AddMap, Failing, Goto
<1>3. PanelTypeOK'
  BY <1>1, <1>2 DEF PanelTypeOK, Asking, Busy
<1>4. ASSUME r \notin excused' PROVE PanelKnows(r)'
  <2>1. PanelKnows(r)
    BY <1>1, <1>4 DEF PanelInv
  <2>2. QED
    BY <1>1, <1>2, <2>1 DEF PanelKnows, KeptInclude, KeptSnippet, KeptRows, PanelTypeOK, D,
       Asking, HasRead
<1>5. QED
  BY <1>1, <1>2, <1>3, <1>4, OthersKnow DEF PanelTypeOK

LEMMA ReadFilesKeeps == ASSUME PanelInv, NEW r \in Request, ReadFiles(r) PROVE PanelInv'
<1>1. /\ PanelTypeOK /\ Busy(r) /\ pc[r] = "read"
      /\ UNCHANGED <<op, alone, before, unheard, siteconf, snippet, rows>>
  BY DEF PanelInv, ReadFiles, Failing, Goto, Busy, Answer
<1>2. D(r) \in Domain
  BY <1>1, AskedDomain
<1>3. CASE pc' = [pc EXCEPT ![r] = "restore"] /\ UNCHANGED <<mine, excused>>
  <2>1. PanelTypeOK'
    BY <1>1, <1>3 DEF PanelTypeOK, Busy
  <2>2. ASSUME r \notin excused' PROVE PanelKnows(r)'
    <3>1. PanelKnows(r)
      BY <1>1, <1>3, <2>2 DEF PanelInv
    <3>2. QED
      BY <1>1, <1>3, <3>1 DEF PanelKnows, KeptInclude, KeptSnippet, KeptRows, PanelTypeOK, D,
         Asking, HasRead
  <2>3. QED
    BY <1>1, <1>3, <2>1, <2>2, OthersKnow DEF PanelTypeOK
<1>4. ASSUME NEW l \in BOOLEAN, NEW s \in BOOLEAN, pc' = [pc EXCEPT ![r] = "snippet"],
             mine' = [mine EXCEPT ![r].conf = siteconf[D(r)], ![r].rows = rows,
                                  ![r].snippet = snippet[D(r)],
                                  ![r].read = (IF l /\ listed THEN {"rows"} ELSE {})
                                              \cup (IF s THEN {"snippet"} ELSE {})],
             excused' = IF l /\ s /\ listed THEN excused ELSE excused \cup {r}
      PROVE  PanelInv'
  <2> DEFINE got == (IF l /\ listed THEN {"rows"} ELSE {}) \cup (IF s THEN {"snippet"} ELSE {})
             m   == [mine[r] EXCEPT !.conf = siteconf[D(r)], !.rows = rows,
                                    !.snippet = snippet[D(r)], !.read = got]
  <2>1. mine' = [mine EXCEPT ![r] = m]
    BY <1>1, <1>4 DEF PanelTypeOK
  <2>2. got \in SUBSET {"rows", "snippet"}
    OBVIOUS
  <2>3. mine[r] \in Local /\ siteconf[D(r)] \in Conf /\ snippet[D(r)] \in Writer
    BY <1>1, <1>2 DEF PanelTypeOK
  <2> HIDE DEF got
  <2>4. /\ m \in Local /\ m.read = got /\ m.conf = siteconf[D(r)] /\ m.rows = rows
        /\ m.snippet = snippet[D(r)] /\ m.first = mine[r].first
    BY <1>1, <2>2, <2>3 DEF Local, PanelTypeOK
  <2> HIDE DEF m
  <2>5. PanelTypeOK'
    <3>1. mine' \in [Request -> Local]
      BY <1>1, <2>1, <2>4 DEF PanelTypeOK
    <3>2. pc' \in [Request -> Asking \cup HasRead \cup {"idle", "restore"} \cup Answer]
      BY <1>1, <1>4 DEF PanelTypeOK, HasRead
    <3>3. \A q \in Request : Busy(q)' => op'[q] \in Attach
      BY <1>1, <1>4 DEF PanelTypeOK, Busy
    <3>4. excused' \subseteq Request
      BY <1>1, <1>4 DEF PanelTypeOK
    <3>5. QED
      BY <1>1, <3>1, <3>2, <3>3, <3>4 DEF PanelTypeOK
  <2>6. ASSUME r \notin excused' PROVE PanelKnows(r)'
    <3>1. r \notin excused /\ got = {"rows", "snippet"}
      BY <1>4, <2>6 DEF got
    <3>2. PanelKnows(r)
      BY <1>1, <3>1 DEF PanelInv
    <3>3. mine'[r] = m /\ pc'[r] = "snippet" /\ D(r)' = D(r)
      BY <1>1, <1>4, <2>1 DEF PanelTypeOK, D
    <3>4. QED
      BY <1>1, <2>4, <3>1, <3>2, <3>3
         DEF PanelKnows, KeptInclude, KeptSnippet, KeptRows, Asking, HasRead
  <2>7. QED
    BY <1>1, <1>4, <2>1, <2>5, <2>6, OthersKnow DEF PanelTypeOK
<1>5. QED
  BY <1>3, <1>4 DEF ReadFiles, Failing, Goto

LEMMA WriteSnippetKeeps == ASSUME PanelInv, NEW r \in Request, WriteSnippet(r) PROVE PanelInv'
<1>1. /\ PanelTypeOK /\ Busy(r) /\ pc[r] = "snippet"
      /\ UNCHANGED <<op, alone, before, unheard, excused, siteconf, rows, mine>>
  BY DEF PanelInv, WriteSnippet, Failing, Goto, Busy, Answer
<1>2. D(r) \in Domain
  BY <1>1, AskedDomain
<1>3. PICK l \in {"include", "restore"} :
         /\ pc' = [pc EXCEPT ![r] = l]
         /\ l = "restore" => snippet' = snippet
         /\ snippet' \in {snippet, [snippet EXCEPT ![D(r)] = r]}
  BY DEF WriteSnippet, Failing, Goto
<1>4. PanelTypeOK'
  BY <1>1, <1>2, <1>3 DEF PanelTypeOK, HasRead, Busy, Writer
<1>5. ASSUME r \notin excused' PROVE PanelKnows(r)'
  <2>1. PanelKnows(r)
    BY <1>1, <1>5 DEF PanelInv
  <2>2. QED
    BY <1>1, <1>3, <2>1 DEF PanelKnows, KeptInclude, KeptSnippet, KeptRows, PanelTypeOK, D,
       Asking, HasRead
<1>6. QED
  BY <1>1, <1>2, <1>3, <1>4, <1>5, OthersKnow DEF PanelTypeOK

LEMMA WriteIncludeKeeps == ASSUME PanelInv, NEW r \in Request, WriteInclude(r) PROVE PanelInv'
<1>1. /\ PanelTypeOK /\ Busy(r) /\ pc[r] = "include"
      /\ UNCHANGED <<op, alone, before, unheard, excused, snippet, rows, mine>>
  BY DEF PanelInv, WriteInclude, Failing, Goto, Busy, Answer
<1>2. D(r) \in Domain
  BY <1>1, AskedDomain
<1>3. PICK l \in {"row", "back1"} : pc' = [pc EXCEPT ![r] = l]
  BY DEF WriteInclude, Failing, Goto
<1>4. siteconf' \in {siteconf, [siteconf EXCEPT ![D(r)] = [blocks |-> {}, include |-> TRUE]]}
  BY DEF WriteInclude
<1>5. PanelTypeOK'
  <2>1. siteconf' \in [Domain -> Conf]
    BY <1>1, <1>2, <1>4, PanelTyped DEF PanelTypeOK
  <2>2. QED
    BY <1>1, <1>3, <2>1 DEF PanelTypeOK, HasRead, Busy
<1>6. ASSUME r \notin excused' PROVE PanelKnows(r)'
  <2>1. PanelKnows(r)
    BY <1>1, <1>6 DEF PanelInv
  <2>2. QED
    BY <1>1, <1>3, <2>1 DEF PanelKnows, KeptInclude, KeptSnippet, KeptRows, PanelTypeOK, D,
       Asking, HasRead
<1>7. QED
  BY <1>1, <1>2, <1>3, <1>4, <1>5, <1>6, OthersKnow DEF PanelTypeOK

LEMMA WriteRowKeeps == ASSUME PanelInv, NEW r \in Request, WriteRow(r) PROVE PanelInv'
<1>1. /\ PanelTypeOK /\ Busy(r) /\ pc[r] = "row"
      /\ UNCHANGED <<op, alone, before, unheard, excused, siteconf, snippet, mine>>
  BY DEF PanelInv, WriteRow, Failing, Goto, Busy, Answer
<1>2. D(r) \in Domain
  BY <1>1, AskedDomain
<1>3. PICK l \in {"test", "back1"} :
         pc' = [pc EXCEPT ![r] = l] /\ rows' \in {rows, [rows EXCEPT ![D(r)] = r]}
  BY DEF WriteRow, Failing, Goto
<1>4. PanelTypeOK'
  BY <1>1, <1>2, <1>3 DEF PanelTypeOK, HasRead, Busy, Writer, RowSet
<1>5. ASSUME r \notin excused' PROVE PanelKnows(r)'
  <2>1. PanelKnows(r)
    BY <1>1, <1>5 DEF PanelInv
  <2>2. QED
    BY <1>1, <1>3, <2>1 DEF PanelKnows, KeptInclude, KeptSnippet, KeptRows, PanelTypeOK, D,
       Asking, HasRead
<1>6. QED
  BY <1>1, <1>3, <1>4, <1>5, OthersKnow DEF PanelTypeOK

LEMMA TestNginxKeeps == ASSUME PanelInv, NEW r \in Request, TestNginx(r) PROVE PanelInv'
<1>1. /\ PanelTypeOK /\ Busy(r) /\ pc[r] = "test"
      /\ UNCHANGED <<op, alone, before, unheard, excused, siteconf, snippet, rows, mine>>
  BY DEF PanelInv, TestNginx, Failing, Goto, Busy, Answer, panelVars
<1>2. PICK l \in {"done", "back1"} : pc' = [pc EXCEPT ![r] = l]
  BY DEF TestNginx, Failing, Goto
<1>3. PanelTypeOK'
  BY <1>1, <1>2 DEF PanelTypeOK, HasRead, Answer, Busy
<1>4. ASSUME Busy(r)', r \notin excused' PROVE PanelKnows(r)'
  <2>1. PanelKnows(r)
    BY <1>1, <1>4 DEF PanelInv
  <2>2. pc'[r] = "back1"
    BY <1>1, <1>2, <1>4 DEF PanelTypeOK, Busy, Answer
  <2>3. QED
    BY <1>1, <2>1, <2>2 DEF PanelKnows, KeptInclude, KeptSnippet, KeptRows, D, Asking, HasRead
<1>5. QED
  BY <1>1, <1>2, <1>3, <1>4, OthersKnow DEF PanelTypeOK

------------------------------------------------------------------------------
\* The rollback puts back what the request read before it wrote.
LEMMA BackConfKeeps == ASSUME PanelInv, NEW r \in Request, BackConf(r) PROVE PanelInv'
<1>1. /\ PanelTypeOK /\ Busy(r) /\ pc[r] = "back1" /\ pc' = [pc EXCEPT ![r] = "back2"]
      /\ UNCHANGED <<op, alone, before, unheard, snippet, rows, mine>>
  BY DEF PanelInv, BackConf, Skipped, Goto, Busy, Answer
<1>2. D(r) \in Domain
  BY <1>1, AskedDomain
<1>3. \/ siteconf' = [siteconf EXCEPT ![D(r)] = mine[r].conf] /\ excused' = excused
      \/ siteconf' = siteconf /\ excused' = excused \cup {r}
  BY DEF BackConf, Skipped
<1>4. PanelTypeOK'
  <2>1. mine[r].conf \in Conf
    BY <1>1 DEF PanelTypeOK, Local
  <2>2. siteconf' \in [Domain -> Conf]
    BY <1>1, <1>2, <1>3, <2>1 DEF PanelTypeOK
  <2>3. QED
    BY <1>1, <1>3, <2>2 DEF PanelTypeOK, HasRead, Busy
<1>5. ASSUME r \notin excused' PROVE PanelKnows(r)'
  <2>1. r \notin excused /\ siteconf'[D(r)] = mine[r].conf
    BY <1>1, <1>2, <1>3, <1>5 DEF PanelTypeOK
  <2>2. PanelKnows(r)
    BY <1>1, <2>1 DEF PanelInv
  <2>3. QED
    BY <1>1, <2>1, <2>2 DEF PanelKnows, KeptInclude, KeptSnippet, KeptRows, PanelTypeOK, D,
       Asking, HasRead
<1>6. QED
  BY <1>1, <1>2, <1>3, <1>4, <1>5, OthersKnow DEF PanelTypeOK

LEMMA BackRowsKeeps == ASSUME PanelInv, NEW r \in Request, BackRows(r) PROVE PanelInv'
<1>1. /\ PanelTypeOK /\ Busy(r) /\ pc[r] = "back2" /\ pc' = [pc EXCEPT ![r] = "back3"]
      /\ UNCHANGED <<op, alone, before, unheard, siteconf, snippet, mine>>
  BY DEF PanelInv, BackRows, Skipped, Goto, Busy, Answer
<1>2. \/ "rows" \notin mine[r].read /\ rows' = rows /\ excused' = excused
      \/ rows' = mine[r].rows /\ excused' = excused
      \/ rows' = rows /\ excused' = excused \cup {r}
  BY DEF BackRows, Skipped
<1>3. PanelTypeOK'
  <2>1. mine[r].rows \in RowSet
    BY <1>1 DEF PanelTypeOK, Local
  <2>2. QED
    BY <1>1, <1>2, <2>1 DEF PanelTypeOK, HasRead, Busy
<1>4. ASSUME r \notin excused' PROVE PanelKnows(r)'
  <2>1. r \notin excused /\ PanelKnows(r)
    BY <1>1, <1>2, <1>4 DEF PanelInv
  <2>2. rows' = mine[r].rows
    BY <1>1, <1>2, <1>4, <2>1 DEF PanelKnows, HasRead
  <2>3. QED
    BY <1>1, <2>1, <2>2 DEF PanelKnows, KeptInclude, KeptSnippet, KeptRows, PanelTypeOK, D,
       Asking, HasRead
<1>5. QED
  BY <1>1, <1>2, <1>3, <1>4, OthersKnow DEF PanelTypeOK

LEMMA BackSnippetKeeps == ASSUME PanelInv, NEW r \in Request, BackSnippet(r) PROVE PanelInv'
<1>1. /\ PanelTypeOK /\ Busy(r) /\ pc[r] = "back3" /\ pc' = [pc EXCEPT ![r] = "restore"]
      /\ UNCHANGED <<op, alone, before, unheard, siteconf, rows, mine>>
  BY DEF PanelInv, BackSnippet, Skipped, Goto, Busy, Answer
<1>2. D(r) \in Domain
  BY <1>1, AskedDomain
<1>3. \/ "snippet" \notin mine[r].read /\ snippet' = snippet /\ excused' = excused
      \/ snippet' = [snippet EXCEPT ![D(r)] = mine[r].snippet] /\ excused' = excused
      \/ snippet' = snippet /\ excused' = excused \cup {r}
  BY DEF BackSnippet, Skipped
<1>4. PanelTypeOK'
  <2>1. mine[r].snippet \in Writer
    BY <1>1 DEF PanelTypeOK, Local
  <2>2. QED
    BY <1>1, <1>2, <1>3, <2>1 DEF PanelTypeOK, Busy
<1>5. ASSUME r \notin excused' PROVE PanelKnows(r)'
  <2>1. r \notin excused /\ PanelKnows(r)
    BY <1>1, <1>3, <1>5 DEF PanelInv
  <2>2. snippet'[D(r)] = mine[r].snippet
    BY <1>1, <1>2, <1>3, <1>5, <2>1 DEF PanelKnows, HasRead, PanelTypeOK
  <2>3. QED
    BY <1>1, <2>1, <2>2 DEF PanelKnows, KeptInclude, KeptSnippet, KeptRows, PanelTypeOK, D,
       Asking, HasRead
<1>6. QED
  BY <1>1, <1>2, <1>3, <1>4, <1>5, OthersKnow DEF PanelTypeOK

LEMMA RestoreKeeps == ASSUME PanelInv, NEW r \in Request, Restore(r) PROVE PanelInv'
<1>1. /\ PanelTypeOK /\ Busy(r) /\ pc' = [pc EXCEPT ![r] = "failed"]
      /\ UNCHANGED <<op, alone, before, unheard, snippet, rows, mine>>
  BY DEF PanelInv, Restore, Skipped, Goto, Busy, Answer
<1>2. D(r) \in Domain
  BY <1>1, AskedDomain
<1>3. /\ siteconf' \in {siteconf, [siteconf EXCEPT ![D(r)] = mine[r].first]}
      /\ excused' \in {excused, excused \cup {r}}
  BY DEF Restore, Skipped
<1>4. PanelTypeOK'
  <2>1. mine[r].first \in Conf
    BY <1>1 DEF PanelTypeOK, Local
  <2>2. siteconf' \in [Domain -> Conf]
    BY <1>1, <1>2, <1>3, <2>1 DEF PanelTypeOK
  <2>3. QED
    BY <1>1, <1>3, <2>2 DEF PanelTypeOK, Answer, Busy
<1>5. ~Busy(r)'
  BY <1>1 DEF PanelTypeOK, Busy, Answer
<1>6. QED
  BY <1>1, <1>2, <1>3, <1>4, <1>5, OthersKnow DEF PanelTypeOK

------------------------------------------------------------------------------
LEMMA PanelDiesKeeps == ASSUME PanelInv, NEW r \in Request, PanelDies(r) PROVE PanelInv'
<1>1. /\ PanelTypeOK /\ Busy(r) /\ pc' = [pc EXCEPT ![r] = "dead"]
      /\ UNCHANGED <<op, alone, before, unheard, excused, siteconf, snippet, rows, mine>>
  BY DEF PanelInv, PanelDies, Dies, Failing, Goto, panelVars
<1>2. PanelTypeOK'
  BY <1>1 DEF PanelTypeOK, Answer, Busy
<1>3. ~Busy(r)'
  BY <1>1 DEF PanelTypeOK, Busy, Answer
<1>4. QED
  BY <1>1, <1>2, <1>3, OthersKnow DEF PanelTypeOK

\* A request that begins has changed nothing, and excuses those it overlaps on its domain.
LEMMA PanelAskKeeps == ASSUME PanelInv, NEW r \in Request, PanelAsk(r) PROVE PanelInv'
<1>1. PICK d \in Domain :
         /\ Begin(r, [do |-> "attach", dom |-> d], "scrub")
         /\ LET same == {q \in Request : Busy(q) /\ D(q) = d}
            IN  excused' = IF same = {} THEN excused ELSE excused \cup same \cup {r}
  BY DEF PanelAsk
<1> DEFINE same == {q \in Request : Busy(q) /\ D(q) = d}
           o    == [do |-> "attach", dom |-> d]
           was  == [conf |-> siteconf[d], snippet |-> snippet[d], rows |-> rows]
<1>2. PanelTypeOK /\ ~Busy(r)
  BY <1>1 DEF PanelInv, Begin, Busy
<1>3. excused' \in {excused, excused \cup same \cup {r}}
  BY <1>1
<1>4. \A q \in Request : Busy(q) /\ D(q) = d => q \in excused' /\ r \in excused'
  BY <1>1
<1>5. o \in Attach /\ o.dom = d
  BY PanelTyped
<1>6. op' = [op EXCEPT ![r] = o] /\ pc' = [pc EXCEPT ![r] = "scrub"]
      /\ alone' = (alone /\ Resting)
  BY <1>1 DEF Begin
<1>7. before' = [before EXCEPT ![r] = was]
  BY <1>2, <1>5, <1>6 DEF PanelAsk, Files, PanelTypeOK
<1>8. UNCHANGED <<siteconf, snippet, rows, mine, unheard>>
  BY DEF PanelAsk
<1>9. was \in [conf : Conf, snippet : Writer, rows : RowSet]
      /\ was.conf = siteconf[d] /\ was.snippet = snippet[d] /\ was.rows = rows
  BY <1>2 DEF PanelTypeOK
<1> HIDE DEF o, was
<1>10. PanelTypeOK'
  BY <1>2, <1>3, <1>5, <1>6, <1>7, <1>8, <1>9 DEF PanelTypeOK, Asking, Busy
<1>11. \A q \in Request \ {r} : /\ Busy(q)' = Busy(q) /\ D(q)' = D(q) /\ pc'[q] = pc[q]
                                /\ before'[q] = before[q]
  BY <1>2, <1>6, <1>7 DEF PanelTypeOK, Busy, D
<1>12. D(r)' = d /\ pc'[r] = "scrub" /\ before'[r] = was
  BY <1>2, <1>5, <1>6, <1>7 DEF PanelTypeOK, D
<1>13. ApartInv'
  <2> SUFFICES ASSUME NEW p \in Request, NEW q \in Request, Busy(p)', Busy(q)', p # q
               PROVE  ~alone' /\ (D(p)' = D(q)' => q \in excused')
    BY DEF ApartInv
  <2>1. CASE p # r /\ q # r
    BY <1>3, <1>6, <1>11, <2>1 DEF PanelInv, ApartInv
  <2>2. CASE p = r
    BY <1>4, <1>6, <1>11, <1>12, <2>2 DEF Resting
  <2>3. CASE q = r
    BY <1>4, <1>6, <1>11, <1>12, <2>3 DEF Resting
  <2>4. QED
    BY <2>1, <2>2, <2>3
<1>14. ASSUME NEW q \in Request, Busy(q)', q \notin excused' PROVE PanelKnows(q)'
  <2>1. CASE q = r
    BY <1>8, <1>9, <1>12, <2>1 DEF PanelKnows, KeptInclude, KeptSnippet, KeptRows, HasRead,
       Asking
  <2>2. CASE q # r
    <3>1. PanelKnows(q)
      BY <1>3, <1>11, <1>14, <2>2 DEF PanelInv
    <3>2. QED
      BY <1>6, <1>8, <1>11, <2>2, <3>1 DEF PanelKnows, KeptInclude, KeptSnippet, KeptRows
  <2>3. QED
    BY <2>1, <2>2
<1>15. QED
  BY <1>10, <1>13, <1>14 DEF PanelInv

------------------------------------------------------------------------------
LEMMA PanelStep == ASSUME PanelInv, [PanelNext]_allPanelVars PROVE PanelInv'
<1>1. CASE PanelNext
  BY <1>1, PanelAskKeeps, PanelDiesKeeps, ScrubKeeps, PanelTriesKeeps, AddMapKeeps,
     ReadFilesKeeps, WriteSnippetKeeps, WriteIncludeKeeps, WriteRowKeeps, TestNginxKeeps,
     BackConfKeeps, BackRowsKeeps, BackSnippetKeeps, RestoreKeeps DEF PanelNext
<1>2. CASE UNCHANGED allPanelVars
  <2> USE <1>2 DEF allPanelVars, reqVars, panelVars
  <2>1. PanelTypeOK' /\ ApartInv'
    BY DEF PanelInv, PanelTypeOK, ApartInv, Busy, D
  <2>2. \A r \in Request : Busy(r)' = Busy(r) /\ PanelKnows(r)' = PanelKnows(r)
    BY DEF Busy, PanelKnows, KeptInclude, KeptSnippet, KeptRows, D
  <2>3. QED
    BY <2>1, <2>2 DEF PanelInv
<1>3. QED
  BY <1>1, <1>2

\* What an attachment still has, or holds a copy of, step by step: what it found, or what the
\* panel made of it without being heard.
THEOREM PanelSafe == PanelSpec => []PanelInv
BY PanelInitial, PanelStep, PTL DEF PanelSpec

\* An attachment that fails leaves its domain the snippet, the include and the inline blocks
\* it had, and the list its rows when no other request ran beside it (aapanel.py 336-399);
\* if the panel attached the proxy and the answer was lost, each of the files but the blocks
\* may be the panel's instead, and nothing else.
THEOREM FailedAttachAlwaysRestores == PanelSpec => FailedAttachRestores
<1> DEFINE Restores ==
       \A r \in Request :
          op[r].do = "attach" /\ pc'[r] = "failed" /\ pc[r] # "failed" /\ r \notin excused'
          => LET was == before[r]
                 d == D(r)
                 Keeps(new, old, panels) == new = old \/ (r \in unheard /\ new = panels)
             IN  /\ Keeps(snippet'[d], was.snippet, r)
                 /\ Keeps(siteconf'[d].include, was.conf.include, TRUE)
                 /\ was.conf.blocks \subseteq siteconf'[d].blocks
                 /\ alone' => Keeps(rows', was.rows, [was.rows EXCEPT ![d] = r])
<1>1. PanelInv /\ [PanelNext]_allPanelVars => [Restores]_allPanelVars
  <2> SUFFICES ASSUME PanelInv, PanelNext, NEW r \in Request, pc'[r] = "failed",
                      pc[r] # "failed", r \notin excused'
               PROVE  /\ KeptSnippet(r, snippet'[D(r)])
                      /\ KeptInclude(r, siteconf'[D(r)].include)
                      /\ before[r].conf.blocks \subseteq siteconf'[D(r)].blocks
                      /\ alone' => KeptRows(r, rows')
    BY DEF KeptSnippet, KeptInclude, KeptRows
  <2>1. PanelTypeOK
    BY DEF PanelInv
  <2>2. PICK q \in Request :
           \/ PanelAsk(q) \/ PanelDies(q) \/ Scrub(q) \/ PanelTries(q) \/ AddMap(q)
           \/ ReadFiles(q) \/ WriteSnippet(q) \/ WriteInclude(q) \/ WriteRow(q) \/ TestNginx(q)
           \/ BackConf(q) \/ BackRows(q) \/ BackSnippet(q) \/ Restore(q)
    BY DEF PanelNext
  <2>3. CASE Restore(q)
    <3>1. q = r /\ Busy(r) /\ pc[r] = "restore"
      BY <2>1, <2>3 DEF Restore, Goto, PanelTypeOK, Busy, Answer
    <3>2. r \notin excused /\ UNCHANGED <<snippet, rows, alone>>
      BY <2>3, <3>1 DEF Restore, Skipped, Goto
    <3>3. PanelKnows(r) /\ D(r) \in Domain
      BY <2>1, <3>1, <3>2, AskedDomain DEF PanelInv
    <3>4. \/ mine[r].first.blocks = {} /\ siteconf' = siteconf
          \/ siteconf' = [siteconf EXCEPT ![D(r)] = mine[r].first]
      BY <2>3, <3>1, <3>2 DEF Restore, Skipped
    <3>5. mine[r].first = before[r].conf
      BY <3>1, <3>3 DEF PanelKnows
    <3>6. /\ KeptInclude(r, siteconf[D(r)].include) /\ KeptSnippet(r, snippet[D(r)])
          /\ alone => KeptRows(r, rows)
      BY <3>1, <3>3 DEF PanelKnows
    <3>7. /\ KeptInclude(r, siteconf'[D(r)].include)
          /\ before[r].conf.blocks \subseteq siteconf'[D(r)].blocks
      BY <2>1, <3>3, <3>4, <3>5, <3>6 DEF KeptInclude, PanelTypeOK
    <3>8. QED
      BY <3>2, <3>6, <3>7 DEF KeptSnippet, KeptRows
  <2>4. CASE ~Restore(q)
    <3>1. \E l \in Asking \cup HasRead \cup {"dead", "done", "restore"} : pc' = [pc EXCEPT ![q] = l]
      BY <2>2, <2>4 DEF PanelAsk, PanelDies, Scrub, PanelTries, AddMap, ReadFiles, WriteSnippet,
         WriteInclude, WriteRow, TestNginx, BackConf, BackRows, BackSnippet, Begin, Dies,
         Failing, Goto, Asking, HasRead
    <3>2. QED
      BY <2>1, <3>1 DEF PanelTypeOK, Asking, HasRead
  <2>5. QED
    BY <2>3, <2>4
<1>2. QED
  BY <1>1, PanelSafe, PTL DEF PanelSpec, FailedAttachRestores

------------------------------------------------------------------------------
(* The replacement of webapps/ROOT.  RootSwap.tla.                         *)

Asked   == [do : {"deploy", "upload", "migrate"}, war : Upload, pid : Process]
RootOps == [do : {"none"}] \cup Asked
TreeSet == [of : SUBSET (Upload \cup {"first"}), whole : BOOLEAN]
Labels  == Answer \cup {"idle", "claim", "migrate", "clean", "unpack", "unpacked", "aside",
                        "promote", "rollback", "discard", "drop", "restart"}

RootTypeOK ==
    /\ pc \in [Request -> Labels]
    /\ op \in [Request -> RootOps]
    /\ \A r \in Request : pc[r] # "idle" => op[r] \in Asked
    /\ trees \in [Place -> TreeSet]
    /\ crowded \in BOOLEAN /\ stranded \in BOOLEAN

\* From its cleaning on, a deploy has the two names of its process in hand.
InHand(r) == Deploying(r) /\ pc[r] # "clean"
Sound(t)  == t.whole \/ t = Absent

\* Two deploys that have their names in hand are of different processes.
SoloInv == \A q, r \in Request : InHand(q) /\ InHand(r) /\ q # r => op[q].pid # op[r].pid

\* What stands under the names of a deploy, step by step.
NamesInv(r) ==
    /\ pc[r] = "unpack" => trees[Staging(r)] = Absent
    /\ pc[r] = "unpacked" => trees[Staging(r)] = Part({op[r].war})
    /\ pc[r] \in {"aside", "promote"} => trees[Staging(r)] = Tree(op[r].war)
    /\ pc[r] \in {"unpack", "unpacked", "aside"} => trees[Backup(r)] = Absent
    /\ pc[r] \in {"promote", "rollback"} => Sound(trees[Backup(r)])

\* Who has moved ROOT away still has it, until he has put something there.
Holding(r) == pc[r] = "dead" \/ (pc[r] \in {"promote", "rollback"} /\ trees[Backup(r)] # Absent)
MissingInv == trees[ROOT] = Absent => stranded \/ \E r \in Request : Holding(r)

\* The service runs what stands at ROOT, or a deploy is between the two or has failed.
Unsettled(r) == pc[r] \in {"promote", "rollback", "discard", "drop", "restart", "failed", "dead"}
LoadedInv    == loaded = trees[ROOT] \/ \E r \in Request : Unsettled(r)

SwapInv == Sound(trees[ROOT]) /\ SoloInv /\ MissingInv /\ \A r \in Request : NamesInv(r)

RootInv == RootTypeOK /\ LoadedInv /\ (~crowded => SwapInv)

------------------------------------------------------------------------------
LEMMA AskedTyped ==
    /\ [do |-> "none"] \in RootOps /\ Asked \subseteq RootOps
    /\ \A d \in {"deploy", "upload", "migrate"}, w \in Upload, p \in Process :
          [do |-> d, war |-> w, pid |-> p] \in Asked
    /\ \A o \in Asked : o.war \in Upload /\ o.pid \in Process
BY DEF Asked, RootOps

\* The names of two processes are different, and none is ROOT.
LEMMA Places ==
    ASSUME NEW q \in Request, NEW r \in Request, op[q] \in Asked, op[r] \in Asked
    PROVE  /\ {ROOT, Staging(r), Backup(r)} \subseteq Place
           /\ Staging(r) # ROOT /\ Backup(r) # ROOT /\ Staging(r) # Backup(q)
           /\ op[q].pid # op[r].pid => Staging(q) # Staging(r) /\ Backup(q) # Backup(r)
BY AskedTyped DEF ROOT, Staging, Backup, Place

LEMMA RootPlace == ROOT \in Place
BY DEF Place

\* What the trees are made of.
LEMMA Trees ==
    /\ Absent \in TreeSet /\ ~Absent.whole
    /\ \A v \in Upload \cup {"first"} : Tree(v) \in TreeSet /\ Tree(v).whole /\ Tree(v) # Absent
    /\ \A t \in TreeSet, w \in Upload :
          Part(t.of \cup {w}) \in TreeSet /\ Part(t.of \cup {w}) # Absent /\ Part(t.of) \in TreeSet
    /\ \A w \in Upload : Part(Absent.of \cup {w}) = Part({w}) /\ Part({w}) # Absent
    /\ \A t \in TreeSet : \A u \in Remains(t) : u \in TreeSet
<1>1. Absent \in TreeSet /\ ~Absent.whole
  BY DEF Absent, TreeSet
<1>2. \A v \in Upload \cup {"first"} : Tree(v) \in TreeSet /\ Tree(v).whole /\ Tree(v) # Absent
  BY DEF Absent, Tree, TreeSet
<1>3. \A t \in TreeSet : t.of \in SUBSET (Upload \cup {"first"})
  BY DEF TreeSet
<1>4. \A s \in SUBSET (Upload \cup {"first"}) : Part(s) \in TreeSet
  BY DEF Part, TreeSet
<1>5. \A s \in SUBSET (Upload \cup {"first"}), w \in Upload : Part(s \cup {w}) # Absent
  <2> SUFFICES ASSUME NEW s \in SUBSET (Upload \cup {"first"}), NEW w \in Upload
               PROVE  Part(s \cup {w}).of # Absent.of
    OBVIOUS
  <2>1. QED
    BY DEF Part, Absent
<1>6. \A w \in Upload : Part(Absent.of \cup {w}) = Part({w}) /\ Part({w}) # Absent
  BY <1>5 DEF Absent
<1>7. \A t \in TreeSet : \A u \in Remains(t) : u \in TreeSet
  BY <1>1, <1>3, <1>4 DEF Remains
<1>8. QED
  BY <1>1, <1>2, <1>3, <1>4, <1>5, <1>6, <1>7

\* The initial states satisfy the invariant.
LEMMA RootInitial == RootInit => RootInv
<1> SUFFICES ASSUME RootInit PROVE RootInv
  OBVIOUS
<1>1. RootTypeOK
  BY AskedTyped, Trees DEF RootInit, NoRequest, RootTypeOK, Labels
<1>2. trees[ROOT] = Tree("first") /\ loaded = Tree("first")
  BY RootPlace DEF RootInit
<1>3. LoadedInv /\ Sound(trees[ROOT]) /\ MissingInv
  BY <1>2, Trees DEF LoadedInv, MissingInv, Sound
<1>4. SoloInv /\ \A r \in Request : NamesInv(r)
  BY DEF RootInit, NoRequest, SoloInv, NamesInv, InHand, Deploying
<1>5. QED
  BY <1>1, <1>3, <1>4 DEF RootInv, SwapInv

------------------------------------------------------------------------------
\* A step of one deploy, at ROOT and under its own names, leaves alone what the others have
\* in hand.
LEMMA OthersNames ==
    ASSUME RootTypeOK, SoloInv, UNCHANGED op, NEW r \in Request, pc[r] # "idle",
           trees' = trees \/ InHand(r),
           \A p \in Place \ {ROOT, Staging(r), Backup(r)} : trees'[p] = trees[p],
           NEW q \in Request, q # r, InHand(q)
    PROVE  /\ Staging(q)' = Staging(q) /\ trees'[Staging(q)] = trees[Staging(q)]
           /\ Backup(q)' = Backup(q) /\ trees'[Backup(q)] = trees[Backup(q)]
<1>1. op[q] \in Asked /\ op[r] \in Asked
  BY DEF RootTypeOK, InHand, Deploying
<1>2. Staging(q)' = Staging(q) /\ Backup(q)' = Backup(q)
  BY DEF Staging, Backup
<1>3. CASE InHand(r)
  <2>1. op[q].pid # op[r].pid
    BY <1>3 DEF SoloInv
  <2>2. /\ Staging(q) \in Place \ {ROOT, Staging(r), Backup(r)}
        /\ Backup(q) \in Place \ {ROOT, Staging(r), Backup(r)}
    BY <1>1, <2>1, Places
  <2>3. QED
    BY <1>2, <2>2
<1>4. QED
  BY <1>2, <1>3

\* Who holds what stood at ROOT goes on holding it while others work.
LEMMA HoldersStay ==
    ASSUME RootTypeOK, SoloInv, MissingInv, UNCHANGED op, NEW r \in Request, pc[r] # "idle",
           ~Holding(r), trees' = trees \/ InHand(r),
           \A p \in Place \ {ROOT, Staging(r), Backup(r)} : trees'[p] = trees[p],
           trees'[ROOT] = trees[ROOT], stranded => stranded',
           \A q \in Request \ {r} : pc'[q] = pc[q]
    PROVE  MissingInv'
<1> SUFFICES ASSUME trees[ROOT] = Absent, ~stranded PROVE \E q \in Request : Holding(q)'
  BY DEF MissingInv
<1>1. PICK q \in Request : Holding(q)
  BY DEF MissingInv
<1>2. q # r /\ pc'[q] = pc[q]
  BY <1>1
<1>3. CASE pc[q] = "dead"
  BY <1>2, <1>3 DEF Holding
<1>4. CASE pc[q] # "dead"
  <2>1. pc[q] \in {"promote", "rollback"} /\ trees[Backup(q)] # Absent
    BY <1>1, <1>4 DEF Holding
  <2>2. InHand(q)
    BY <2>1 DEF InHand, Deploying
  <2>3. Backup(q)' = Backup(q) /\ trees'[Backup(q)] = trees[Backup(q)]
    BY <1>2, <2>2, OthersNames
  <2>4. Holding(q)'
    BY <1>2, <2>1, <2>3 DEF Holding
  <2>5. QED
    BY <2>4
<1>5. QED
  BY <1>3, <1>4

\* A step of one deploy has ROOT, its own names and its holding of ROOT to keep.
LEMMA OwnStep ==
    ASSUME RootInv, RootTypeOK', LoadedInv', UNCHANGED <<op, crowded>>,
           NEW r \in Request, pc[r] # "idle", trees' = trees \/ InHand(r), InHand(r)' => InHand(r),
           \A p \in Place \ {ROOT, Staging(r), Backup(r)} : trees'[p] = trees[p],
           \A q \in Request \ {r} : pc'[q] = pc[q],
           SwapInv => NamesInv(r)' /\ Sound(trees[ROOT])' /\ MissingInv'
    PROVE  RootInv'
<1> SUFFICES ASSUME ~crowded PROVE SwapInv'
  BY DEF RootInv
<1>1. SwapInv /\ RootTypeOK
  BY DEF RootInv
<1>2. SoloInv'
  BY <1>1 DEF SwapInv, SoloInv, InHand, Deploying
<1>3. ASSUME NEW q \in Request, q # r PROVE NamesInv(q)'
  <2>1. NamesInv(q) /\ pc'[q] = pc[q] /\ op' = op
    BY <1>1, <1>3 DEF SwapInv
  <2>2. CASE InHand(q)
    <3>1. /\ Staging(q)' = Staging(q) /\ trees'[Staging(q)] = trees[Staging(q)]
          /\ Backup(q)' = Backup(q) /\ trees'[Backup(q)] = trees[Backup(q)]
      BY <1>1, <1>3, <2>2, OthersNames DEF SwapInv
    <3>2. QED
      BY <2>1, <3>1 DEF NamesInv
  <2>3. CASE ~InHand(q)
    BY <2>1, <2>3 DEF NamesInv, InHand, Deploying
  <2>4. QED
    BY <2>2, <2>3
<1>4. QED
  BY <1>1, <1>2, <1>3 DEF SwapInv

------------------------------------------------------------------------------
\* How a step is written: where it goes next, and what it leaves alone.
USE DEF Goto, rootVars

LEMMA ClaimKeeps == ASSUME RootInv, NEW r \in Request, Claim(r) PROVE RootInv'
<1>1. /\ RootTypeOK /\ LoadedInv /\ pc[r] # "idle" /\ op[r] \in Asked
      /\ op[r].war \in Upload
  BY AskedTyped DEF RootInv, RootTypeOK, Claim
<1>2. /\ {ROOT, Staging(r), Backup(r)} \subseteq Place
      /\ ROOT # Staging(r) /\ ROOT # Backup(r) /\ Staging(r) # Backup(r)
      /\ Staging(r)' = Staging(r) /\ Backup(r)' = Backup(r)
  <2>1. op' = op
    BY DEF Claim
  <2>2. QED
    BY <1>1, <2>1, Places DEF Staging, Backup
<1>3. /\ UNCHANGED <<op, crowded>> /\ (InHand(r)' => InHand(r))
      /\ \A q \in Request \ {r} : pc'[q] = pc[q]
      /\ \A p \in Place \ {ROOT, Staging(r), Backup(r)} : trees'[p] = trees[p]
  BY <1>1, <1>2 DEF RootTypeOK, InHand, Deploying, Claim
<1>4. RootTypeOK'
  BY <1>1 DEF RootTypeOK, Labels, Answer, Claim
<1>5. LoadedInv'
  BY <1>1, <1>2 DEF RootTypeOK, LoadedInv, Unsettled, Claim
<1>6. ASSUME SwapInv PROVE NamesInv(r)' /\ Sound(trees[ROOT])' /\ MissingInv'
  <2>1. NamesInv(r)'
    BY <1>1 DEF RootTypeOK, NamesInv, Claim
  <2>2. Sound(trees[ROOT])'
    BY <1>6 DEF SwapInv, Sound, Claim
  <2>3. MissingInv'
    BY <1>1, <1>2, <1>3, <1>6, HoldersStay DEF SwapInv, RootTypeOK, Holding, Claim
  <2>4. QED
    BY <2>1, <2>2, <2>3
<1>7. QED
  BY <1>1, <1>3, <1>4, <1>5, <1>6, OwnStep DEF Claim

LEMMA MigrateKeeps == ASSUME RootInv, NEW r \in Request, Migrate(r) PROVE RootInv'
<1>1. /\ RootTypeOK /\ LoadedInv /\ pc[r] # "idle" /\ op[r] \in Asked
      /\ op[r].war \in Upload
  BY AskedTyped DEF RootInv, RootTypeOK, Migrate
<1>2. /\ {ROOT, Staging(r), Backup(r)} \subseteq Place
      /\ ROOT # Staging(r) /\ ROOT # Backup(r) /\ Staging(r) # Backup(r)
      /\ Staging(r)' = Staging(r) /\ Backup(r)' = Backup(r)
  <2>1. op' = op
    BY DEF Migrate, Failing
  <2>2. QED
    BY <1>1, <2>1, Places DEF Staging, Backup
<1>3. /\ UNCHANGED <<op, crowded>> /\ (InHand(r)' => InHand(r))
      /\ \A q \in Request \ {r} : pc'[q] = pc[q]
      /\ \A p \in Place \ {ROOT, Staging(r), Backup(r)} : trees'[p] = trees[p]
  BY <1>1, <1>2 DEF RootTypeOK, InHand, Deploying, Migrate, Failing
<1>4. RootTypeOK'
  BY <1>1 DEF RootTypeOK, Labels, Answer, Migrate, Failing
<1>5. LoadedInv'
  BY <1>1, <1>2 DEF RootTypeOK, LoadedInv, Unsettled, Migrate, Failing
<1>6. ASSUME SwapInv PROVE NamesInv(r)' /\ Sound(trees[ROOT])' /\ MissingInv'
  <2>1. NamesInv(r)'
    BY <1>1 DEF RootTypeOK, NamesInv, Migrate, Failing
  <2>2. Sound(trees[ROOT])'
    BY <1>6 DEF SwapInv, Sound, Migrate, Failing
  <2>3. MissingInv'
    BY <1>1, <1>2, <1>3, <1>6, HoldersStay DEF SwapInv, RootTypeOK, Holding, Migrate, Failing
  <2>4. QED
    BY <2>1, <2>2, <2>3
<1>7. QED
  BY <1>1, <1>3, <1>4, <1>5, <1>6, OwnStep DEF Migrate

LEMMA RestartKeeps == ASSUME RootInv, NEW r \in Request, Restart(r) PROVE RootInv'
<1>1. /\ RootTypeOK /\ LoadedInv /\ pc[r] # "idle" /\ op[r] \in Asked
      /\ op[r].war \in Upload
  BY AskedTyped DEF RootInv, RootTypeOK, Restart
<1>2. /\ {ROOT, Staging(r), Backup(r)} \subseteq Place
      /\ ROOT # Staging(r) /\ ROOT # Backup(r) /\ Staging(r) # Backup(r)
      /\ Staging(r)' = Staging(r) /\ Backup(r)' = Backup(r)
  <2>1. op' = op
    BY DEF Restart, Failing
  <2>2. QED
    BY <1>1, <2>1, Places DEF Staging, Backup
<1>3. /\ UNCHANGED <<op, crowded>> /\ (InHand(r)' => InHand(r))
      /\ \A q \in Request \ {r} : pc'[q] = pc[q]
      /\ \A p \in Place \ {ROOT, Staging(r), Backup(r)} : trees'[p] = trees[p]
  BY <1>1, <1>2 DEF RootTypeOK, InHand, Deploying, Restart, Failing
<1>4. RootTypeOK'
  BY <1>1 DEF RootTypeOK, Labels, Answer, Restart, Failing
<1>5. LoadedInv'
  BY <1>1, <1>2 DEF RootTypeOK, LoadedInv, Unsettled, Restart, Failing
<1>6. ASSUME SwapInv PROVE NamesInv(r)' /\ Sound(trees[ROOT])' /\ MissingInv'
  <2>1. NamesInv(r)'
    BY <1>1 DEF RootTypeOK, NamesInv, Restart, Failing
  <2>2. Sound(trees[ROOT])'
    BY <1>6 DEF SwapInv, Sound, Restart, Failing
  <2>3. MissingInv'
    BY <1>1, <1>2, <1>3, <1>6, HoldersStay DEF SwapInv, RootTypeOK, Holding, Restart, Failing
  <2>4. QED
    BY <2>1, <2>2, <2>3
<1>7. QED
  BY <1>1, <1>3, <1>4, <1>5, <1>6, OwnStep DEF Restart

LEMMA UnpackSomeKeeps == ASSUME RootInv, NEW r \in Request, UnpackSome(r) PROVE RootInv'
<1>1. /\ RootTypeOK /\ LoadedInv /\ pc[r] # "idle" /\ op[r] \in Asked
      /\ op[r].war \in Upload /\ InHand(r)
  BY AskedTyped DEF RootInv, RootTypeOK, InHand, Deploying, UnpackSome
<1>2. /\ {ROOT, Staging(r), Backup(r)} \subseteq Place
      /\ ROOT # Staging(r) /\ ROOT # Backup(r) /\ Staging(r) # Backup(r)
      /\ Staging(r)' = Staging(r) /\ Backup(r)' = Backup(r)
  <2>1. op' = op
    BY DEF UnpackSome, Failing
  <2>2. QED
    BY <1>1, <2>1, Places DEF Staging, Backup
<1>3. /\ UNCHANGED <<op, crowded>> /\ (InHand(r)' => InHand(r))
      /\ \A q \in Request \ {r} : pc'[q] = pc[q]
      /\ \A p \in Place \ {ROOT, Staging(r), Backup(r)} : trees'[p] = trees[p]
  BY <1>1, <1>2 DEF RootTypeOK, InHand, Deploying, UnpackSome, Failing
<1>4. RootTypeOK'
  <2>1. trees' \in [Place -> TreeSet]
    BY <1>1, <1>2, Trees DEF RootTypeOK, UnpackSome, Failing
  <2>2. pc' \in [Request -> Labels] /\ \A q \in Request : pc'[q] = "idle" => pc[q] = "idle"
    BY <1>1 DEF RootTypeOK, Labels, Answer, UnpackSome, Failing
  <2>3. QED
    BY <1>1, <1>3, <2>1, <2>2 DEF RootTypeOK, UnpackSome, Failing
<1>5. LoadedInv'
  BY <1>1, <1>2 DEF RootTypeOK, LoadedInv, Unsettled, UnpackSome, Failing
<1>6. ASSUME SwapInv PROVE NamesInv(r)' /\ Sound(trees[ROOT])' /\ MissingInv'
  <2>1. NamesInv(r)'
    BY <1>1, <1>2, <1>3, <1>6, Trees DEF SwapInv, RootTypeOK, NamesInv, Sound, UnpackSome,
       Failing
  <2>2. Sound(trees[ROOT])'
    BY <1>1, <1>2, <1>6 DEF SwapInv, RootTypeOK, Sound, UnpackSome, Failing
  <2>3. MissingInv'
    BY <1>1, <1>2, <1>3, <1>6, HoldersStay DEF SwapInv, RootTypeOK, Holding, UnpackSome, Failing
  <2>4. QED
    BY <2>1, <2>2, <2>3
<1>7. QED
  BY <1>1, <1>3, <1>4, <1>5, <1>6, OwnStep

LEMMA UnpackRestKeeps == ASSUME RootInv, NEW r \in Request, UnpackRest(r) PROVE RootInv'
<1>1. /\ RootTypeOK /\ LoadedInv /\ pc[r] # "idle" /\ op[r] \in Asked
      /\ op[r].war \in Upload /\ InHand(r)
  BY AskedTyped DEF RootInv, RootTypeOK, InHand, Deploying, UnpackRest
<1>2. /\ {ROOT, Staging(r), Backup(r)} \subseteq Place
      /\ ROOT # Staging(r) /\ ROOT # Backup(r) /\ Staging(r) # Backup(r)
      /\ Staging(r)' = Staging(r) /\ Backup(r)' = Backup(r)
  <2>1. op' = op
    BY DEF UnpackRest, Failing
  <2>2. QED
    BY <1>1, <2>1, Places DEF Staging, Backup
<1>3. /\ UNCHANGED <<op, crowded>> /\ (InHand(r)' => InHand(r))
      /\ \A q \in Request \ {r} : pc'[q] = pc[q]
      /\ \A p \in Place \ {ROOT, Staging(r), Backup(r)} : trees'[p] = trees[p]
  BY <1>1, <1>2 DEF RootTypeOK, InHand, Deploying, UnpackRest, Failing
<1>4. RootTypeOK'
  <2>1. trees' \in [Place -> TreeSet]
    BY <1>1, <1>2, Trees DEF RootTypeOK, UnpackRest, Failing
  <2>2. pc' \in [Request -> Labels] /\ \A q \in Request : pc'[q] = "idle" => pc[q] = "idle"
    BY <1>1 DEF RootTypeOK, Labels, Answer, UnpackRest, Failing
  <2>3. QED
    BY <1>1, <1>3, <2>1, <2>2 DEF RootTypeOK, UnpackRest, Failing
<1>5. LoadedInv'
  BY <1>1, <1>2 DEF RootTypeOK, LoadedInv, Unsettled, UnpackRest, Failing
<1>6. ASSUME SwapInv PROVE NamesInv(r)' /\ Sound(trees[ROOT])' /\ MissingInv'
  <2>1. NamesInv(r)'
    <3>1. trees[Backup(r)] = Absent /\ trees[Staging(r)] = Part({op[r].war})
      BY <1>1, <1>6 DEF SwapInv, NamesInv, UnpackRest
    <3>2. CASE pc'[r] = "aside"
      BY <1>1, <1>2, <1>3, <3>1, <3>2 DEF RootTypeOK, NamesInv, UnpackRest, Failing
    <3>3. CASE pc'[r] = "rollback"
      BY <1>2, <1>1, <3>1, <3>3 DEF RootTypeOK, NamesInv, Sound, UnpackRest, Failing
    <3>4. QED
      BY <1>1, <3>2, <3>3 DEF RootTypeOK, UnpackRest, Failing
  <2>2. Sound(trees[ROOT])'
    BY <1>1, <1>2, <1>6 DEF SwapInv, RootTypeOK, Sound, UnpackRest, Failing
  <2>3. MissingInv'
    BY <1>1, <1>2, <1>3, <1>6, HoldersStay DEF SwapInv, RootTypeOK, Holding, UnpackRest, Failing
  <2>4. QED
    BY <2>1, <2>2, <2>3
<1>7. QED
  BY <1>1, <1>3, <1>4, <1>5, <1>6, OwnStep

LEMMA MoveAsideKeeps == ASSUME RootInv, NEW r \in Request, MoveAside(r) PROVE RootInv'
<1>1. /\ RootTypeOK /\ LoadedInv /\ pc[r] # "idle" /\ op[r] \in Asked
      /\ op[r].war \in Upload /\ InHand(r)
  BY AskedTyped DEF RootInv, RootTypeOK, InHand, Deploying, MoveAside
<1>2. /\ {ROOT, Staging(r), Backup(r)} \subseteq Place
      /\ ROOT # Staging(r) /\ ROOT # Backup(r) /\ Staging(r) # Backup(r)
      /\ Staging(r)' = Staging(r) /\ Backup(r)' = Backup(r)
  <2>1. op' = op
    BY DEF MoveAside
  <2>2. QED
    BY <1>1, <2>1, Places DEF Staging, Backup
<1>3. /\ UNCHANGED <<op, crowded>> /\ (InHand(r)' => InHand(r))
      /\ \A q \in Request \ {r} : pc'[q] = pc[q]
      /\ \A p \in Place \ {ROOT, Staging(r), Backup(r)} : trees'[p] = trees[p]
  BY <1>1, <1>2 DEF RootTypeOK, InHand, Deploying, MoveAside
<1>4. RootTypeOK'
  <2>1. trees' \in [Place -> TreeSet]
    BY <1>1, <1>2, Trees DEF RootTypeOK, MoveAside
  <2>2. pc' \in [Request -> Labels] /\ \A q \in Request : pc'[q] = "idle" => pc[q] = "idle"
    BY <1>1 DEF RootTypeOK, Labels, Answer, MoveAside
  <2>3. QED
    BY <1>1, <1>3, <2>1, <2>2 DEF RootTypeOK, MoveAside
<1>5. LoadedInv'
  BY <1>1, <1>2 DEF RootTypeOK, LoadedInv, Unsettled, MoveAside
<1>6. ASSUME SwapInv PROVE NamesInv(r)' /\ Sound(trees[ROOT])' /\ MissingInv'
  <2>1. NamesInv(r)'
    <3>1. CASE pc'[r] = "promote"
      <4>1. trees'[Staging(r)] = Tree(op[r].war) /\ op' = op
        BY <1>1, <1>2, <1>3, <1>6 DEF SwapInv, RootTypeOK, NamesInv, MoveAside
      <4>2. trees'[Backup(r)] = trees[ROOT] \/ trees'[Backup(r)] = Absent
        BY <1>1, <1>2, <1>6, <3>1 DEF SwapInv, RootTypeOK, NamesInv, MoveAside
      <4>3. QED
        BY <1>2, <1>6, <3>1, <4>1, <4>2 DEF SwapInv, Sound, NamesInv
    <3>2. CASE pc'[r] = "rollback"
      <4>1. trees[Backup(r)] = Absent /\ UNCHANGED trees
        BY <1>1, <1>2, <1>6, <3>2 DEF SwapInv, RootTypeOK, NamesInv, MoveAside
      <4>2. QED
        BY <1>2, <3>2, <4>1 DEF NamesInv, Sound
    <3>3. QED
      BY <1>1, <3>1, <3>2 DEF RootTypeOK, MoveAside
  <2>2. Sound(trees[ROOT])'
    BY <1>1, <1>2, <1>6 DEF SwapInv, RootTypeOK, Sound, MoveAside
  <2>3. MissingInv'
    <3>1. CASE trees'[ROOT] = trees[ROOT]
      BY <1>1, <1>2, <1>3, <1>6, <3>1, HoldersStay DEF SwapInv, RootTypeOK, Holding, MoveAside
    <3>2. CASE trees'[ROOT] # trees[ROOT]
      <4>1. pc'[r] = "promote" /\ trees'[Backup(r)] # Absent
        BY <1>1, <1>2, <3>2 DEF RootTypeOK, MoveAside
      <4>2. QED
        BY <1>2, <4>1 DEF MissingInv, Holding
    <3>3. QED
      BY <3>1, <3>2
  <2>4. QED
    BY <2>1, <2>2, <2>3
<1>7. QED
  BY <1>1, <1>3, <1>4, <1>5, <1>6, OwnStep

LEMMA PromoteKeeps == ASSUME RootInv, NEW r \in Request, Promote(r) PROVE RootInv'
<1>1. /\ RootTypeOK /\ LoadedInv /\ pc[r] # "idle" /\ op[r] \in Asked
      /\ op[r].war \in Upload /\ InHand(r)
  BY AskedTyped DEF RootInv, RootTypeOK, InHand, Deploying, Promote
<1>2. /\ {ROOT, Staging(r), Backup(r)} \subseteq Place
      /\ ROOT # Staging(r) /\ ROOT # Backup(r) /\ Staging(r) # Backup(r)
      /\ Staging(r)' = Staging(r) /\ Backup(r)' = Backup(r)
  <2>1. op' = op
    BY DEF Promote
  <2>2. QED
    BY <1>1, <2>1, Places DEF Staging, Backup
<1>3. /\ UNCHANGED <<op, crowded>> /\ (InHand(r)' => InHand(r))
      /\ \A q \in Request \ {r} : pc'[q] = pc[q]
      /\ \A p \in Place \ {ROOT, Staging(r), Backup(r)} : trees'[p] = trees[p]
  BY <1>1, <1>2 DEF RootTypeOK, InHand, Deploying, Promote
<1>4. RootTypeOK'
  <2>1. trees' \in [Place -> TreeSet]
    BY <1>1, <1>2, Trees DEF RootTypeOK, Promote
  <2>2. pc' \in [Request -> Labels] /\ \A q \in Request : pc'[q] = "idle" => pc[q] = "idle"
    BY <1>1 DEF RootTypeOK, Labels, Answer, Promote
  <2>3. QED
    BY <1>1, <1>3, <2>1, <2>2 DEF RootTypeOK, Promote
<1>5. LoadedInv'
  BY <1>1, <1>2 DEF RootTypeOK, LoadedInv, Unsettled, Promote
<1>6. ASSUME SwapInv PROVE NamesInv(r)' /\ Sound(trees[ROOT])' /\ MissingInv'
  <2>1. NamesInv(r)'
    BY <1>1, <1>2, <1>3, <1>6, Trees DEF SwapInv, RootTypeOK, NamesInv, Sound, Promote
  <2>2. Sound(trees[ROOT])'
    <3>1. trees'[ROOT] = trees[ROOT] \/ trees'[ROOT] = Tree(op[r].war)
      BY <1>1, <1>2, <1>6 DEF SwapInv, NamesInv, RootTypeOK, Promote
    <3>2. QED
      BY <1>1, <1>6, <3>1, Trees DEF SwapInv, Sound
  <2>3. MissingInv'
    <3>1. CASE trees' = trees /\ pc'[r] = "rollback"
      BY <1>2, <1>3, <1>6, <3>1 DEF SwapInv, MissingInv, Holding, Promote, Backup
    <3>2. CASE trees'[ROOT] # Absent
      BY <3>2 DEF MissingInv
    <3>3. QED
      BY <1>1, <1>2, <3>1, <3>2 DEF RootTypeOK, Promote
  <2>4. QED
    BY <2>1, <2>2, <2>3
<1>7. QED
  BY <1>1, <1>3, <1>4, <1>5, <1>6, OwnStep

LEMMA RollbackKeeps == ASSUME RootInv, NEW r \in Request, Rollback(r) PROVE RootInv'
<1>1. /\ RootTypeOK /\ LoadedInv /\ pc[r] # "idle" /\ op[r] \in Asked
      /\ op[r].war \in Upload /\ InHand(r)
  BY AskedTyped DEF RootInv, RootTypeOK, InHand, Deploying, Rollback
<1>2. /\ {ROOT, Staging(r), Backup(r)} \subseteq Place
      /\ ROOT # Staging(r) /\ ROOT # Backup(r) /\ Staging(r) # Backup(r)
      /\ Staging(r)' = Staging(r) /\ Backup(r)' = Backup(r)
  <2>1. op' = op
    BY DEF Rollback
  <2>2. QED
    BY <1>1, <2>1, Places DEF Staging, Backup
<1>3. /\ UNCHANGED <<op, crowded>> /\ (InHand(r)' => InHand(r))
      /\ \A q \in Request \ {r} : pc'[q] = pc[q]
      /\ \A p \in Place \ {ROOT, Staging(r), Backup(r)} : trees'[p] = trees[p]
  BY <1>1, <1>2 DEF RootTypeOK, InHand, Deploying, Rollback
<1>4. RootTypeOK'
  <2>1. trees' \in [Place -> TreeSet]
    BY <1>1, <1>2, Trees DEF RootTypeOK, Rollback
  <2>2. pc' \in [Request -> Labels] /\ \A q \in Request : pc'[q] = "idle" => pc[q] = "idle"
    BY <1>1 DEF RootTypeOK, Labels, Answer, Rollback
  <2>3. QED
    BY <1>1, <1>3, <2>1, <2>2 DEF RootTypeOK, Rollback
<1>5. LoadedInv'
  BY <1>1, <1>2 DEF RootTypeOK, LoadedInv, Unsettled, Rollback
<1>6. ASSUME SwapInv PROVE NamesInv(r)' /\ Sound(trees[ROOT])' /\ MissingInv'
  <2>1. NamesInv(r)'
    BY <1>1 DEF RootTypeOK, NamesInv, Rollback
  <2>2. Sound(trees[ROOT])'
    BY <1>1, <1>2, <1>6, Trees DEF SwapInv, NamesInv, RootTypeOK, Sound, Rollback
  <2>3. MissingInv'
    <3>1. CASE trees[ROOT] = Absent /\ trees[Backup(r)] # Absent
      BY <1>1, <1>2, <3>1 DEF RootTypeOK, MissingInv, Rollback
    <3>2. CASE ~(trees[ROOT] = Absent /\ trees[Backup(r)] # Absent)
      <4>1. trees' = trees /\ stranded' = stranded
        BY <1>1, <3>2 DEF RootTypeOK, Rollback
      <4>2. CASE trees[ROOT] # Absent
        BY <4>1, <4>2 DEF MissingInv
      <4>3. CASE ~Holding(r)
        BY <1>1, <1>2, <1>3, <1>6, <4>1, <4>3, HoldersStay DEF SwapInv
      <4>4. QED
        BY <3>2, <4>2, <4>3 DEF Holding, Rollback
    <3>3. QED
      BY <3>1, <3>2
  <2>4. QED
    BY <2>1, <2>2, <2>3
<1>7. QED
  BY <1>1, <1>3, <1>4, <1>5, <1>6, OwnStep

LEMMA DiscardKeeps == ASSUME RootInv, NEW r \in Request, Discard(r) PROVE RootInv'
<1>1. /\ RootTypeOK /\ LoadedInv /\ pc[r] # "idle" /\ op[r] \in Asked
      /\ op[r].war \in Upload /\ InHand(r)
  BY AskedTyped DEF RootInv, RootTypeOK, InHand, Deploying, Discard
<1>2. /\ {ROOT, Staging(r), Backup(r)} \subseteq Place
      /\ ROOT # Staging(r) /\ ROOT # Backup(r) /\ Staging(r) # Backup(r)
      /\ Staging(r)' = Staging(r) /\ Backup(r)' = Backup(r)
  <2>1. op' = op
    BY DEF Discard
  <2>2. QED
    BY <1>1, <2>1, Places DEF Staging, Backup
<1>3. /\ UNCHANGED <<op, crowded>> /\ (InHand(r)' => InHand(r))
      /\ \A q \in Request \ {r} : pc'[q] = pc[q]
      /\ \A p \in Place \ {ROOT, Staging(r), Backup(r)} : trees'[p] = trees[p]
  BY <1>1, <1>2 DEF RootTypeOK, InHand, Deploying, Discard
<1>4. RootTypeOK'
  <2>1. trees' \in [Place -> TreeSet]
    BY <1>1, <1>2, Trees DEF RootTypeOK, Discard
  <2>2. pc' \in [Request -> Labels] /\ \A q \in Request : pc'[q] = "idle" => pc[q] = "idle"
    BY <1>1 DEF RootTypeOK, Labels, Answer, Discard
  <2>3. QED
    BY <1>1, <1>3, <2>1, <2>2 DEF RootTypeOK, Discard
<1>5. LoadedInv'
  BY <1>1, <1>2 DEF RootTypeOK, LoadedInv, Unsettled, Discard
<1>6. ASSUME SwapInv PROVE NamesInv(r)' /\ Sound(trees[ROOT])' /\ MissingInv'
  <2>1. NamesInv(r)'
    BY <1>1 DEF RootTypeOK, NamesInv, Discard
  <2>2. Sound(trees[ROOT])'
    BY <1>1, <1>2, <1>6 DEF SwapInv, RootTypeOK, Sound, Discard
  <2>3. MissingInv'
    BY <1>1, <1>2, <1>3, <1>6, HoldersStay DEF SwapInv, RootTypeOK, Holding, Discard
  <2>4. QED
    BY <2>1, <2>2, <2>3
<1>7. QED
  BY <1>1, <1>3, <1>4, <1>5, <1>6, OwnStep

\* A deploy that starts over clean names, while no other of its process is at work, has them
\* in hand.
LEMMA CleanKeeps == ASSUME RootInv, NEW r \in Request, Clean(r) PROVE RootInv'
<1>1. /\ RootTypeOK /\ LoadedInv /\ pc[r] = "clean" /\ op[r] \in Asked
  BY DEF RootInv, RootTypeOK, Clean
<1>2. /\ {ROOT, Staging(r), Backup(r)} \subseteq Place
      /\ ROOT # Staging(r) /\ ROOT # Backup(r) /\ Staging(r) # Backup(r)
      /\ \A q \in Request : Staging(q)' = Staging(q) /\ Backup(q)' = Backup(q)
  <2>1. op' = op
    BY DEF Clean
  <2>2. QED
    BY <1>1, <2>1, Places DEF Staging, Backup
<1>3. /\ op' = op /\ stranded' = stranded /\ loaded' = loaded /\ pc'[r] = "unpack"
      /\ \A q \in Request \ {r} : pc'[q] = pc[q]
      /\ \A p \in Place \ {Staging(r), Backup(r)} : trees'[p] = trees[p]
  BY <1>1, <1>2 DEF RootTypeOK, Clean
<1>4. RootTypeOK'
  <2>1. trees' \in [Place -> TreeSet]
    BY <1>1, <1>2, Trees DEF RootTypeOK, Clean
  <2>2. pc' \in [Request -> Labels] /\ crowded' \in BOOLEAN
    BY <1>1 DEF RootTypeOK, Labels, Clean
  <2>3. QED
    BY <1>1, <1>3, <2>1, <2>2 DEF RootTypeOK
<1>5. LoadedInv'
  BY <1>1, <1>2, <1>3 DEF LoadedInv, Unsettled
<1>6. ASSUME ~crowded' PROVE SwapInv'
  <2>1. /\ SwapInv /\ trees'[Staging(r)] = Absent /\ trees'[Backup(r)] = Absent
        /\ \A q \in Request \ {r} : Deploying(q) => op[q].pid # op[r].pid
    BY <1>1, <1>6 DEF RootInv, RootTypeOK, Clean
  <2>2. Sound(trees[ROOT])'
    BY <1>2, <1>3, <2>1 DEF SwapInv, Sound
  <2>3. SoloInv'
    BY <1>3, <2>1 DEF SwapInv, SoloInv, InHand, Deploying
  <2>4. ASSUME NEW q \in Request, q # r, Deploying(q)
        PROVE  trees'[Staging(q)] = trees[Staging(q)] /\ trees'[Backup(q)] = trees[Backup(q)]
    <3>1. op[q] \in Asked /\ op[q].pid # op[r].pid
      BY <1>1, <2>1, <2>4 DEF RootTypeOK, Deploying
    <3>2. Staging(q) \in Place \ {Staging(r), Backup(r)} /\ Backup(q) \in Place \ {Staging(r), Backup(r)}
      BY <1>1, <3>1, Places
    <3>3. QED
      BY <1>3, <3>2
  <2>5. ASSUME NEW q \in Request PROVE NamesInv(q)'
    <3>1. CASE q = r
      BY <1>2, <1>3, <2>1, <3>1 DEF NamesInv
    <3>2. CASE q # r /\ Deploying(q)
      BY <1>2, <1>3, <2>1, <2>4, <3>2 DEF SwapInv, NamesInv
    <3>3. CASE q # r /\ ~Deploying(q)
      BY <1>3, <3>3 DEF NamesInv, Deploying
    <3>4. QED
      BY <3>1, <3>2, <3>3
  <2>6. MissingInv'
    <3> SUFFICES ASSUME trees[ROOT] = Absent, ~stranded PROVE \E q \in Request : Holding(q)'
      BY <1>2, <1>3 DEF MissingInv
    <3>1. PICK q \in Request : Holding(q)
      BY <2>1 DEF SwapInv, MissingInv
    <3>2. q # r /\ pc'[q] = pc[q]
      BY <1>1, <1>3, <3>1 DEF Holding
    <3>3. Holding(q)'
      BY <1>2, <2>4, <3>1, <3>2 DEF Holding, Deploying
    <3>4. QED
      BY <3>3
  <2>7. QED
    BY <2>2, <2>3, <2>5, <2>6 DEF SwapInv
<1>7. QED
  BY <1>4, <1>5, <1>6 DEF RootInv

\* A new request has nothing in hand.
LEMMA RootAskKeeps == ASSUME RootInv, NEW r \in Request, RootAsk(r) PROVE RootInv'
<1>1. PICK o \in Asked : /\ op' = [op EXCEPT ![r] = o] /\ pc' = [pc EXCEPT ![r] = "claim"]
                         /\ pc[r] = "idle" /\ UNCHANGED rootVars
  BY AskedTyped DEF RootAsk, Begin
<1>2. /\ RootTypeOK /\ pc'[r] = "claim" /\ pc[r] = "idle"
      /\ \A q \in Request \ {r} : pc'[q] = pc[q] /\ op'[q] = op[q]
  BY <1>1 DEF RootInv, RootTypeOK
<1>3. RootTypeOK'
  BY <1>1, AskedTyped DEF RootInv, RootTypeOK, Labels
<1>4. LoadedInv'
  BY <1>1, <1>2 DEF RootInv, LoadedInv, Unsettled
<1>5. ASSUME SwapInv PROVE SwapInv'
  <2>1. SoloInv'
    BY <1>2, <1>5 DEF SwapInv, SoloInv, InHand, Deploying
  <2>2. ASSUME NEW q \in Request PROVE NamesInv(q)'
    BY <1>1, <1>2, <1>5 DEF SwapInv, NamesInv, Staging, Backup
  <2>3. MissingInv'
    <3>1. \A q \in Request : Holding(q) => Holding(q)'
      BY <1>1, <1>2 DEF Holding, Backup
    <3>2. QED
      BY <1>1, <1>5, <3>1 DEF SwapInv, MissingInv
  <2>4. QED
    BY <1>1, <1>5, <2>1, <2>2, <2>3 DEF SwapInv, Sound
<1>6. QED
  BY <1>1, <1>3, <1>4, <1>5 DEF RootInv

\* The requests of a process that dies leave the trees as they are.
LEMMA RootDiesKeeps == ASSUME RootInv, NEW r \in Request, RootDies(r) PROVE RootInv'
<1>1. /\ RootTypeOK /\ UNCHANGED <<op, rootVars>>
      /\ \A q \in Request : pc'[q] = pc[q] \/ (pc'[q] = "dead" /\ Busy(q))
  BY DEF RootInv, RootDies
<1>2. RootTypeOK'
  BY <1>1 DEF RootTypeOK, Labels, Answer, Busy, RootDies
<1>3. LoadedInv'
  BY <1>1 DEF RootInv, LoadedInv, Unsettled
<1>4. ASSUME SwapInv PROVE SwapInv'
  <2>1. SoloInv'
    BY <1>1, <1>4 DEF SwapInv, SoloInv, InHand, Deploying
  <2>2. ASSUME NEW q \in Request PROVE NamesInv(q)'
    BY <1>1, <1>4 DEF SwapInv, NamesInv, Staging, Backup
  <2>3. MissingInv'
    <3>1. \A q \in Request : Holding(q) => Holding(q)'
      BY <1>1 DEF Holding, Backup
    <3>2. QED
      BY <1>1, <1>4, <3>1 DEF SwapInv, MissingInv
  <2>4. QED
    BY <1>1, <1>4, <2>1, <2>2, <2>3 DEF SwapInv, Sound
<1>5. QED
  BY <1>1, <1>2, <1>3, <1>4 DEF RootInv

------------------------------------------------------------------------------
LEMMA RootStep == ASSUME RootInv, [RootNext]_allRootVars PROVE RootInv'
<1>1. CASE RootNext
  BY <1>1, RootAskKeeps, RootDiesKeeps, ClaimKeeps, MigrateKeeps, CleanKeeps, UnpackSomeKeeps,
     UnpackRestKeeps, MoveAsideKeeps, PromoteKeeps, RollbackKeeps, DiscardKeeps, RestartKeeps
     DEF RootNext
<1>2. CASE UNCHANGED allRootVars
  <2> USE <1>2 DEF allRootVars, reqVars
  <2>1. RootTypeOK' /\ LoadedInv'
    BY DEF RootInv, RootTypeOK, LoadedInv, Unsettled
  <2>2. ASSUME SwapInv PROVE SwapInv'
    BY <2>2 DEF SwapInv, Sound, SoloInv, InHand, Deploying, MissingInv, Holding, NamesInv,
       Staging,
       Backup
  <2>3. QED
    BY <2>1, <2>2 DEF RootInv
<1>3. QED
  BY <1>1, <1>2

\* What each deploy knows of ROOT and of the trees under its names.
THEOREM RootSafe == RootSpec => []RootInv
BY RootInitial, RootStep, PTL DEF RootSpec

\* ROOT is a whole tree or, between two renames or after a failure there, missing; and the
\* service runs it when all deploys have succeeded (war.py 77-108).
THEOREM RootAlwaysKept == RootSpec => []RootKept
<1>1. RootInv => RootKept
  <2> SUFFICES ASSUME RootInv, ~crowded PROVE RootKept
    BY DEF RootKept
  <2>1. /\ trees[ROOT].whole \/ trees[ROOT] = Absent
        /\ trees[ROOT] = Absent =>
              stranded \/ \E r \in Request : pc[r] \in {"promote", "rollback", "dead"}
    BY DEF RootInv, SwapInv, Sound, MissingInv, Holding
  <2>2. (\A r \in Request : pc[r] \in {"idle", "done", "refused"}) => loaded = trees[ROOT]
    BY DEF RootInv, LoadedInv, Unsettled
  <2>3. QED
    BY <2>1, <2>2 DEF RootKept
<1>2. QED
  BY <1>1, RootSafe, PTL
==============================================================================
