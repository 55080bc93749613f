------------------------------ MODULE SitesProofs -----------------------------
(***************************************************************************)
(* What a request that nobody overlaps knows of its app, the panel's site  *)
(* and the plugin's vhost, step by step; and what nobody, overlapping or   *)
(* not, does to the operator's sites (core/deploy/proxy.py,                *)
(* core/deploy/ssl.py), for any number of requests, apps and domains and   *)
(* any faults.                                                             *)
(***************************************************************************)
EXTENDS Sites, TLAPS

SetPC    == {"add", "attach", "class", "drop", "name", "own", "tidy"}
RemovePC == {"delete", "unvhost", "unname", "unown"}
EnablePC == {"panel", "plain", "issue", "serve", "confirm", "keep"}

\* Which steps a request takes.
RouteInv(r) ==
    /\ pc[r] \in SetPC => Asks(r, "set")
    /\ pc[r] \in RemovePC => Asks(r, "remove")
    /\ pc[r] \in EnablePC => Asks(r, "enable")
    /\ pc[r] \in {"close", "revert"} => Asks(r, "disable")
    /\ pc[r] = "owner" => Asks(r, "enable") \/ Asks(r, "disable")
    /\ pc[r] = "mark" => Asks(r, "enable") \/ Asks(r, "renew")
    /\ pc[r] = "untls" => Asks(r, "remove") \/ Asks(r, "disable")

\* A domain a SetSite or a RemoveSite has read was named by a marker, and a site it attaches
\* to is the plugin's.
NamedInv(r) ==
    /\ pc[r] \in SetPC \cup RemovePC => dom[r] \in claimed \cup {"none"}
    /\ pc[r] = "delete" => dom[r] # "none"
    /\ pc[r] = "attach" => site[req[r].dom] # "foreign"

TypedInv ==
    /\ TypeOK
    /\ \A a \in App : domain[a] \in claimed \cup {"none"}
    /\ \A r \in Request : RouteInv(r) /\ NamedInv(r)

------------------------------------------------------------------------------
\* No SetSite stands between the markers of the app and its vhost, nor died there.
Settled(a) == a \notin cut /\ \A r \in Request : pc[r] \in {"own", "tidy"} => AppOf(r) # a

\* The plugin owns no app that the panel serves, and only its own apps have its TLS vhost.
OwnerInv(a) ==
    Settled(a) => /\ owner[a] = "javahost" => domain[a] = "none"
                  /\ vhost[a].tls => OwnerOf(a) = "javahost"

\* What each request knows of its app.
SetKnows(r) ==
    /\ pc[r] \in {"add", "attach", "class"} /\ found[r] # "none" => PublishedAt(AppOf(r), found[r])
    /\ pc[r] = "tidy" => owner[AppOf(r)] = "aapanel"

RemoveKnows(r) ==
    /\ pc[r] \in {"delete", "unvhost", "unname"} => dom[r] = domain[AppOf(r)]
    /\ pc[r] = "unvhost" /\ dom[r] # "none" /\ sure[r] => upstream[dom[r]] = "none"
    /\ pc[r] = "unname" /\ dom[r] # "none" => upstream[dom[r]] = "none"
    /\ pc[r] \in {"unname", "unown"} => ~vhost[AppOf(r)].tls
    /\ pc[r] = "unown" => domain[AppOf(r)] = "none"

TlsKnows(r) ==
    /\ pc[r] \in {"panel", "plain", "issue"} => own[r] = OwnerOf(AppOf(r))
    /\ pc[r] \in {"serve", "keep", "revert"} => OwnerOf(AppOf(r)) = "javahost"
    /\ pc[r] = "close" => OwnerOf(AppOf(r)) = "aapanel"
    /\ pc[r] \in {"owner", "close"} => domain[AppOf(r)] \in {"none", dom[r]}
    /\ pc[r] = "untls" => AppOf(r) \in cut \/ ~Secure(AppOf(r))

\* The inductive invariant of requests that do not overlap.
LoneInv ==
    alone => /\ \A p, q \in Request : Busy(p) /\ Busy(q) => p = q
             /\ \A a \in App : OwnerInv(a)
             /\ \A r \in Request : SetKnows(r) /\ RemoveKnows(r) /\ TlsKnows(r)

------------------------------------------------------------------------------
USE DEF panelVars, markerVars, localVars, histVars, AppOf, Asks, Goto, Move, Unvhost

\* What a request is asked to do.
LEMMA AskedTyped ==
    /\ \A o \in Asked : o.app \in App /\ o.dom \in Name
    /\ \A o \in Asked : o.op \in {"set", "enable", "disable"} => o.dom \in Domain
BY DEF Asked, Name

LEMMA RequestTyped ==
    ASSUME TypeOK, NEW r \in Request
    PROVE  /\ AppOf(r) \in App /\ req[r].dom \in Name
           /\ Asks(r, "set") \/ Asks(r, "enable") \/ Asks(r, "disable") => req[r].dom \in Domain
           /\ domain[AppOf(r)] \in Name /\ dom[r] \in Name
           /\ OwnerOf(AppOf(r)) \in {"aapanel", "javahost"}
BY AskedTyped DEF TypeOK, OwnerOf

PanelTyped ==
    /\ site \in [Domain -> {"none", "foreign", "javahost"}]
    /\ upstream \in [Domain -> {"none"} \cup App]
    /\ https \in [Domain -> BOOLEAN] /\ cert \in [Domain -> BOOLEAN]

\* No call makes a site the operator's.
Inherits == \A d \in Domain : site'[d] = "foreign" => site[d] = "foreign"

LEMMA PanelCalls ==
    ASSUME PanelTyped, NEW d \in Name, NEW answer \in BOOLEAN, NEW a \in App, NEW can,
           \/ AddSite(d, answer) \/ Attach(d, a, can, answer) \/ DeleteSite(d, answer)
           \/ SwitchOn(d, answer) \/ SwitchOff(d, answer)
    PROVE  PanelTyped' /\ Inherits
<1>1. CASE AddSite(d, answer)
  BY <1>1 DEF AddSite, Tell, PanelTyped, Inherits
<1>2. CASE Attach(d, a, can, answer)
  BY <1>2 DEF Attach, Tell, PanelTyped, Inherits
<1>3. CASE DeleteSite(d, answer)
  BY <1>3 DEF DeleteSite, Tell, PanelTyped, Inherits
<1>4. CASE SwitchOn(d, answer)
  BY <1>4 DEF SwitchOn, Issue, PanelTyped, Inherits
<1>5. CASE SwitchOff(d, answer)
  BY <1>5 DEF SwitchOff, Tell, PanelTyped, Inherits
<1>6. QED
  BY <1>1, <1>2, <1>3, <1>4, <1>5

\* What a step of q leaves alone.
Turn(q) ==
    /\ req' = req /\ claimed \subseteq claimed' /\ Inherits
    /\ \A r \in Request \ {q} : /\ pc'[r] = pc[r] /\ dom'[r] = dom[r] /\ own'[r] = own[r]
                                /\ sure'[r] = sure[r] /\ found'[r] = found[r]
    /\ \A a \in App \ {AppOf(q)} : /\ domain'[a] = domain[a] /\ owner'[a] = owner[a]
                                   /\ vhost'[a] = vhost[a] /\ tls'[a] = tls[a]
                                   /\ a \in cut' <=> a \in cut

OwnTyped(q) ==
    /\ domain'[AppOf(q)] \in claimed' \cup {"none"}
    /\ RouteInv(q)' /\ NamedInv(q)'

\* The types and the route after a step of q are those of q.
LEMMA Others ==
    ASSUME TypedInv, NEW q \in Request, TypeOK', Turn(q), OwnTyped(q)
    PROVE  TypedInv'
<1>1. ASSUME NEW a \in App PROVE domain'[a] \in claimed' \cup {"none"}
  BY DEF TypedInv, Turn, OwnTyped
<1>2. ASSUME NEW r \in Request PROVE RouteInv(r)' /\ NamedInv(r)'
  <2>1. CASE r = q
    BY <2>1 DEF OwnTyped
  <2>2. CASE r # q
    <3>1. RouteInv(r)'
      BY <2>2 DEF TypedInv, Turn, RouteInv
    <3>2. ASSUME pc[r] = "attach" PROVE req[r].dom \in Domain
      BY <3>1, <3>2, <2>2, RequestTyped DEF TypedInv, RouteInv, SetPC
    <3>3. NamedInv(r)'
      BY <2>2, <3>2 DEF TypedInv, Turn, NamedInv, Inherits, SetPC, RemovePC
    <3>4. QED
      BY <3>1, <3>3
  <2>3. QED
    BY <2>1, <2>2
<1>3. QED
  BY <1>1, <1>2 DEF TypedInv

\* A request begins.
LEMMA BeginTyped ==
    ASSUME TypedInv, NEW q \in Request, NEW l \in {"idle"} \cup WorkPC \cup Answer, NEW n \in Name,
           Begin(q, l, n)
    PROVE  TypeOK' /\ Turn(q) /\ domain'[AppOf(q)] \in claimed' \cup {"none"}
           /\ pc'[q] = l /\ dom'[q] = n
<1>1. TypeOK /\ found[q] \in Name /\ domain[AppOf(q)] \in Name /\ "none" \in Name
  BY RequestTyped DEF TypedInv, TypeOK, Name
<1>2. found' \in [Request -> Name]
  BY <1>1 DEF Begin, TypeOK
<1>3. TypeOK'
  BY <1>1, <1>2 DEF Begin, TypeOK
<1>4. QED
  BY <1>1, <1>3, RequestTyped DEF Begin, TypedInv, TypeOK, Turn, Inherits

LEMMA BeginsTyped ==
    ASSUME TypedInv, NEW q \in Request,
           SetBegin(q) \/ RemoveBegin(q) \/ TlsBegin(q) \/ RenewBegin(q)
    PROVE  TypeOK' /\ Turn(q) /\ OwnTyped(q)
<1>1. domain[AppOf(q)] \in claimed \cup {"none"} /\ domain[AppOf(q)] \in Name
  BY RequestTyped DEF TypedInv
<1>2. CASE SetBegin(q)
  <2>1. PICK l \in {"add", "class", "failed"}, n \in claimed \cup {"none"} : Begin(q, l, n) /\ n \in Name
    BY <1>1, <1>2 DEF SetBegin, Name
  <2>2. QED
    BY <1>2, <2>1, BeginTyped DEF SetBegin, OwnTyped, RouteInv, NamedInv, SetPC, RemovePC,
       EnablePC, WorkPC,
       Answer, Turn
<1>3. CASE RemoveBegin(q)
  <2>1. PICK l \in {"unvhost", "delete"} :
           Begin(q, l, domain[AppOf(q)]) /\ (l = "delete" => domain[AppOf(q)] # "none")
    BY <1>3 DEF RemoveBegin
  <2>2. QED
    BY <1>1, <1>3, <2>1, BeginTyped DEF RemoveBegin, OwnTyped, RouteInv, NamedInv, SetPC,
       RemovePC, EnablePC,
       WorkPC, Answer, Turn
<1>4. CASE TlsBegin(q)
  <2>1. PICK n \in Name : Begin(q, "owner", n)
    BY <1>1, <1>4, RequestTyped DEF TlsBegin, TypedInv
  <2>2. QED
    BY <1>4, <2>1, BeginTyped DEF TlsBegin, OwnTyped, RouteInv, NamedInv, SetPC, RemovePC,
       EnablePC,
       WorkPC, Answer, Turn
<1>5. CASE RenewBegin(q)
  <2>1. PICK l \in {"mark", "ok"} : Begin(q, l, domain[AppOf(q)])
    BY <1>5 DEF RenewBegin
  <2>2. QED
    BY <1>1, <1>5, <2>1, BeginTyped DEF RenewBegin, OwnTyped, RouteInv, NamedInv, SetPC,
       RemovePC, EnablePC,
       WorkPC, Answer, Turn
<1>6. QED
  BY <1>2, <1>3, <1>4, <1>5

\* The types and the route of a request that goes on.
Typed(q) == TypeOK' /\ Turn(q) /\ OwnTyped(q)

\* A step that changes what the panel has, and the state of no app.
LEMMA PanelStep ==
    ASSUME TypedInv, NEW q \in Request, NEW l \in {"idle"} \cup WorkPC \cup Answer,
           PanelTyped', Inherits, Goto(q, l), l \notin {"attach", "delete"},
           UNCHANGED <<vhost, markerVars, req, dom, own, histVars>>,
           sure' \in [Request -> BOOLEAN], \A r \in Request \ {q} : sure'[r] = sure[r],
           l \in SetPC \cup RemovePC => pc[q] \in SetPC \cup RemovePC, RouteInv(q)'
    PROVE  Typed(q)
<1>1. TypeOK'
  BY DEF TypedInv, TypeOK, PanelTyped
<1>2. Turn(q)
  BY DEF TypedInv, TypeOK, Turn
<1>3. pc'[q] = l /\ domain[AppOf(q)] \in claimed \cup {"none"}
  BY RequestTyped DEF TypedInv, TypeOK
<1>4. OwnTyped(q)
  BY <1>2, <1>3 DEF TypedInv, OwnTyped, NamedInv
<1>5. QED
  BY <1>1, <1>2, <1>4 DEF Typed

LEMMA SetTyped ==
    ASSUME TypedInv, NEW q \in Request, SetSite(q), ~SetBegin(q)
    PROVE  Typed(q)
<1> DEFINE d == req[q].dom
<1>1. /\ Asks(q, "set") /\ AppOf(q) \in App /\ d \in Domain /\ d \in Name
      /\ pc[q] \in SetPC /\ dom[q] \in claimed \cup {"none"} /\ dom[q] \in Name
      /\ PanelTyped /\ TypeOK /\ domain[AppOf(q)] \in claimed \cup {"none"}
  <2>1. pc[q] \in SetPC
    BY DEF SetSite, SetAdd, SetAttach, SetByClass, SetDrop, SetName, SetOwner, SetTidy, SetPC
  <2>2. QED
    BY <2>1, RequestTyped DEF TypedInv, TypeOK, PanelTyped, RouteInv, NamedInv
<1>2. \A l \in SetPC \cup Answer : /\ l \in {"idle"} \cup WorkPC \cup Answer
                                   /\ Goto(q, l) => pc'[q] = l /\ pc' \in [Request -> {"idle"} \cup WorkPC \cup Answer]
                                                    /\ \A r \in Request \ {q} : pc'[r] = pc[r]
  BY <1>1 DEF TypeOK, SetPC, WorkPC
<1>3. AfterAttach(q) \in {"name", "drop"}
  BY DEF AfterAttach
<1>4. \A l \in SetPC \cup Answer : req' = req /\ Goto(q, l) => RouteInv(q)'
  BY <1>1, <1>2 DEF RouteInv, SetPC, RemovePC, EnablePC, Answer
<1>5. CASE SetAdd(q)
  <2>1. PICK answer \in BOOLEAN, l \in {"attach", "failed", "class"} :
           /\ AddSite(d, answer) /\ Goto(q, l)
           /\ l = "attach" => answer \/ site[d] = "javahost"
    BY <1>5 DEF SetAdd
  <2>2. PanelTyped' /\ Inherits
    BY <1>1, <2>1, PanelCalls
  <2>3. l = "attach" => site'[d] # "foreign"
    BY <1>1, <2>1 DEF AddSite, Tell, PanelTyped
  <2>4. TypeOK' /\ Turn(q)
    BY <1>1, <1>2, <1>5, <2>1, <2>2 DEF SetAdd, TypeOK, PanelTyped, Turn, SetPC, Answer
  <2>5. OwnTyped(q)
    BY <1>1, <1>2, <1>4, <1>5, <2>1, <2>3 DEF SetAdd, OwnTyped, NamedInv, SetPC, Answer
  <2>6. QED
    BY <2>4, <2>5 DEF Typed
<1>6. CASE SetAttach(q) \/ SetByClass(q)
  <2>1. PICK answer \in BOOLEAN, can \in BOOLEAN, l \in {"name", "drop", "failed"} :
           Attach(d, AppOf(q), can, answer) /\ Goto(q, l)
    BY <1>3, <1>6, FaultsAssumption DEF SetAttach, SetByClass
  <2>2. PanelTyped' /\ Inherits
    BY <1>1, <2>1, PanelCalls
  <2>3. l \in SetPC \cup Answer /\ l \in {"idle"} \cup WorkPC \cup Answer
    BY <1>2, <2>1 DEF SetPC, Answer
  <2>4. UNCHANGED <<vhost, markerVars, req, dom, own, histVars>> /\ sure' = sure
    BY <1>6 DEF SetAttach, SetByClass
  <2>5. RouteInv(q)'
    BY <1>4, <2>1, <2>3, <2>4
  <2>6. QED
    BY <1>1, <2>1, <2>2, <2>3, <2>4, <2>5, PanelStep DEF TypeOK
<1>7. CASE SetDrop(q)
  <2>1. PICK answer \in BOOLEAN : DeleteSite(dom[q], answer)
    BY <1>7 DEF SetDrop
  <2>2. PanelTyped' /\ Inherits
    BY <1>1, <2>1, PanelCalls
  <2>3. TypeOK' /\ Turn(q) /\ pc'[q] = "name"
    BY <1>1, <1>7, <2>2 DEF SetDrop, TypeOK, PanelTyped, Turn, Off, Vhost, Name, WorkPC
  <2>4. OwnTyped(q)
    BY <1>1, <1>4, <1>7, <2>3 DEF SetDrop, OwnTyped, NamedInv, SetPC
  <2>5. QED
    BY <2>3, <2>4 DEF Typed
<1>8. CASE SetName(q) \/ SetOwner(q) \/ SetTidy(q)
  <2>1. PICK l \in {"own", "tidy", "ok"} : Goto(q, l)
    BY <1>8 DEF SetName, SetOwner, SetTidy
  <2>2. TypeOK'
    <3>1. l \in SetPC \cup Answer /\ pc' \in [Request -> {"idle"} \cup WorkPC \cup Answer]
      BY <1>2, <2>1 DEF SetPC, Answer
    <3>2. CASE SetName(q)
      BY <1>1, <3>1, <3>2 DEF SetName, TypeOK
    <3>3. CASE SetOwner(q)
      BY <1>1, <3>1, <3>3 DEF SetOwner, TypeOK
    <3>4. CASE SetTidy(q)
      BY <1>1, <3>1, <3>4 DEF SetTidy, TypeOK, Off, Vhost, Name
    <3>5. QED
      BY <1>8, <3>2, <3>3, <3>4
  <2>3. Turn(q) /\ domain'[AppOf(q)] \in claimed' \cup {"none"}
    BY <1>1, <1>2, <1>8 DEF SetName, SetOwner, SetTidy, TypeOK, Turn, Inherits
  <2>4. OwnTyped(q)
    BY <1>1, <1>2, <1>4, <1>8, <2>1, <2>3 DEF SetName, SetOwner, SetTidy, OwnTyped, NamedInv,
       SetPC, Answer
  <2>5. QED
    BY <2>2, <2>3, <2>4 DEF Typed
<1>9. QED
  BY <1>5, <1>6, <1>7, <1>8 DEF SetSite

\* A step of a request is on its way and leaves the other requests where they are.
LEMMA Goes ==
    ASSUME TypeOK, NEW q \in Request, NEW l \in {"idle"} \cup WorkPC \cup Answer, Goto(q, l)
    PROVE  /\ pc' \in [Request -> {"idle"} \cup WorkPC \cup Answer] /\ pc'[q] = l
           /\ \A r \in Request \ {q} : pc'[r] = pc[r]
BY DEF TypeOK

LEMMA RemoveTyped ==
    ASSUME TypedInv, NEW q \in Request, RemoveSite(q), ~RemoveBegin(q)
    PROVE  Typed(q)
<1>1. /\ AppOf(q) \in App /\ pc[q] \in RemovePC \cup {"untls"}
      /\ pc[q] \in RemovePC => Asks(q, "remove") /\ dom[q] \in claimed \cup {"none"}
      /\ Asks(q, "remove") \/ Asks(q, "disable")
      /\ dom[q] \in Name
      /\ PanelTyped /\ TypeOK /\ domain[AppOf(q)] \in claimed \cup {"none"}
  <2>1. pc[q] \in RemovePC \cup {"untls"}
    BY DEF RemoveSite, RemoveDelete, RemoveVhost, RemoveName, RemoveOwner, ClearTls, RemovePC
  <2>2. QED
    BY <2>1, RequestTyped DEF TypedInv, TypeOK, PanelTyped, RouteInv, NamedInv
<1>2. CASE RemoveDelete(q)
  <2>1. PICK answer \in BOOLEAN : DeleteSite(dom[q], answer)
    BY <1>2 DEF RemoveDelete
  <2>2. PanelTyped' /\ Inherits
    BY <1>1, <2>1, PanelCalls
  <2>3. Goto(q, "unvhost") /\ "unvhost" \in WorkPC /\ pc'[q] = "unvhost"
    BY <1>1, <1>2, Goes DEF RemoveDelete, WorkPC
  <2>4. RouteInv(q)'
    BY <1>1, <1>2, <2>3 DEF RemoveDelete, RouteInv, SetPC, RemovePC, EnablePC
  <2>5. /\ UNCHANGED <<vhost, markerVars, req, dom, own, histVars>>
        /\ sure' \in [Request -> BOOLEAN] /\ \A r \in Request \ {q} : sure'[r] = sure[r]
    BY <1>1, <1>2 DEF RemoveDelete, TypeOK
  <2>6. pc[q] \in RemovePC
    BY <1>2 DEF RemoveDelete, RemovePC
  <2>7. QED
    BY <2>2, <2>3, <2>4, <2>5, <2>6, PanelStep
<1>3. CASE RemoveVhost(q) \/ RemoveName(q) \/ RemoveOwner(q) \/ ClearTls(q)
  <2>1. PICK l \in {"unname", "failed", "unown", "untls", "ok"} :
           Goto(q, l) /\ (l \in RemovePC \/ l = "untls" => pc[q] \in RemovePC)
    BY <1>3 DEF RemoveVhost, RemoveName, RemoveOwner, ClearTls, RemovePC
  <2>2. l \in {"idle"} \cup WorkPC \cup Answer
    BY <2>1 DEF WorkPC, Answer
  <2>3. /\ pc' \in [Request -> {"idle"} \cup WorkPC \cup Answer] /\ pc'[q] = l
        /\ \A r \in Request \ {q} : pc'[r] = pc[r]
    BY <1>1, <2>1, <2>2, Goes
  <2>4. TypeOK'
    <3>1. CASE RemoveVhost(q)
      BY <1>1, <2>3, <3>1 DEF RemoveVhost, TypeOK, Off, Vhost, Name
    <3>2. CASE RemoveName(q)
      BY <1>1, <2>3, <3>2 DEF RemoveName, TypeOK, Name
    <3>3. CASE RemoveOwner(q)
      BY <1>1, <2>3, <3>3 DEF RemoveOwner, TypeOK
    <3>4. CASE ClearTls(q)
      BY <1>1, <2>3, <3>4 DEF ClearTls, TypeOK
    <3>5. QED
      BY <1>3, <3>1, <3>2, <3>3, <3>4
  <2>5. Turn(q) /\ domain'[AppOf(q)] \in claimed' \cup {"none"} /\ UNCHANGED <<req, dom, claimed>>
    BY <1>1, <1>3, <2>3 DEF RemoveVhost, RemoveName, RemoveOwner, ClearTls, TypeOK, Turn,
       Inherits
  <2>6. OwnTyped(q)
    BY <1>1, <2>1, <2>3, <2>5 DEF OwnTyped, RouteInv, NamedInv, SetPC, RemovePC, EnablePC
  <2>7. QED
    BY <2>4, <2>5, <2>6 DEF Typed
<1>4. QED
  BY <1>2, <1>3 DEF RemoveSite

LEMMA TlsTyped ==
    ASSUME TypedInv, NEW q \in Request, SetSiteSSL(q), ~TlsBegin(q)
    PROVE  Typed(q)
<1>1. /\ AppOf(q) \in App /\ dom[q] \in Name /\ OwnerOf(AppOf(q)) \in {"aapanel", "javahost"}
      /\ PanelTyped /\ TypeOK /\ domain[AppOf(q)] \in claimed \cup {"none"} /\ RouteInv(q)
  BY RequestTyped DEF TypedInv, TypeOK, PanelTyped
<1> DEFINE Later == {"panel", "plain", "issue", "serve", "confirm", "keep", "mark", "close", "revert",
                     "untls", "ok", "failed"}
           Routed(l) == /\ l \in EnablePC => Asks(q, "enable")
                        /\ l \in {"close", "revert", "untls"} => Asks(q, "disable")
                        /\ l = "mark" => Asks(q, "enable")
<1>2. ASSUME NEW l \in Later PROVE l \in {"idle"} \cup WorkPC \cup Answer
  BY DEF WorkPC, Answer
<1>3. ASSUME NEW l \in Later, Goto(q, l), Routed(l), TypeOK', UNCHANGED <<domain, req, dom, claimed>>, Turn(q)
      PROVE  Typed(q)
  <2>1. pc'[q] = l
    BY <1>1, <1>2, <1>3, Goes
  <2>2. RouteInv(q)'
    BY <1>3, <2>1 DEF RouteInv, SetPC, RemovePC, EnablePC
  <2>3. NamedInv(q)'
    BY <1>3, <2>1 DEF NamedInv, SetPC, RemovePC
  <2>4. QED
    BY <1>1, <1>3, <2>2, <2>3 DEF Typed, OwnTyped
<1>4. CASE EnablePanel(q) \/ EnableConfirm(q) \/ DisableClose(q)
  <2>1. PICK answer \in BOOLEAN, l \in Later :
           (SwitchOn(dom[q], answer) \/ SwitchOff(dom[q], answer)) /\ Goto(q, l) /\ Routed(l)
    BY <1>1, <1>4 DEF EnablePanel, EnableConfirm, DisableClose, RouteInv, EnablePC
  <2>2. PanelTyped' /\ Inherits
    BY <1>1, <2>1, PanelCalls
  <2>3. TypeOK' /\ Turn(q) /\ UNCHANGED <<domain, req, dom, claimed>>
    BY <1>1, <1>2, <1>4, <2>1, <2>2, Goes
       DEF EnablePanel, EnableConfirm, DisableClose, TypeOK, PanelTyped, Turn
  <2>4. QED
    BY <1>3, <2>1, <2>3
<1>5. CASE EnablePlain(q) \/ EnableServe(q) \/ DisableRevert(q)
  <2>1. PICK on \in BOOLEAN, l \in Later :
           /\ Goto(q, l) /\ Routed(l)
           /\ vhost' = [vhost EXCEPT ![AppOf(q)] = [name |-> dom[q], tls |-> on]]
    BY <1>1, <1>5 DEF EnablePlain, EnableServe, DisableRevert, Activate, RouteInv, EnablePC
  <2>2. UNCHANGED <<panelVars, markerVars, req, localVars, histVars>>
    BY <1>5 DEF EnablePlain, EnableServe, DisableRevert
  <2>3. TypeOK' /\ Turn(q)
    BY <1>1, <1>2, <2>1, <2>2, Goes DEF TypeOK, Vhost, Turn, Inherits
  <2>4. QED
    BY <1>3, <2>1, <2>2, <2>3
<1>6. CASE EnableIssue(q)
  <2>1. PICK l \in Later :
           /\ Goto(q, l) /\ Routed(l)
           /\ cert' \in {cert, [cert EXCEPT ![dom[q]] = TRUE]}
    BY <1>1, <1>6 DEF EnableIssue, RouteInv, EnablePC
  <2>2. UNCHANGED <<site, upstream, https, vhost, markerVars, req, localVars, histVars>>
    BY <1>6 DEF EnableIssue
  <2>3. TypeOK' /\ Turn(q)
    BY <1>1, <1>2, <2>1, <2>2, Goes DEF TypeOK, Turn, Inherits
  <2>4. QED
    BY <1>3, <2>1, <2>2, <2>3
<1>7. CASE TlsOwner(q)
  <2>1. PICK l \in Later : Goto(q, l) /\ Routed(l)
    BY <1>1, <1>7 DEF TlsOwner, RouteInv, EnablePC
  <2>2. /\ own' = [own EXCEPT ![q] = OwnerOf(AppOf(q))]
        /\ UNCHANGED <<panelVars, vhost, markerVars, req, dom, sure, histVars>>
    BY <1>7 DEF TlsOwner
  <2>3. TypeOK' /\ Turn(q)
    BY <1>1, <1>2, <2>1, <2>2, Goes DEF TypeOK, Turn, Inherits
  <2>4. QED
    BY <1>3, <2>1, <2>2, <2>3
<1>8. CASE EnableKeep(q) \/ MarkTls(q)
  <2>1. PICK l \in {"mark", "ok"} : Goto(q, l) /\ Routed(l)
    BY <1>1, <1>8 DEF EnableKeep, MarkTls, RouteInv, EnablePC
  <2>2. /\ owner' \in {owner, [owner EXCEPT ![AppOf(q)] = "javahost"]}
        /\ tls' \in {tls, [tls EXCEPT ![AppOf(q)] = TRUE]}
        /\ UNCHANGED <<panelVars, vhost, domain, req, localVars, histVars>>
    BY <1>8 DEF EnableKeep, MarkTls
  <2>3. /\ pc' \in [Request -> {"idle"} \cup WorkPC \cup Answer]
        /\ \A r \in Request \ {q} : pc'[r] = pc[r]
    BY <1>1, <1>2, <2>1, Goes
  <2>4. /\ owner' \in [App -> {"none", "aapanel", "javahost"}] /\ tls' \in [App -> BOOLEAN]
        /\ \A a \in App \ {AppOf(q)} : owner'[a] = owner[a] /\ tls'[a] = tls[a]
    BY <1>1, <2>2 DEF TypeOK
  <2>5. TypeOK' /\ Turn(q)
    BY <1>1, <2>2, <2>3, <2>4 DEF TypeOK, Turn, Inherits
  <2>6. QED
    BY <1>3, <2>1, <2>2, <2>5
<1>9. QED
  BY <1>4, <1>5, <1>6, <1>7, <1>8 DEF SetSiteSSL

LEMMA DiesTyped ==
    ASSUME TypedInv, NEW q \in Request, Dies(q)
    PROVE  Typed(q)
<1>1. /\ TypeOK /\ AppOf(q) \in App /\ "dead" \in Answer /\ pc'[q] = "dead"
      /\ domain[AppOf(q)] \in claimed \cup {"none"}
  BY RequestTyped, Goes DEF Dies, TypedInv, Answer
<1>2. TypeOK' /\ Turn(q)
  BY <1>1, Goes DEF Dies, TypeOK, Turn, Inherits
<1>3. OwnTyped(q)
  BY <1>1 DEF Dies, OwnTyped, RouteInv, NamedInv, SetPC, RemovePC, EnablePC
<1>4. QED
  BY <1>2, <1>3 DEF Typed

Step(q) == SetSite(q) \/ RemoveSite(q) \/ SetSiteSSL(q) \/ RenewBegin(q) \/ Dies(q)

LEMMA StepTyped ==
    ASSUME TypedInv, NEW q \in Request, Step(q)
    PROVE  Typed(q) /\ TypedInv'
<1>1. Typed(q)
  BY BeginsTyped, SetTyped, RemoveTyped, TlsTyped, DiesTyped
     DEF Step, SetSite, RemoveSite, SetSiteSSL, Typed
<1>2. QED
  BY <1>1, Others DEF Typed

LEMMA TypedStep == TypedInv /\ [Next]_vars => TypedInv'
<1> SUFFICES ASSUME TypedInv, [Next]_vars PROVE TypedInv'
  OBVIOUS
<1>1. CASE Next
  BY <1>1, StepTyped DEF Next, Step
<1>2. CASE UNCHANGED vars
  BY <1>2 DEF vars, TypedInv, TypeOK, RouteInv, NamedInv
<1>3. QED
  BY <1>1, <1>2

LEMMA TypedInitial == Init => TypedInv
<1> SUFFICES ASSUME Init PROVE TypedInv
  OBVIOUS
<1>1. upstream \in [Domain -> {"none"} \cup App]
  BY DEF Init
<1>2. vhost \in [App -> Vhost] /\ owner \in [App -> {"none", "aapanel", "javahost"}]
  <2>1. {Off} \cup [name : Domain, tls : {TRUE}] \subseteq Vhost
    <3>1. Off \in Vhost
      BY DEF Vhost, Off, Name
    <3>2. [name : Domain, tls : {TRUE}] \subseteq Vhost
      BY DEF Vhost, Name
    <3>3. QED
      BY <3>1, <3>2
  <2>2. vhost \in [App -> Vhost]
    BY <2>1 DEF Init
  <2>3. QED
    BY <2>2 DEF Init
<1>3. TypeOK
  BY <1>1, <1>2 DEF Init, TypeOK, Name
<1>4. \A a \in App : domain[a] \in claimed \cup {"none"}
  BY DEF Init, Name
<1>5. \A r \in Request : RouteInv(r) /\ NamedInv(r)
  BY DEF Init, RouteInv, NamedInv, SetPC, RemovePC, EnablePC
<1>6. QED
  BY <1>3, <1>4, <1>5 DEF TypedInv

\* Every request keeps to its route, and drops and removes only what a marker has named.
THEOREM SitesSafe == Spec => []TypedInv
BY TypedInitial, TypedStep, PTL DEF Spec

\* The panel, the markers and the locals of every request have their types.
THEOREM SitesTyped == Spec => []TypeOK
<1>1. TypedInv => TypeOK
  BY DEF TypedInv
<1>2. QED
  BY <1>1, SitesSafe, PTL

\* Whoever overlaps, no request deletes a site the operator made at a domain no app was ever
\* published at, and only panelSite's class points one elsewhere (aapanel.py 264-266).
THEOREM ForeignAlwaysKept == Spec => ForeignKept
<1>1. ASSUME TypedInv, NEW q \in Request, Step(q), NEW d \in Domain \ claimed, site[d] = "foreign"
      PROVE  /\ site'[d] = "foreign"
             /\ upstream'[d] # upstream[d] => \E r \in Request : pc[r] = "class"
  <2>1. TypeOK /\ RouteInv(q) /\ NamedInv(q) /\ d # "none" /\ req[q].dom \in Name
    BY <1>1, RequestTyped, DomainsAssumption DEF TypedInv
  <2>2. CASE UNCHANGED <<site, upstream>>
    BY <1>1, <2>2
  <2>3. ASSUME NEW x, NEW answer, DeleteSite(x, answer), pc[q] \in {"drop", "delete"}, x = dom[q]
        PROVE  UNCHANGED <<site, upstream>> \/ (site'[d] = site[d] /\ upstream'[d] = upstream[d])
    BY <1>1, <2>1, <2>3 DEF DeleteSite, Tell, NamedInv, SetPC, RemovePC, TypeOK
  <2>4. CASE SetAdd(q)
    BY <1>1, <2>1, <2>4 DEF SetAdd, AddSite, Tell, TypeOK
  <2>5. CASE SetAttach(q)
    BY <1>1, <2>1, <2>5 DEF SetAttach, Attach, Tell, NamedInv, TypeOK
  <2>6. CASE SetByClass(q)
    BY <1>1, <2>6 DEF SetByClass, Attach, Tell
  <2>7. CASE SetDrop(q)
    BY <1>1, <2>2, <2>3, <2>7 DEF SetDrop
  <2>8. CASE RemoveDelete(q)
    BY <1>1, <2>2, <2>3, <2>8 DEF RemoveDelete
  <2>9. CASE SetSiteSSL(q)
    <3>1. UNCHANGED <<site, upstream>>
      BY <2>9 DEF SetSiteSSL, TlsBegin, Begin, TlsOwner, EnablePanel, EnablePlain, EnableIssue,
         EnableConfirm,
         EnableServe, EnableKeep, MarkTls, DisableClose, DisableRevert, SwitchOn, SwitchOff, Tell
    <3>2. QED
      BY <2>2, <3>1
  <2>10. CASE \/ SetBegin(q) \/ SetName(q) \/ SetOwner(q) \/ SetTidy(q)
              \/ RemoveBegin(q) \/ RemoveVhost(q) \/ RemoveName(q) \/ RemoveOwner(q) \/ ClearTls(q)
              \/ RenewBegin(q) \/ Dies(q)
    <3>1. UNCHANGED <<site, upstream>>
      BY <2>10 DEF SetBegin, Begin, SetName, SetOwner, SetTidy, RemoveBegin, RemoveVhost,
         RemoveName,
         RemoveOwner, ClearTls, RenewBegin, Dies
    <3>2. QED
      BY <2>2, <3>1
  <2>11. QED
    BY <1>1, <2>4, <2>5, <2>6, <2>7, <2>8, <2>9, <2>10 DEF Step, SetSite, RemoveSite
<1>2. TypedInv /\ [Next]_vars =>
         [\A d \in Domain \ claimed : site[d] = "foreign" =>
             /\ site'[d] = "foreign"
             /\ upstream'[d] # upstream[d] => \E r \in Request : pc[r] = "class"]_vars
  BY <1>1 DEF Next, Step
<1>3. QED
  BY <1>2, SitesSafe, PTL DEF Spec, ForeignKept

------------------------------------------------------------------------------
(* Requests that do not overlap                                            *)

Begins(q) == SetBegin(q) \/ RemoveBegin(q) \/ TlsBegin(q) \/ RenewBegin(q)

\* The history of overlaps, action by action.
LEMMA Overlaps ==
    ASSUME NEW q \in Request, Step(q)
    PROVE  /\ Begins(q) => (alone' <=> alone /\ \A r \in Request : ~Busy(r))
           /\ ~Begins(q) => alone' = alone /\ Busy(q)
<1>1. Begins(q) => (alone' <=> alone /\ \A r \in Request : ~Busy(r))
  BY DEF Begins, SetBegin, RemoveBegin, TlsBegin, RenewBegin, Begin
<1>2. ASSUME SetSite(q), ~Begins(q) PROVE alone' = alone /\ Busy(q)
  BY <1>2 DEF Begins, SetSite, SetAdd, SetAttach, SetByClass, SetDrop, SetName, SetOwner,
     SetTidy, Busy, WorkPC
<1>3. ASSUME RemoveSite(q), ~Begins(q) PROVE alone' = alone /\ Busy(q)
  BY <1>3 DEF Begins, RemoveSite, RemoveDelete, RemoveVhost, RemoveName, RemoveOwner, ClearTls,
     Busy, WorkPC
<1>4. ASSUME SetSiteSSL(q), ~Begins(q) PROVE alone' = alone /\ Busy(q)
  BY <1>4 DEF Begins, SetSiteSSL, TlsOwner, EnablePanel, EnablePlain, EnableIssue,
     EnableConfirm,
     EnableServe, EnableKeep, MarkTls, DisableClose, DisableRevert, Busy, WorkPC
<1>5. ASSUME Dies(q) PROVE alone' = alone /\ Busy(q)
  BY <1>5 DEF Dies
<1>6. QED
  BY <1>1, <1>2, <1>3, <1>4, <1>5 DEF Step, Begins

\* When it begins, or goes on, without overlap, the others are at rest.
LEMMA Lonely ==
    ASSUME TypedInv, LoneInv, NEW q \in Request, Step(q), alone'
    PROVE  /\ alone
           /\ \A r \in Request \ {q} : ~Busy(r) /\ pc'[r] = pc[r]
           /\ Settled(AppOf(q)) <=> AppOf(q) \notin cut /\ pc[q] \notin {"own", "tidy"}
           /\ Settled(AppOf(q))' <=> AppOf(q) \notin cut' /\ pc'[q] \notin {"own", "tidy"}
<1>1. alone /\ \A r \in Request \ {q} : ~Busy(r)
  BY Overlaps DEF LoneInv
<1>2. Turn(q)
  BY StepTyped DEF Typed
<1>3. \A r \in Request \ {q} : pc'[r] = pc[r] /\ pc[r] \notin {"own", "tidy"}
  BY <1>1, <1>2 DEF Turn, Busy, WorkPC
<1>4. QED
  BY <1>1, <1>2, <1>3 DEF Settled, Turn

Knows(r) == SetKnows(r) /\ RemoveKnows(r) /\ TlsKnows(r)

\* What holds of its own app and of itself after a step of q, holds of all.
LEMMA LoneOthers ==
    ASSUME TypedInv, LoneInv, NEW q \in Request, Step(q),
           alone' => OwnerInv(AppOf(q))' /\ Knows(q)'
    PROVE  LoneInv'
<1> SUFFICES ASSUME alone'
             PROVE  /\ \A p, r \in Request : Busy(p)' /\ Busy(r)' => p = r
                    /\ \A a \in App : OwnerInv(a)'
                    /\ \A r \in Request : SetKnows(r)' /\ RemoveKnows(r)' /\ TlsKnows(r)'
  BY DEF LoneInv
<1>1. Turn(q) /\ alone /\ \A r \in Request \ {q} : ~Busy(r) /\ pc'[r] = pc[r]
  BY Lonely, StepTyped DEF Typed
<1>2. \A r \in Request \ {q} : pc'[r] \notin WorkPC
  BY <1>1 DEF Busy
<1>3. \A p, r \in Request : Busy(p)' /\ Busy(r)' => p = r
  BY <1>2 DEF Busy
<1>4. ASSUME NEW a \in App PROVE OwnerInv(a)'
  <2>1. CASE a = AppOf(q)
    BY <1>1, <2>1 DEF Turn
  <2>2. CASE a # AppOf(q)
    <3>1. Settled(a)' => Settled(a)
      BY <1>1, <2>2 DEF Turn, Settled
    <3>2. OwnerInv(a)
      BY <1>1 DEF LoneInv
    <3>3. QED
      BY <1>1, <2>2, <3>1, <3>2 DEF Turn, OwnerInv, OwnerOf
  <2>3. QED
    BY <2>1, <2>2
<1>5. ASSUME NEW r \in Request PROVE SetKnows(r)' /\ RemoveKnows(r)' /\ TlsKnows(r)'
  <2>1. CASE r = q
    BY <2>1 DEF Knows
  <2>2. CASE r # q
    BY <1>2, <2>2 DEF SetKnows, RemoveKnows, TlsKnows, WorkPC
  <2>3. QED
    BY <2>1, <2>2
<1>6. QED
  BY <1>3, <1>4, <1>5

\* What is known before a step of q.
LEMMA KnownBefore ==
    ASSUME TypedInv, LoneInv, NEW q \in Request, Step(q), alone'
    PROVE  /\ TypeOK /\ TypeOK' /\ RouteInv(q) /\ NamedInv(q) /\ Knows(q)
           /\ AppOf(q) \in App /\ req[q].dom \in Name /\ dom[q] \in Name
           /\ req' = req /\ OwnerInv(AppOf(q))
<1>1. alone /\ TypedInv' /\ Turn(q)
  BY Lonely, StepTyped DEF Typed
<1>2. QED
  BY <1>1, RequestTyped DEF TypedInv, LoneInv, Knows, Turn

LEMMA BeginsLone ==
    ASSUME TypedInv, LoneInv, NEW q \in Request, Begins(q), alone'
    PROVE  OwnerInv(AppOf(q))' /\ Knows(q)'
<1>1. Step(q)
  BY DEF Begins, Step, SetSite, RemoveSite, SetSiteSSL
<1>2. PICK l, n : Begin(q, l, n)
  BY DEF Begins, SetBegin, RemoveBegin, TlsBegin, RenewBegin
<1>3. /\ TypeOK /\ AppOf(q) \in App /\ OwnerInv(AppOf(q)) /\ pc[q] = "idle" /\ pc'[q] = l /\ dom'[q] = n
      /\ UNCHANGED <<panelVars, vhost, markerVars, req, own, sure, claimed, cut>>
      /\ found'[q] = IF PublishedAt(AppOf(q), domain[AppOf(q)]) THEN domain[AppOf(q)] ELSE "none"
  BY <1>1, <1>2, KnownBefore DEF Begin, TypeOK
<1>4. OwnerInv(AppOf(q))'
  BY <1>1, <1>3, Lonely DEF OwnerInv, OwnerOf
<1>5. \/ pc'[q] \in {"add", "class", "failed", "mark", "ok"}
      \/ pc'[q] = "delete" /\ dom'[q] = domain[AppOf(q)]
      \/ pc'[q] = "unvhost" /\ dom'[q] = "none" /\ domain[AppOf(q)] = "none"
      \/ pc'[q] = "owner" /\ domain[AppOf(q)] \in {"none", dom'[q]}
  <2>1. pc \in [Request -> {"idle"} \cup WorkPC \cup Answer] /\ dom \in [Request -> Name]
    BY <1>3 DEF TypeOK
  <2>2. CASE SetBegin(q)
    BY <2>1, <2>2 DEF SetBegin, Begin
  <2>3. CASE RemoveBegin(q)
    BY <2>1, <2>3 DEF RemoveBegin, Begin
  <2>4. CASE TlsBegin(q)
    BY <2>1, <2>4 DEF TlsBegin, Begin
  <2>5. CASE RenewBegin(q)
    BY <2>1, <2>5 DEF RenewBegin, Begin
  <2>6. QED
    BY <2>2, <2>3, <2>4, <2>5 DEF Begins
<1>6. Knows(q)'
  <2>1. SetKnows(q)'
    BY <1>3, <1>5 DEF SetKnows, PublishedAt
  <2>2. RemoveKnows(q)'
    BY <1>3, <1>5 DEF RemoveKnows
  <2>3. TlsKnows(q)'
    BY <1>3, <1>5 DEF TlsKnows
  <2>4. QED
    BY <2>1, <2>2, <2>3 DEF Knows
<1>7. QED
  BY <1>4, <1>6

\* A step that changes neither the markers nor the plugin's vhost.
LEMMA OwnerStays ==
    ASSUME TypedInv, LoneInv, NEW q \in Request, Step(q), alone',
           UNCHANGED <<domain, owner, cut>>, vhost' = vhost \/ ~vhost'[AppOf(q)].tls,
           pc[q] \notin {"own", "tidy"}
    PROVE  OwnerInv(AppOf(q))'
BY Lonely, KnownBefore DEF OwnerInv, OwnerOf

LEMMA SetLone ==
    ASSUME TypedInv, LoneInv, NEW q \in Request, SetSite(q), ~Begins(q), alone'
    PROVE  OwnerInv(AppOf(q))' /\ Knows(q)'
<1>1. /\ Step(q) /\ TypeOK /\ TypeOK' /\ Knows(q) /\ OwnerInv(AppOf(q))
      /\ AppOf(q) \in App /\ AppOf(q)' = AppOf(q)
      /\ Settled(AppOf(q))' <=> AppOf(q) \notin cut' /\ pc'[q] \notin {"own", "tidy"}
  BY KnownBefore, Lonely DEF Step
<1>2. CASE SetAdd(q)
  <2>1. /\ pc'[q] \in {"attach", "class", "failed"} /\ pc[q] = "add"
        /\ UNCHANGED <<upstream, https, vhost, domain, owner, tls, cut, found>>
        /\ \A d \in Domain : site[d] # "none" => site'[d] # "none"
    BY <1>1, <1>2 DEF SetAdd, AddSite, Tell, TypeOK
  <2>2. OwnerInv(AppOf(q))'
    BY <1>1, <2>1, OwnerStays
  <2>3. found[q] \in Name
    BY <1>1 DEF TypeOK
  <2>4. Knows(q)'
    BY <1>1, <2>1, <2>3 DEF Knows, SetKnows, RemoveKnows, TlsKnows, PublishedAt, Name
  <2>5. QED
    BY <2>2, <2>4
<1>3. CASE SetAttach(q) \/ SetByClass(q)
  <2>1. /\ pc'[q] \in {"name", "drop", "failed"} /\ pc[q] \in {"attach", "class"}
        /\ UNCHANGED <<vhost, domain, owner, tls, cut>>
    BY <1>1, <1>3 DEF SetAttach, SetByClass, AfterAttach, TypeOK
  <2>2. OwnerInv(AppOf(q))'
    BY <1>1, <2>1, OwnerStays
  <2>3. Knows(q)'
    BY <2>1 DEF Knows, SetKnows, RemoveKnows, TlsKnows
  <2>4. QED
    BY <2>2, <2>3
<1>4. CASE SetDrop(q)
  <2>1. /\ pc'[q] = "name" /\ pc[q] = "drop" /\ UNCHANGED <<domain, owner, tls, cut>>
        /\ ~vhost'[AppOf(q)].tls
    BY <1>1, <1>4 DEF SetDrop, Off, TypeOK
  <2>2. OwnerInv(AppOf(q))'
    BY <1>1, <2>1, OwnerStays
  <2>3. Knows(q)'
    BY <2>1 DEF Knows, SetKnows, RemoveKnows, TlsKnows
  <2>4. QED
    BY <2>2, <2>3
<1>5. CASE SetName(q)
  <2>1. pc'[q] = "own"
    BY <1>1, <1>5 DEF SetName, TypeOK
  <2>2. QED
    BY <1>1, <2>1 DEF OwnerInv, Knows, SetKnows, RemoveKnows, TlsKnows
<1>6. CASE SetOwner(q)
  <2>1. pc'[q] = "tidy" /\ owner'[AppOf(q)] = "aapanel"
    BY <1>1, <1>6 DEF SetOwner, TypeOK
  <2>2. QED
    BY <1>1, <2>1 DEF OwnerInv, Knows, SetKnows, RemoveKnows, TlsKnows
<1>7. CASE SetTidy(q)
  <2>1. /\ pc'[q] = "ok" /\ owner'[AppOf(q)] = "aapanel" /\ ~vhost'[AppOf(q)].tls
    BY <1>1, <1>7 DEF SetTidy, Off, TypeOK, Knows, SetKnows
  <2>2. QED
    BY <1>1, <2>1 DEF OwnerInv, Knows, SetKnows, RemoveKnows, TlsKnows
<1>8. QED
  BY <1>2, <1>3, <1>4, <1>5, <1>6, <1>7 DEF SetSite, Begins

LEMMA RemoveLone ==
    ASSUME TypedInv, LoneInv, NEW q \in Request, RemoveSite(q), ~Begins(q), alone'
    PROVE  OwnerInv(AppOf(q))' /\ Knows(q)'
<1>1. /\ Step(q) /\ TypeOK /\ TypeOK' /\ Knows(q) /\ OwnerInv(AppOf(q)) /\ NamedInv(q)
      /\ AppOf(q) \in App /\ AppOf(q)' = AppOf(q) /\ dom[q] \in Name
  BY KnownBefore DEF Step
<1>2. CASE RemoveDelete(q)
  <2>1. PICK answer \in BOOLEAN : DeleteSite(dom[q], answer) /\ sure' = [sure EXCEPT ![q] = answer]
    BY <1>2 DEF RemoveDelete
  <2>2. /\ pc'[q] = "unvhost" /\ pc[q] = "delete" /\ UNCHANGED <<dom, vhost, domain, owner, tls, cut>>
        /\ dom[q] \in Domain
    BY <1>1, <1>2 DEF RemoveDelete, TypeOK, NamedInv, RemovePC, Name
  <2>3. sure'[q] => upstream'[dom[q]] = "none"
    BY <1>1, <2>1, <2>2 DEF DeleteSite, Tell, TypeOK
  <2>4. OwnerInv(AppOf(q))'
    BY <1>1, <2>2, OwnerStays
  <2>5. Knows(q)'
    BY <1>1, <2>2, <2>3 DEF Knows, SetKnows, RemoveKnows, TlsKnows
  <2>6. QED
    BY <2>4, <2>5
<1>3. CASE RemoveVhost(q)
  <2>1. /\ pc[q] = "unvhost" /\ pc'[q] = IF dom[q] = "none" \/ sure[q] THEN "unname" ELSE "failed"
        /\ UNCHANGED <<dom, upstream, domain, owner, tls, cut>> /\ ~vhost'[AppOf(q)].tls
    BY <1>1, <1>3 DEF RemoveVhost, Off, TypeOK
  <2>2. OwnerInv(AppOf(q))'
    BY <1>1, <2>1, OwnerStays
  <2>3. Knows(q)'
    BY <1>1, <2>1 DEF Knows, SetKnows, RemoveKnows, TlsKnows
  <2>4. QED
    BY <2>2, <2>3
<1>4. CASE RemoveName(q)
  <2>1. /\ pc[q] = "unname" /\ pc'[q] = "unown" /\ domain'[AppOf(q)] = "none"
        /\ vhost' = vhost /\ ~vhost[AppOf(q)].tls
    BY <1>1, <1>4 DEF RemoveName, TypeOK, Knows, RemoveKnows
  <2>2. OwnerInv(AppOf(q))'
    BY <1>1, <2>1 DEF OwnerInv
  <2>3. Knows(q)'
    BY <1>1, <2>1 DEF Knows, SetKnows, RemoveKnows, TlsKnows
  <2>4. QED
    BY <2>2, <2>3
<1>5. CASE RemoveOwner(q)
  <2>1. /\ pc[q] = "unown" /\ pc'[q] = "untls" /\ owner'[AppOf(q)] = "none"
        /\ UNCHANGED <<domain, vhost>> /\ ~vhost[AppOf(q)].tls /\ domain[AppOf(q)] = "none"
    BY <1>1, <1>5 DEF RemoveOwner, TypeOK, Knows, RemoveKnows
  <2>2. OwnerInv(AppOf(q))'
    BY <1>1, <2>1 DEF OwnerInv
  <2>3. Knows(q)'
    BY <1>1, <2>1 DEF Knows, SetKnows, RemoveKnows, TlsKnows, Secure
  <2>4. QED
    BY <2>2, <2>3
<1>6. CASE ClearTls(q)
  <2>1. pc[q] = "untls" /\ pc'[q] = "ok" /\ UNCHANGED <<domain, owner, vhost, cut>>
    BY <1>1, <1>6 DEF ClearTls, TypeOK
  <2>2. OwnerInv(AppOf(q))'
    BY <1>1, <2>1, OwnerStays
  <2>3. Knows(q)'
    BY <2>1 DEF Knows, SetKnows, RemoveKnows, TlsKnows
  <2>4. QED
    BY <2>2, <2>3
<1>7. QED
  BY <1>2, <1>3, <1>4, <1>5, <1>6 DEF RemoveSite, Begins

LEMMA TlsLone ==
    ASSUME TypedInv, LoneInv, NEW q \in Request, SetSiteSSL(q), ~Begins(q), alone'
    PROVE  OwnerInv(AppOf(q))' /\ Knows(q)'
<1>1. /\ Step(q) /\ TypeOK /\ TypeOK' /\ Knows(q) /\ OwnerInv(AppOf(q))
      /\ AppOf(q) \in App /\ AppOf(q)' = AppOf(q) /\ dom[q] \in Name
      /\ OwnerOf(AppOf(q)) \in {"aapanel", "javahost"}
      /\ Settled(AppOf(q)) <=> AppOf(q) \notin cut /\ pc[q] \notin {"own", "tidy"}
      /\ Settled(AppOf(q))' <=> AppOf(q) \notin cut' /\ pc'[q] \notin {"own", "tidy"}
  BY KnownBefore, Lonely, RequestTyped DEF Step
<1>2. CASE TlsOwner(q)
  <2>1. /\ pc[q] = "owner" /\ UNCHANGED <<dom, domain, owner, vhost, cut>>
        /\ own'[q] = OwnerOf(AppOf(q))
        /\ pc'[q] \in {"panel", "plain", "issue", "close", "revert"}
        /\ pc'[q] = "close" => OwnerOf(AppOf(q)) = "aapanel"
        /\ pc'[q] = "revert" => OwnerOf(AppOf(q)) # "aapanel"
    BY <1>1, <1>2 DEF TlsOwner, TypeOK
  <2>2. OwnerInv(AppOf(q))'
    BY <1>1, <2>1, OwnerStays
  <2>3. Knows(q)'
    BY <1>1, <2>1 DEF Knows, SetKnows, RemoveKnows, TlsKnows, OwnerOf
  <2>4. QED
    BY <2>2, <2>3
<1>3. CASE EnablePanel(q) \/ EnablePlain(q) \/ EnableIssue(q) \/ EnableConfirm(q) \/ EnableServe(q) \/ MarkTls(q)
  <2>1. /\ pc[q] \in {"panel", "plain", "issue", "confirm", "serve", "mark"}
        /\ UNCHANGED <<own, domain, owner, cut>>
        /\ pc'[q] \in {"mark", "failed", "issue", "serve", "confirm", "keep", "ok"}
        /\ pc'[q] = "issue" => pc[q] \in {"panel", "plain"}
        /\ pc'[q] = "serve" => pc[q] = "issue" /\ own[q] = "javahost"
        /\ pc'[q] = "keep" => pc[q] = "serve"
        /\ vhost' = vhost \/ ~vhost'[AppOf(q)].tls \/ pc[q] = "serve"
    <3>1. CASE EnablePanel(q)
      BY <1>1, <3>1 DEF EnablePanel, TypeOK
    <3>2. CASE EnablePlain(q)
      BY <1>1, <3>2 DEF EnablePlain, Activate, TypeOK
    <3>3. CASE EnableIssue(q)
      BY <1>1, <3>3 DEF EnableIssue, TypeOK
    <3>4. CASE EnableConfirm(q)
      BY <1>1, <3>4 DEF EnableConfirm, TypeOK
    <3>5. CASE EnableServe(q)
      BY <1>1, <3>5 DEF EnableServe, Activate, TypeOK
    <3>6. CASE MarkTls(q)
      BY <1>1, <3>6 DEF MarkTls, TypeOK
    <3>7. QED
      BY <1>3, <3>1, <3>2, <3>3, <3>4, <3>5, <3>6
  <2>2. OwnerInv(AppOf(q))'
    <3>1. CASE pc[q] = "serve"
      BY <1>1, <2>1, <3>1 DEF OwnerInv, OwnerOf, Knows, TlsKnows
    <3>2. CASE pc[q] # "serve"
      BY <1>1, <2>1, <3>2, OwnerStays
    <3>3. QED
      BY <3>1, <3>2
  <2>3. Knows(q)'
    BY <1>1, <2>1 DEF Knows, SetKnows, RemoveKnows, TlsKnows, OwnerOf
  <2>4. QED
    BY <2>2, <2>3
<1>4. CASE EnableKeep(q)
  <2>1. /\ pc[q] = "keep" /\ pc'[q] = "mark" /\ UNCHANGED <<domain, vhost, cut>>
        /\ owner'[AppOf(q)] = "javahost"
    BY <1>1, <1>4 DEF EnableKeep, TypeOK
  <2>2. OwnerInv(AppOf(q))'
    BY <1>1, <2>1 DEF OwnerInv, OwnerOf, Knows, TlsKnows
  <2>3. Knows(q)'
    BY <2>1 DEF Knows, SetKnows, RemoveKnows, TlsKnows
  <2>4. QED
    BY <2>2, <2>3
<1>5. CASE DisableClose(q)
  <2>1. PICK answer \in BOOLEAN : SwitchOff(dom[q], answer) /\ Goto(q, IF answer THEN "untls" ELSE "failed")
    BY <1>5 DEF DisableClose
  <2>2. /\ pc[q] = "close" /\ pc'[q] = (IF answer THEN "untls" ELSE "failed")
        /\ UNCHANGED <<upstream, domain, owner, vhost, cut>>
    BY <1>1, <1>5, <2>1 DEF DisableClose, SwitchOff, Tell, TypeOK
  <2>3. OwnerInv(AppOf(q))'
    BY <1>1, <2>2, OwnerStays
  <2>4. ASSUME answer, AppOf(q) \notin cut PROVE ~Secure(AppOf(q))'
    <3>1. ~vhost[AppOf(q)].tls
      BY <1>1, <2>2, <2>4 DEF OwnerInv, Knows, TlsKnows
    <3>2. domain[AppOf(q)] # "none" => domain[AppOf(q)] = dom[q] /\ dom[q] \in Domain
      BY <1>1, <2>2 DEF Knows, TlsKnows, Name
    <3>3. dom[q] \in Domain => ~https'[dom[q]]
      BY <1>1, <2>1, <2>4 DEF SwitchOff, Tell, TypeOK
    <3>4. QED
      BY <1>1, <2>2, <3>1, <3>2, <3>3 DEF Secure
  <2>5. Knows(q)'
    BY <1>1, <2>2, <2>4 DEF Knows, SetKnows, RemoveKnows, TlsKnows
  <2>6. QED
    BY <2>3, <2>5
<1>6. CASE DisableRevert(q)
  <2>1. /\ pc[q] = "revert" /\ pc'[q] \in {"untls", "failed"}
        /\ UNCHANGED <<site, upstream, https, domain, owner, cut>> /\ ~vhost'[AppOf(q)].tls
    BY <1>1, <1>6 DEF DisableRevert, Activate, TypeOK
  <2>2. OwnerInv(AppOf(q))'
    BY <1>1, <2>1, OwnerStays
  <2>3. AppOf(q) \notin cut => domain[AppOf(q)] = "none"
    BY <1>1, <2>1 DEF OwnerInv, OwnerOf, Knows, TlsKnows
  <2>4. Knows(q)'
    BY <1>1, <2>1, <2>3 DEF Knows, SetKnows, RemoveKnows, TlsKnows, Secure
  <2>5. QED
    BY <2>2, <2>4
<1>7. QED
  BY <1>2, <1>3, <1>4, <1>5, <1>6 DEF SetSiteSSL, Begins

LEMMA DiesLone ==
    ASSUME TypedInv, LoneInv, NEW q \in Request, Dies(q), alone'
    PROVE  OwnerInv(AppOf(q))' /\ Knows(q)'
<1>1. /\ Step(q) /\ TypeOK /\ OwnerInv(AppOf(q)) /\ AppOf(q)' = AppOf(q)
      /\ Settled(AppOf(q)) <=> AppOf(q) \notin cut /\ pc[q] \notin {"own", "tidy"}
      /\ Settled(AppOf(q))' <=> AppOf(q) \notin cut' /\ pc'[q] \notin {"own", "tidy"}
  BY KnownBefore, Lonely DEF Step
<1>2. pc'[q] = "dead" /\ UNCHANGED <<vhost, domain, owner>>
  BY <1>1 DEF Dies, TypeOK
<1>3. Settled(AppOf(q))' => Settled(AppOf(q))
  BY <1>1 DEF Dies
<1>4. OwnerInv(AppOf(q))'
  BY <1>1, <1>2, <1>3 DEF OwnerInv, OwnerOf
<1>5. Knows(q)'
  BY <1>2 DEF Knows, SetKnows, RemoveKnows, TlsKnows
<1>6. QED
  BY <1>4, <1>5

LEMMA LoneStep == TypedInv /\ LoneInv /\ [Next]_vars => LoneInv'
<1> SUFFICES ASSUME TypedInv, LoneInv, [Next]_vars PROVE LoneInv'
  OBVIOUS
<1>1. ASSUME NEW q \in Request, Step(q) PROVE LoneInv'
  <2>1. alone' => OwnerInv(AppOf(q))' /\ Knows(q)'
    BY <1>1, BeginsLone, SetLone, RemoveLone, TlsLone, DiesLone DEF Step, Begins
  <2>2. QED
    BY <1>1, <2>1, LoneOthers
<1>2. CASE UNCHANGED vars
  BY <1>2 DEF vars, LoneInv, Busy, OwnerInv, Settled, OwnerOf, SetKnows, RemoveKnows, TlsKnows,
     PublishedAt, Secure
<1>3. QED
  BY <1>1, <1>2 DEF Next, Step

LEMMA LoneInitial == Init => LoneInv
BY DEF Init, LoneInv, Busy, WorkPC, OwnerInv, OwnerOf, SetKnows, RemoveKnows, TlsKnows, Off

\* What requests that do not overlap know of their apps is so at every step.
THEOREM LoneSafe == Spec => [](TypedInv /\ LoneInv)
<1>1. Init => TypedInv /\ LoneInv
  BY TypedInitial, LoneInitial
<1>2. TypedInv /\ LoneInv /\ [Next]_vars => (TypedInv /\ LoneInv)'
  BY TypedStep, LoneStep
<1>3. QED
  BY <1>1, <1>2, PTL DEF Spec

\* A request that goes on while none overlaps it leaves it so.
LEMMA StaysAlone ==
    ASSUME NEW q \in Request, Step(q), alone, Busy(q)
    PROVE  alone' /\ ~Begins(q)
<1>1. ~Begins(q)
  BY DEF Begins, SetBegin, RemoveBegin, TlsBegin, RenewBegin, Begin, Busy, WorkPC
<1>2. QED
  BY <1>1, Overlaps

\* A SetSite that fails leaves the app published where it was: the new site is attached
\* before the previous one is dropped, and a failed attach takes nothing away
\* (proxy.py 610-611, aapanel.py 266-267).
THEOREM FailedSetAlwaysKeepsSite == Spec => FailedSetKeepsSite
<1>1. ASSUME TypedInv, LoneInv, NEW q \in Request, Step(q), NEW r \in Request,
             alone, Asks(r, "set"), found[r] # "none", Busy(r), pc'[r] = "failed"
      PROVE  PublishedAt(AppOf(r), found[r])'
  <2>1. r = q
    BY <1>1, StepTyped DEF Typed, Turn, Busy, WorkPC
  <2>2. alone' /\ ~Begins(q) /\ TypeOK /\ TypeOK' /\ RouteInv(q) /\ Knows(q) /\ AppOf(q) \in App
    BY <1>1, <2>1, StaysAlone, KnownBefore
  <2>3. SetAdd(q) \/ SetAttach(q) \/ SetByClass(q)
    <3>1. pc[q] \in SetPC
      BY <1>1, <2>1, <2>2 DEF RouteInv, SetPC, RemovePC, EnablePC, Busy, WorkPC, Asks
    <3>2. SetSite(q) \/ Dies(q)
      BY <1>1, <2>1, <2>2, <3>1 DEF Step, Begins, RemoveSite, RemoveDelete, RemoveVhost,
         RemoveName,
         RemoveOwner, ClearTls, SetSiteSSL, TlsOwner, EnablePanel, EnablePlain, EnableIssue, EnableConfirm,
         EnableServe, EnableKeep, MarkTls, DisableClose, DisableRevert, SetPC
    <3>3. QED
      BY <1>1, <2>1, <2>2, <3>2 DEF SetSite, Begins, SetDrop, SetName, SetOwner, SetTidy, Dies,
         TypeOK
  <2>4. PublishedAt(AppOf(q), found[q])
    BY <1>1, <2>1, <2>2, <2>3 DEF SetAdd, SetAttach, SetByClass, Knows, SetKnows
  <2>5. found[q] \in Domain /\ UNCHANGED <<req, found, domain>>
    BY <1>1, <2>1, <2>2, <2>3 DEF SetAdd, SetAttach, SetByClass, TypeOK, Name
  <2>6. site'[found[q]] # "none" /\ upstream'[found[q]] = AppOf(q)
    <3>1. CASE SetAdd(q)
      BY <2>2, <2>4, <2>5, <3>1 DEF SetAdd, AddSite, Tell, PublishedAt, TypeOK
    <3>2. CASE SetAttach(q)
      BY <2>2, <2>4, <2>5, <3>2 DEF SetAttach, Attach, Tell, PublishedAt, TypeOK
    <3>3. CASE SetByClass(q)
      BY <2>2, <2>4, <2>5, <3>3 DEF SetByClass, Attach, Tell, PublishedAt, TypeOK
    <3>4. QED
      BY <2>3, <3>1, <3>2, <3>3
  <2>7. QED
    BY <2>1, <2>4, <2>5, <2>6 DEF PublishedAt
<1>2. TypedInv /\ LoneInv /\ [Next]_vars =>
         [\A r \in Request :
             /\ alone /\ Asks(r, "set") /\ found[r] # "none"
             /\ Busy(r) /\ pc'[r] = "failed"
             => PublishedAt(AppOf(r), found[r])']_vars
  BY <1>1 DEF Next, Step
<1>3. QED
  BY <1>2, LoneSafe, PTL DEF Spec, FailedSetKeepsSite

\* The domain of an app is forgotten only when the panel no longer serves the app there
\* (proxy.py 655-657).
THEOREM NameAlwaysKept == Spec => NameKept
<1>1. ASSUME TypedInv, LoneInv, NEW q \in Request, Step(q), NEW a \in App,
             alone, domain[a] # "none", domain'[a] = "none"
      PROVE  upstream[domain[a]] # a
  <2>1. TypeOK /\ RouteInv(q) /\ AppOf(q) \in App /\ req[q].dom \in Name
    BY <1>1, RequestTyped DEF TypedInv
  <2>2. RemoveName(q) \/ SetName(q)
    BY <1>1 DEF Step, SetSite, SetBegin, Begin, SetAdd, SetAttach, SetByClass, SetDrop,
       SetOwner, SetTidy,
       RemoveSite, RemoveBegin, RemoveDelete, RemoveVhost, RemoveOwner, ClearTls, SetSiteSSL, TlsBegin,
       TlsOwner, EnablePanel, EnablePlain, EnableIssue, EnableConfirm, EnableServe, EnableKeep, MarkTls,
       DisableClose, DisableRevert, RenewBegin, Dies
  <2>3. ~SetName(q)
    <3>1. SetName(q) => req[q].dom \in Domain
      BY <2>1, RequestTyped DEF SetName, RouteInv, SetPC
    <3>2. SetName(q) => domain'[a] \in {domain[a], req[q].dom}
      BY <2>1 DEF SetName, TypeOK
    <3>3. QED
      BY <1>1, <3>1, <3>2, DomainsAssumption
  <2>4. a = AppOf(q) /\ pc[q] = "unname"
    BY <1>1, <2>1, <2>2, <2>3 DEF RemoveName, TypeOK
  <2>5. RemoveKnows(q)
    BY <1>1 DEF LoneInv
  <2>6. QED
    BY <1>1, <2>4, <2>5, DomainsAssumption DEF RemoveKnows
<1>2. TypedInv /\ LoneInv /\ [Next]_vars =>
         [\A a \in App : alone /\ domain[a] # "none" /\ domain'[a] = "none" => upstream[domain[a]] # a]_vars
  BY <1>1 DEF Next, Step
<1>3. QED
  BY <1>2, LoneSafe, PTL DEF Spec, NameKept

\* TLS is reported as off only of an app that is not served over HTTPS (ssl.py 403-407).
THEOREM TlsOffAlwaysOff == Spec => TlsOffIsOff
<1>1. ASSUME TypedInv, LoneInv, NEW q \in Request, Step(q), NEW a \in App \ cut, alone, tls[a], ~tls'[a]
      PROVE  ~Secure(a)
  <2>1. TypeOK /\ AppOf(q) \in App
    BY <1>1, RequestTyped DEF TypedInv
  <2>2. ClearTls(q)
    BY <1>1, <2>1 DEF Step, SetSite, SetBegin, Begin, SetAdd, SetAttach, SetByClass, SetDrop,
       SetName, SetOwner,
       SetTidy, RemoveSite, RemoveBegin, RemoveDelete, RemoveVhost, RemoveName, RemoveOwner, SetSiteSSL,
       TlsBegin, TlsOwner, EnablePanel, EnablePlain, EnableIssue, EnableConfirm, EnableServe, EnableKeep,
       MarkTls, DisableClose, DisableRevert, RenewBegin, Dies, TypeOK
  <2>3. a = AppOf(q) /\ pc[q] = "untls"
    BY <1>1, <2>1, <2>2 DEF ClearTls, TypeOK
  <2>4. QED
    BY <1>1, <2>3 DEF LoneInv, TlsKnows
<1>2. TypedInv /\ LoneInv /\ [Next]_vars =>
         [\A a \in App \ cut : alone /\ tls[a] /\ ~tls'[a] => ~Secure(a)]_vars
  BY <1>1 DEF Next, Step
<1>3. QED
  BY <1>2, LoneSafe, PTL DEF Spec, TlsOffIsOff
===============================================================================
