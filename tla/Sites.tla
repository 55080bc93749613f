-------------------------------- MODULE Sites ---------------------------------
(***************************************************************************)
(* core/deploy/proxy.py, core/deploy/ssl.py and their panel calls in       *)
(* core/compat/aapanel.py: publishing an app at a domain, with TLS.        *)
(*                                                                         *)
(* Three records must agree: what the panel serves, the vhost the plugin   *)
(* writes itself, and the markers site.domain, site.owner and site.ssl in  *)
(* the app's directory.  Every panel call and every marker write is a step *)
(* of its own, and no request holds a lock across two of them.             *)
(***************************************************************************)
EXTENDS Integers, FiniteSets

CONSTANTS
    App, Domain,
    Request,    \* SetSite, RemoveSite and SetSiteSSL requests and runs of the renewal hook
    Covered,    \* domains under a wildcard certificate that is on disk
    HasKey,     \* an API key of the panel is configured
    ClassApi,   \* the panel's own panelSite class can be imported
    Certbot,    \* certbot is installed
    Faults

\* panel : the panel refuses a call            lost : it obeys, but the answer is lost
\* nginx : nginx rejects the configuration     cert : no certificate is issued
\* kill  : the request's process dies
FaultKind == {"panel", "lost", "nginx", "cert", "kill"}

ASSUME DomainsAssumption == Covered \subseteq Domain /\ "none" \notin Domain \cup App
ASSUME FaultsAssumption  == Faults \subseteq FaultKind /\ {HasKey, ClassApi, Certbot} \subseteq BOOLEAN

VARIABLES
    \* the panel
    site,       \* its site of each domain: none, the operator's, or one with a JavaHost note
    upstream,   \* the app its proxy points to
    https,      \* it serves the domain over HTTPS
    cert,       \* a certificate for just this domain is on disk
    \* the plugin
    vhost,      \* the vhost file of each app: off, or plain or tls for a domain
    domain,     \* site.domain
    owner,      \* site.owner
    tls,        \* site.ssl
    \* the requests
    req,        \* what each one is asked to do
    pc,
    dom,        \* the domain it works on, or for SetSite the previous one
    own,        \* the owner it has read
    sure,       \* RemoveSite: the panel confirmed the removal
    \* history
    alone,      \* no request has begun while another one was busy
    found,      \* the app's published domain when each request began
    claimed,    \* domains that a marker has named
    cut         \* apps whose SetSite died between naming the domain and removing the vhost

panelVars  == <<site, upstream, https, cert>>
markerVars == <<domain, owner, tls>>
localVars  == <<dom, own, sure>>
histVars   == <<alone, found, claimed, cut>>
vars == <<panelVars, vhost, markerVars, req, pc, localVars, histVars>>

Name  == {"none"} \cup Domain
Vhost == [name : Name, tls : BOOLEAN]
Off   == [name |-> "none", tls |-> FALSE]

\* SetSite names a domain, SetSiteSSL may.
Asked == [op : {"set", "enable", "disable"}, app : App, dom : Domain]
         \cup [op : {"remove", "renew"}, app : App, dom : {"none"}]

Answer == {"ok", "failed", "dead"}
WorkPC == {"add", "attach", "class", "drop", "name", "own", "tidy",
           "delete", "unvhost", "unname", "unown", "untls",
           "owner", "panel", "plain", "issue", "serve", "confirm", "keep", "mark",
           "close", "revert"}
Busy(r) == pc[r] \in WorkPC

\* The app is served at its domain.
PublishedAt(a, d) == domain[a] = d /\ d # "none" /\ site[d] # "none" /\ upstream[d] = a

\* read_owner(): what the marker says, or what its absence stands for.
OwnerOf(a) == IF owner[a] # "none" THEN owner[a]
              ELSE IF domain[a] # "none" THEN "aapanel" ELSE "javahost"

\* Some apps are published already, each at a domain of its own or, with TLS, by the
\* plugin's vhost, and the operator has sites too.
Init ==
    /\ domain \in [App -> Name]
    /\ \A a, b \in App : domain[a] = domain[b] /\ domain[a] # "none" => a = b
    /\ upstream = [d \in Domain |-> IF \E a \in App : domain[a] = d
                                    THEN CHOOSE a \in App : domain[a] = d ELSE "none"]
    /\ site \in [Domain -> {"none", "foreign", "javahost"}]
    /\ \A d \in Domain : upstream[d] # "none" <=> site[d] = "javahost"
    /\ vhost \in [App -> {Off} \cup [name : Domain, tls : {TRUE}]]
    /\ \A a \in App : vhost[a].tls => domain[a] = "none"
    /\ tls \in [App -> BOOLEAN]
    /\ \A a \in App : domain[a] = "none" => tls[a] = vhost[a].tls
    /\ https = [d \in Domain |-> \E a \in App : domain[a] = d /\ tls[a]]
    /\ cert \in [Domain -> BOOLEAN] /\ \A d \in Domain : https[d] => cert[d]
    /\ \A a \in App : vhost[a].tls => cert[vhost[a].name]
    /\ owner = [a \in App |-> IF vhost[a].tls THEN "javahost"
                              ELSE IF domain[a] = "none" THEN "none" ELSE "aapanel"]
    /\ req \in [Request -> Asked]
    /\ pc = [r \in Request |-> "idle"]
    /\ dom = [r \in Request |-> "none"] /\ own = [r \in Request |-> "none"]
    /\ sure = [r \in Request |-> FALSE]
    /\ alone = TRUE
    /\ found = [r \in Request |-> "none"]
    /\ claimed = {d \in Domain : \E a \in App : domain[a] = d}
    /\ cut = {}

AppOf(r)   == req[r].app
Asks(r, o) == req[r].op = o

Goto(r, l) == pc' = [pc EXCEPT ![r] = l]
Move(r, from, to) == pc[r] = from /\ Goto(r, to)

\* The plugin's own vhost: write, include, test and reload, or an error that leaves
\* the file behind.
Activate(r, on, next) ==
    /\ vhost' = [vhost EXCEPT ![AppOf(r)] = [name |-> dom[r], tls |-> on]]
    /\ Goto(r, next) \/ ("nginx" \in Faults /\ Goto(r, "failed"))

Unvhost(r) == vhost' = [vhost EXCEPT ![AppOf(r)] = Off]

------------------------------------------------------------------------------
(* Calls to the panel.  The answer is TRUE only when the panel has obeyed. *)

Tell(answer, can, effect) ==
    \/ can /\ (answer \/ "lost" \in Faults) /\ effect
    \/ ~answer /\ (~can \/ "panel" \in Faults) /\ UNCHANGED panelVars

AddSite(d, answer) ==
    Tell(answer, site[d] = "none",
         /\ site' = [site EXCEPT ![d] = "javahost"]
         /\ UNCHANGED <<upstream, https, cert>>)

\* CreateProxy and its kin, then the panel's own proxy files.
Attach(d, a, can, answer) ==
    Tell(answer, can /\ site[d] # "none",
         /\ upstream' = [upstream EXCEPT ![d] = a]
         /\ UNCHANGED <<site, https, cert>>)

\* aapanel_remove_site: the HTTP API, then the classes; by name, whoever made it.
DeleteSite(d, answer) ==
    Tell(answer, site[d] # "none" /\ (HasKey \/ ClassApi),
         /\ site' = [site EXCEPT ![d] = "none"]
         /\ upstream' = [upstream EXCEPT ![d] = "none"]
         /\ https' = [https EXCEPT ![d] = FALSE]
         /\ UNCHANGED cert)

\* A certificate is issued, or not.
Issue(d) == cert' = [cert EXCEPT ![d] = TRUE] \/ ("cert" \in Faults /\ UNCHANGED cert)

\* http_enable_site_ssl: a best-effort certificate, then a switch that must be
\* confirmed.
SwitchOn(d, answer) ==
    IF ~HasKey THEN ~answer /\ UNCHANGED panelVars
    ELSE /\ Issue(d)
         /\ \/ /\ site[d] # "none" /\ (answer \/ "lost" \in Faults)
               /\ https' = [https EXCEPT ![d] = TRUE]
            \/ /\ ~answer /\ (site[d] = "none" \/ "panel" \in Faults)
               /\ UNCHANGED https
         /\ UNCHANGED <<site, upstream>>

SwitchOff(d, answer) ==
    Tell(answer, HasKey /\ site[d] # "none",
         /\ https' = [https EXCEPT ![d] = FALSE]
         /\ UNCHANGED <<site, upstream, cert>>)

------------------------------------------------------------------------------
(* What every request does first: it reads the markers.                    *)

Begin(r, next, name) ==
    /\ pc[r] = "idle"
    /\ Goto(r, next)
    /\ dom' = [dom EXCEPT ![r] = name]
    /\ alone' = (alone /\ \A q \in Request : ~Busy(q))
    /\ found' = [found EXCEPT ![r] = IF PublishedAt(AppOf(r), domain[AppOf(r)])
                                     THEN domain[AppOf(r)] ELSE "none"]
    /\ UNCHANGED <<panelVars, vhost, markerVars, req, own, sure, claimed, cut>>

Dies(r) ==
    /\ "kill" \in Faults /\ Busy(r)
    /\ Goto(r, "dead")
    /\ cut' = IF pc[r] \in {"own", "tidy"} THEN cut \cup {AppOf(r)} ELSE cut
    /\ UNCHANGED <<panelVars, vhost, markerVars, req, localVars, alone, found, claimed>>

------------------------------------------------------------------------------
(* set_site()                                                              *)

\* nginx must have the upgrade map; then the previous domain is read.
SetBegin(r) ==
    /\ Asks(r, "set")
    /\ \/ Begin(r, IF HasKey THEN "add" ELSE "class", domain[AppOf(r)])
       \/ "nginx" \in Faults /\ Begin(r, "failed", "none")

\* Faulty variant: any existing site is reused.
AddReusesAny(r) ==
    /\ pc[r] = "add"
    /\ \E answer \in BOOLEAN :
          /\ AddSite(req[r].dom, answer)
          /\ Goto(r, IF answer \/ site[req[r].dom] # "none" THEN "attach" ELSE "class")
    /\ UNCHANGED <<vhost, markerVars, req, localVars, histVars>>

\* AddSite.  A site that exists is reused if its note says JavaHost and this domain;
\* another one is a conflict.  Without a usable answer the classes are tried.
SetAdd(r) ==
    /\ pc[r] = "add"
    /\ \E answer \in BOOLEAN :
          /\ AddSite(req[r].dom, answer)
          /\ \/ answer /\ Goto(r, "attach")
             \/ ~answer /\ site[req[r].dom] = "javahost" /\ Goto(r, "attach")
             \/ ~answer /\ site[req[r].dom] = "foreign" /\ Goto(r, "failed")
             \/ ~answer /\ {"panel", "lost"} \cap Faults # {} /\ Goto(r, "class")
    /\ UNCHANGED <<vhost, markerVars, req, localVars, histVars>>

\* Only another, previous domain is dropped.
AfterAttach(r) == IF dom[r] \in {"none", req[r].dom} THEN "name" ELSE "drop"

\* Faulty variant: the previous domain is dropped whether the new one is there or not.
DropAnyway(r) ==
    /\ pc[r] = "attach"
    /\ \E answer \in BOOLEAN : DeleteSite(IF dom[r] = "none" THEN req[r].dom ELSE dom[r], answer)
    /\ Goto(r, "class")
    /\ UNCHANGED <<vhost, markerVars, req, localVars, histVars>>

\* A failed attach deletes nothing.
SetAttach(r) ==
    /\ pc[r] = "attach"
    /\ \E answer \in BOOLEAN :
          /\ Attach(req[r].dom, AppOf(r), TRUE, answer)
          /\ Goto(r, IF answer THEN AfterAttach(r) ELSE "failed")
    /\ UNCHANGED <<vhost, markerVars, req, localVars, histVars>>

\* panelSite.CreateProxy, which looks at no note.
SetByClass(r) ==
    /\ pc[r] = "class"
    /\ \E answer \in BOOLEAN :
          /\ Attach(req[r].dom, AppOf(r), ClassApi, answer)
          /\ Goto(r, IF answer THEN AfterAttach(r) ELSE "failed")
    /\ UNCHANGED <<vhost, markerVars, req, localVars, histVars>>

\* The previous site goes; a failure to remove it is passed over.
SetDrop(r) ==
    /\ Move(r, "drop", "name")
    /\ \E answer \in BOOLEAN : DeleteSite(dom[r], answer)
    /\ Unvhost(r)
    /\ UNCHANGED <<markerVars, req, localVars, histVars>>

SetName(r) ==
    /\ Move(r, "name", "own")
    /\ domain' = [domain EXCEPT ![AppOf(r)] = req[r].dom]
    /\ claimed' = claimed \cup {req[r].dom}
    /\ UNCHANGED <<panelVars, vhost, owner, tls, req, localVars, alone, found, cut>>

\* Faulty variant: the arguments of the write are mixed up.
SetOwnerMixedUp(r) ==
    /\ Move(r, "own", "tidy")
    /\ owner' = [owner EXCEPT ![AppOf(r)] = req[r].dom]
    /\ UNCHANGED <<panelVars, vhost, domain, tls, req, localVars, histVars>>

SetOwner(r) ==
    /\ Move(r, "own", "tidy")
    /\ owner' = [owner EXCEPT ![AppOf(r)] = "aapanel"]
    /\ UNCHANGED <<panelVars, vhost, domain, tls, req, localVars, histVars>>

SetTidy(r) ==
    /\ Move(r, "tidy", "ok")
    /\ Unvhost(r)
    /\ cut' = cut \ {AppOf(r)}
    /\ UNCHANGED <<panelVars, markerVars, req, localVars, alone, found, claimed>>

------------------------------------------------------------------------------
(* remove_site()                                                           *)

RemoveBegin(r) ==
    /\ Asks(r, "remove")
    /\ Begin(r, IF domain[AppOf(r)] = "none" THEN "unvhost" ELSE "delete", domain[AppOf(r)])

RemoveDelete(r) ==
    /\ Move(r, "delete", "unvhost")
    /\ \E answer \in BOOLEAN :
          /\ DeleteSite(dom[r], answer)
          /\ sure' = [sure EXCEPT ![r] = answer]
    /\ UNCHANGED <<vhost, markerVars, req, dom, own, histVars>>

\* Faulty variant: the markers are cleared whatever the panel said.
RemoveUnsure(r) ==
    /\ Move(r, "unvhost", "unname")
    /\ Unvhost(r)
    /\ UNCHANGED <<panelVars, markerVars, req, localVars, histVars>>

\* Without a confirmed removal the markers stay for a retry.
RemoveVhost(r) ==
    /\ Move(r, "unvhost", IF dom[r] = "none" \/ sure[r] THEN "unname" ELSE "failed")
    /\ Unvhost(r)
    /\ UNCHANGED <<panelVars, markerVars, req, localVars, histVars>>

RemoveName(r) ==
    /\ Move(r, "unname", "unown")
    /\ domain' = [domain EXCEPT ![AppOf(r)] = "none"]
    /\ cut' = cut \ {AppOf(r)}
    /\ UNCHANGED <<panelVars, vhost, owner, tls, req, localVars, alone, found, claimed>>

RemoveOwner(r) ==
    /\ Move(r, "unown", "untls")
    /\ owner' = [owner EXCEPT ![AppOf(r)] = "none"]
    /\ UNCHANGED <<panelVars, vhost, domain, tls, req, localVars, histVars>>

\* Also the last step of disable().
ClearTls(r) ==
    /\ Move(r, "untls", "ok")
    /\ tls' = [tls EXCEPT ![AppOf(r)] = FALSE]
    /\ UNCHANGED <<panelVars, vhost, domain, owner, req, localVars, histVars>>

------------------------------------------------------------------------------
(* enable(), disable() and refresh_all_markers()                           *)

\* The stored domain, or the one the request names.
TlsBegin(r) ==
    /\ Asks(r, "enable") \/ Asks(r, "disable")
    /\ Begin(r, "owner", IF domain[AppOf(r)] = "none" THEN req[r].dom ELSE domain[AppOf(r)])

TlsOwner(r) ==
    /\ pc[r] = "owner"
    /\ own' = [own EXCEPT ![r] = OwnerOf(AppOf(r))]
    /\ Goto(r, IF Asks(r, "disable") THEN IF OwnerOf(AppOf(r)) = "aapanel" THEN "close" ELSE "revert"
               ELSE IF OwnerOf(AppOf(r)) = "javahost" THEN "plain"
               ELSE IF HasKey THEN "panel" ELSE "issue")
    /\ UNCHANGED <<panelVars, vhost, markerVars, req, dom, sure, histVars>>

\* A site of the panel: a certificate on disk is not enough, the panel must serve it.
EnablePanel(r) ==
    /\ pc[r] = "panel"
    /\ \E answer \in BOOLEAN :
          /\ SwitchOn(dom[r], answer)
          /\ Goto(r, IF answer /\ (dom[r] \in Covered \/ cert'[dom[r]]) THEN "mark"
                     ELSE IF dom[r] \in Covered THEN "failed" ELSE "issue")
    /\ UNCHANGED <<vhost, markerVars, req, localVars, histVars>>

\* The plugin's own site: HTTP first, so that a challenge can be answered.
EnablePlain(r) ==
    /\ pc[r] = "plain"
    /\ Activate(r, FALSE, "issue")
    /\ UNCHANGED <<panelVars, markerVars, req, localVars, histVars>>

\* The panel's ACME (for a plugin site) or certbot, unless a wildcard covers the
\* domain; then whoever owns the site must serve the certificate.  A panel site whose
\* certificate was there before and could not be renewed is marked at once.
EnableIssue(r) ==
    /\ pc[r] = "issue"
    /\ \E issued \in BOOLEAN :
          /\ issued => dom[r] \notin Covered /\ (Certbot \/ (own[r] = "javahost" /\ HasKey))
          /\ ~issued => \/ "cert" \in Faults \/ dom[r] \in Covered
                        \/ ~(Certbot \/ (own[r] = "javahost" /\ HasKey))
          /\ cert' = IF issued THEN [cert EXCEPT ![dom[r]] = TRUE] ELSE cert
          /\ Goto(r, IF ~cert'[dom[r]] /\ dom[r] \notin Covered THEN "failed"
                     ELSE IF own[r] = "javahost" THEN "serve"
                     ELSE IF issued \/ dom[r] \in Covered THEN "confirm" ELSE "mark")
    /\ UNCHANGED <<site, upstream, https, vhost, markerVars, req, localVars, histVars>>

EnableConfirm(r) ==
    /\ pc[r] = "confirm"
    /\ \E answer \in BOOLEAN :
          /\ SwitchOn(dom[r], answer)
          /\ Goto(r, IF answer THEN "mark" ELSE "failed")
    /\ UNCHANGED <<vhost, markerVars, req, localVars, histVars>>

EnableServe(r) ==
    /\ pc[r] = "serve"
    /\ Activate(r, TRUE, "keep")
    /\ UNCHANGED <<panelVars, markerVars, req, localVars, histVars>>

EnableKeep(r) ==
    /\ Move(r, "keep", "mark")
    /\ owner' = [owner EXCEPT ![AppOf(r)] = "javahost"]
    /\ UNCHANGED <<panelVars, vhost, domain, tls, req, localVars, histVars>>

MarkTls(r) ==
    /\ Move(r, "mark", "ok")
    /\ tls' = [tls EXCEPT ![AppOf(r)] = TRUE]
    /\ UNCHANGED <<panelVars, vhost, domain, owner, req, localVars, histVars>>

\* Faulty variant: the marker goes whatever the panel said.
CloseUnsure(r) ==
    /\ Move(r, "close", "untls")
    /\ \E answer \in BOOLEAN : SwitchOff(dom[r], answer)
    /\ UNCHANGED <<vhost, markerVars, req, localVars, histVars>>

DisableClose(r) ==
    /\ pc[r] = "close"
    /\ \E answer \in BOOLEAN :
          /\ SwitchOff(dom[r], answer)
          /\ Goto(r, IF answer THEN "untls" ELSE "failed")
    /\ UNCHANGED <<vhost, markerVars, req, localVars, histVars>>

DisableRevert(r) ==
    /\ pc[r] = "revert"
    /\ Activate(r, FALSE, "untls")
    /\ UNCHANGED <<panelVars, markerVars, req, localVars, histVars>>

\* The renewal hook rewrites the markers that are there.
RenewBegin(r) ==
    /\ Asks(r, "renew")
    /\ Begin(r, IF /\ tls[AppOf(r)] /\ domain[AppOf(r)] # "none"
                   /\ cert[domain[AppOf(r)]] \/ domain[AppOf(r)] \in Covered
                THEN "mark" ELSE "ok", domain[AppOf(r)])

SetSite(r)    == \/ SetBegin(r) \/ SetAdd(r) \/ SetAttach(r) \/ SetByClass(r) \/ SetDrop(r)
                 \/ SetName(r) \/ SetOwner(r) \/ SetTidy(r)
RemoveSite(r) == \/ RemoveBegin(r) \/ RemoveDelete(r) \/ RemoveVhost(r) \/ RemoveName(r)
                 \/ RemoveOwner(r) \/ ClearTls(r)
SetSiteSSL(r) == \/ TlsBegin(r) \/ TlsOwner(r) \/ EnablePanel(r) \/ EnablePlain(r)
                 \/ EnableIssue(r) \/ EnableConfirm(r) \/ EnableServe(r) \/ EnableKeep(r)
                 \/ MarkTls(r) \/ DisableClose(r) \/ DisableRevert(r)

Next == \E r \in Request : SetSite(r) \/ RemoveSite(r) \/ SetSiteSSL(r) \/ RenewBegin(r) \/ Dies(r)

Spec == Init /\ [][Next]_vars

------------------------------------------------------------------------------
TypeOK ==
    /\ site \in [Domain -> {"none", "foreign", "javahost"}]
    /\ upstream \in [Domain -> {"none"} \cup App]
    /\ https \in [Domain -> BOOLEAN] /\ cert \in [Domain -> BOOLEAN]
    /\ vhost \in [App -> Vhost]
    /\ domain \in [App -> Name] /\ owner \in [App -> {"none", "aapanel", "javahost"}]
    /\ tls \in [App -> BOOLEAN]
    /\ req \in [Request -> Asked]
    /\ pc \in [Request -> {"idle"} \cup WorkPC \cup Answer]
    /\ dom \in [Request -> Name] /\ own \in [Request -> {"none", "aapanel", "javahost"}]
    /\ sure \in [Request -> BOOLEAN]
    /\ alone \in BOOLEAN /\ found \in [Request -> Name]
    /\ claimed \subseteq Domain /\ cut \subseteq App

\* Of requests that do not overlap, a SetSite that fails leaves the app published
\* where it was: the new site is attached before the previous one is dropped, and a
\* failed attach takes nothing away (proxy.py 610-611, aapanel.py 266-267).
FailedSetKeepsSite ==
    [][\A r \in Request :
          /\ alone /\ Asks(r, "set") /\ found[r] # "none"
          /\ Busy(r) /\ pc'[r] = "failed"
          => PublishedAt(AppOf(r), found[r])']_vars

\* Of requests that do not overlap, none forgets the domain of an app that the panel
\* still serves: the markers are kept for a retry (proxy.py 655-657).
NameKept ==
    [][\A a \in App : alone /\ domain[a] # "none" /\ domain'[a] = "none"
                         => upstream[domain[a]] # a]_vars

\* The app is served over HTTPS, by the panel or by the plugin's vhost.
Secure(a) == \/ vhost[a].tls
             \/ domain[a] # "none" /\ upstream[domain[a]] = a /\ https[domain[a]]

\* Of requests that do not overlap, none reports TLS as off while the app is served
\* over HTTPS (ssl.py 403-407).  Not so after a SetSite that died between its markers
\* and the removal of the plugin's vhost: the owner it has named, or has not come to
\* name, is not who serves the app.
TlsOffIsOff ==
    [][\A a \in App \ cut : alone /\ tls[a] /\ ~tls'[a] => ~Secure(a)]_vars

\* A site the operator made, at a domain no app was ever published at, is never
\* deleted, and only panelSite's class, which looks at no note, points it elsewhere
\* (aapanel.py 264-266).
ForeignKept ==
    [][\A d \in Domain \ claimed : site[d] = "foreign" =>
          /\ site'[d] = "foreign"
          /\ upstream'[d] # upstream[d] => \E r \in Request : pc[r] = "class"]_vars

\* An app is marked as TLS only when it is served over HTTPS (ssl.py 296, 373-374).
MarkedIsServed ==
    [][\A r \in Request : pc[r] = "mark" /\ pc'[r] = "ok" => Secure(AppOf(r))]_vars
==============================================================================
