------------------------------ MODULE PanelFiles ------------------------------
(***************************************************************************)
(* core/compat/aapanel.py: the panel's own files behind a reverse proxy.   *)
(*                                                                         *)
(* Sites.tla treats attaching a proxy to a site as one call.  This is what *)
(* the call does: it takes inline proxy blocks out of the site's conf,     *)
(* asks the panel up to three times, and then writes the panel's three     *)
(* files itself: the proxy snippet, the include in the site's conf, the    *)
(* row of proxyfile.json.  When nginx refuses the result it puts them back.*)
(***************************************************************************)
EXTENDS Requests

CONSTANTS Domain, Attempts

ASSUME AttemptsAssumption == Attempts \in Nat \ {0}

VARIABLES
    siteconf,   \* site conf of each domain: its inline proxy blocks, whether it has the include
    snippet,    \* proxy/<domain>/*.conf: who wrote it, or "none"
    rows,       \* proxyfile.json: who wrote the row of a domain, or "none"
    listed,     \* proxyfile.json is there
    wsmap,      \* nginx.conf has the upgrade map
    mine,       \* locals of each request
    before,     \* history: the three files when a request began
    excused,    \* history: requests for one domain that overlap, that could not read what they
                \* would have to put back, or that failed to put it back
    unheard     \* history: requests for which the panel attached the proxy and all answers were lost

panelVars == <<siteconf, snippet, rows, listed, wsmap, mine, before, excused, unheard>>
allPanelVars == <<reqVars, panelVars>>

Bare == [blocks |-> {}, include |-> FALSE]
Idle == [tries |-> 0, first |-> Bare, conf |-> Bare, read |-> {},
         rows |-> [d \in Domain |-> "none"], snippet |-> "none"]
Files(d) == [conf |-> siteconf[d], snippet |-> snippet[d], rows |-> rows]

PanelInit ==
    /\ NoRequest
    /\ \E b \in {{}, {"old"}}, i \in BOOLEAN :
          /\ b = {} \/ ~i
          /\ siteconf = [d \in Domain |-> [blocks |-> b, include |-> i]]
          /\ snippet = [d \in Domain |-> IF i THEN "old" ELSE "none"]
          /\ rows = [d \in Domain |-> IF i THEN "old" ELSE "none"]
          /\ listed \in {i, TRUE}
    /\ wsmap = FALSE
    /\ mine = [r \in Request |-> Idle]
    /\ before = [r \in Request |-> Idle]
    /\ excused = {} /\ unheard = {}

D(r) == op[r].dom

------------------------------------------------------------------------------
(* http_add_site_with_proxy(), from the site that is there                  *)

\* scrub_site_inline_proxy(): what the first call takes out is kept, what a later one takes
\* out after a first that failed is not.
Scrub(r) ==
    /\ pc[r] \in {"scrub", "rescrub"}
    /\ \/ /\ siteconf' = [siteconf EXCEPT ![D(r)].blocks = {}]
          /\ mine' = IF pc[r] = "scrub" THEN [mine EXCEPT ![r].first = siteconf[D(r)]] ELSE mine
          /\ UNCHANGED excused
       \/ /\ "io" \in Faults /\ UNCHANGED <<siteconf, mine>>
          /\ excused' = IF pc[r] = "scrub" THEN excused \cup {r} ELSE excused
    /\ Goto(r, "ask")
    /\ UNCHANGED <<snippet, rows, listed, wsmap, before, unheard>>

\* CreateProxy, then ModifyProxy and SetProxy: the panel attaches the proxy in its files or
\* does not, and may put a block into the wrong context.  To a caller that hears of no
\* success nothing was done: it reads no file and tries again.
PanelTries(r) ==
    LET d == D(r) IN
    /\ pc[r] = "ask"
    /\ mine' = [mine EXCEPT ![r].tries = @ + 1]
    /\ \E attached, heard \in BOOLEAN, block \in {{}, {"panel"}} :
          /\ heard => attached
          /\ (heard /\ block = {}) \/ "tool" \in Faults
          /\ siteconf' = [siteconf EXCEPT ![d].blocks = @ \cup block, ![d].include = @ \/ attached]
          /\ IF attached
             THEN snippet' = [snippet EXCEPT ![d] = r] /\ rows' = [rows EXCEPT ![d] = r] /\ listed' = TRUE
             ELSE UNCHANGED <<snippet, rows, listed>>
          /\ unheard' = IF attached /\ ~heard THEN unheard \cup {r} ELSE unheard
          /\ Goto(r, IF heard THEN "done" ELSE IF mine'[r].tries < Attempts THEN "rescrub" ELSE "map")
    /\ UNCHANGED <<wsmap, before, excused>>

------------------------------------------------------------------------------
(* write_aapanel_proxy_files()                                              *)

\* ensure_ws_map() under its lock; the caller looks at no result.
AddMap(r) ==
    /\ pc[r] = "map"
    /\ wsmap' \in {TRUE} \cup (IF Faults \cap {"io", "tool"} # {} THEN {wsmap} ELSE {})
    /\ Goto(r, "read") \/ Failing(r, "tool", "restore")
    /\ UNCHANGED <<siteconf, snippet, rows, listed, mine, before, excused, unheard>>

\* The list and the snippet that cannot be read will not be put back; the list that is not
\* there will not be taken away.
ReadFiles(r) ==
    /\ pc[r] = "read"
    /\ \/ /\ \E l, s \in BOOLEAN :
                /\ (l /\ s) \/ "io" \in Faults
                /\ mine' = [mine EXCEPT ![r].conf = siteconf[D(r)], ![r].rows = rows,
                                        ![r].snippet = snippet[D(r)],
                                        ![r].read = (IF l /\ listed THEN {"rows"} ELSE {})
                                                    \cup (IF s THEN {"snippet"} ELSE {})]
                /\ excused' = IF l /\ s /\ listed THEN excused ELSE excused \cup {r}
          /\ Goto(r, "snippet")
       \/ Failing(r, "io", "restore") /\ UNCHANGED <<mine, excused>>
    /\ UNCHANGED <<siteconf, snippet, rows, listed, wsmap, before, unheard>>

WriteSnippet(r) ==
    /\ pc[r] = "snippet"
    /\ \/ snippet' = [snippet EXCEPT ![D(r)] = r] /\ Goto(r, "include")
       \/ Failing(r, "io", "restore") /\ UNCHANGED snippet
    /\ UNCHANGED <<siteconf, rows, listed, wsmap, mine, before, excused, unheard>>

\* From the conf as it was read; a body that stays the same is not written.
WriteInclude(r) ==
    LET new == [blocks |-> {}, include |-> TRUE]
    IN  /\ pc[r] = "include"
        /\ \/ /\ siteconf' = IF new = mine[r].conf THEN siteconf ELSE [siteconf EXCEPT ![D(r)] = new]
              /\ Goto(r, "row")
           \/ new # mine[r].conf /\ Failing(r, "io", "back1") /\ UNCHANGED siteconf
        /\ UNCHANGED <<snippet, rows, listed, wsmap, mine, before, excused, unheard>>

\* _register_proxyfile(): reads the list again and replaces it.
WriteRow(r) ==
    /\ pc[r] = "row"
    /\ \/ /\ rows' = [rows EXCEPT ![D(r)] = r] /\ listed' = TRUE
          /\ Goto(r, "test")
       \/ Failing(r, "io", "back1") /\ UNCHANGED <<rows, listed>>
    /\ UNCHANGED <<siteconf, snippet, wsmap, mine, before, excused, unheard>>

TestNginx(r) ==
    /\ pc[r] = "test"
    /\ Goto(r, "done") \/ Failing(r, "tool", "back1")
    /\ UNCHANGED panelVars

\* _rollback(): conf, list, snippet; each write may fail and is passed over.
Skipped(r) == "io" \in Faults /\ excused' = excused \cup {r} /\ UNCHANGED <<siteconf, snippet, rows>>

\* Faulty variant: the conf is not put back.
KeepConf(r) ==
    /\ pc[r] = "back1" /\ UNCHANGED <<siteconf, snippet, rows, excused>>
    /\ Goto(r, "back2")
    /\ UNCHANGED <<listed, wsmap, mine, before, unheard>>

BackConf(r) ==
    /\ pc[r] = "back1"
    /\ \/ siteconf' = [siteconf EXCEPT ![D(r)] = mine[r].conf] /\ UNCHANGED <<snippet, rows, excused>>
       \/ Skipped(r)
    /\ Goto(r, "back2")
    /\ UNCHANGED <<listed, wsmap, mine, before, unheard>>

BackRows(r) ==
    /\ pc[r] = "back2"
    /\ IF "rows" \notin mine[r].read THEN UNCHANGED <<siteconf, snippet, rows, excused>>
       ELSE \/ rows' = mine[r].rows /\ UNCHANGED <<siteconf, snippet, excused>>
            \/ Skipped(r)
    /\ Goto(r, "back3")
    /\ UNCHANGED <<listed, wsmap, mine, before, unheard>>

BackSnippet(r) ==
    /\ pc[r] = "back3"
    /\ IF "snippet" \notin mine[r].read THEN UNCHANGED <<siteconf, snippet, rows, excused>>
       ELSE \/ snippet' = [snippet EXCEPT ![D(r)] = mine[r].snippet] /\ UNCHANGED <<siteconf, rows, excused>>
            \/ Skipped(r)
    /\ Goto(r, "restore")
    /\ UNCHANGED <<listed, wsmap, mine, before, unheard>>

\* Total failure: the conf gets back what scrubbing took out, if it took anything out.
Restore(r) ==
    /\ pc[r] = "restore"
    /\ IF mine[r].first.blocks = {} THEN UNCHANGED <<siteconf, snippet, rows, excused>>
       ELSE \/ siteconf' = [siteconf EXCEPT ![D(r)] = mine[r].first] /\ UNCHANGED <<snippet, rows, excused>>
            \/ Skipped(r)
    /\ Goto(r, "failed")
    /\ UNCHANGED <<listed, wsmap, mine, before, unheard>>

------------------------------------------------------------------------------
PanelAsk(r) ==
    /\ \E d \in Domain :
          /\ Begin(r, [do |-> "attach", dom |-> d], "scrub")
          /\ LET same == {q \in Request : Busy(q) /\ D(q) = d}
             IN  excused' = IF same = {} THEN excused ELSE excused \cup same \cup {r}
    /\ before' = [before EXCEPT ![r] = Files(op'[r].dom)]
    /\ UNCHANGED <<siteconf, snippet, rows, listed, wsmap, mine, unheard>>

PanelDies(r) == Dies(r) /\ UNCHANGED panelVars

PanelNext ==
    \E r \in Request :
       \/ PanelAsk(r) \/ PanelDies(r) \/ Scrub(r) \/ PanelTries(r) \/ AddMap(r) \/ ReadFiles(r)
       \/ WriteSnippet(r) \/ WriteInclude(r) \/ WriteRow(r) \/ TestNginx(r)
       \/ BackConf(r) \/ BackRows(r) \/ BackSnippet(r) \/ Restore(r)

PanelSpec == PanelInit /\ [][PanelNext]_allPanelVars

------------------------------------------------------------------------------
\* A request that fails leaves its domain the snippet and the include it had, and every
\* inline block it had; it may leave a block the panel has put in (aapanel.py 336-399,
\* 732-746).  Where the panel attached the proxy and no answer said so (360-383), the
\* request takes the panel's files for those it found: they may stay, and nothing else may.
\* Requests for other domains may overlap.  When none does, the list has every row it had
\* too.  Excused: see the variable.
FailedAttachRestores ==
    [][\A r \in Request :
          op[r].do = "attach" /\ pc'[r] = "failed" /\ pc[r] # "failed" /\ r \notin excused'
          => LET was == before[r]
                 d == D(r)
                 Keeps(new, old, panels) == new = old \/ (r \in unheard /\ new = panels)
             IN  /\ Keeps(snippet'[d], was.snippet, r)
                 /\ Keeps(siteconf'[d].include, was.conf.include, TRUE)
                 /\ was.conf.blocks \subseteq siteconf'[d].blocks
                 /\ alone' => Keeps(rows', was.rows, [was.rows EXCEPT ![d] = r])]_allPanelVars
==============================================================================
