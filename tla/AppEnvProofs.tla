----------------------------- MODULE AppEnvProofs -----------------------------
(***************************************************************************)
(* No merge of app.env loses what another one has written, for any number  *)
(* of requests, keys and trees (core/db/_base.py).                         *)
(*                                                                         *)
(* What a request has read is what stands in the file until it replaces    *)
(* it: whoever could change the file in between either holds the same      *)
(* lock, and so does not exist, or takes none and is recorded in           *)
(* overtaken.                                                              *)
(***************************************************************************)
EXTENDS AppEnv, TLAPS

Locked == {"read", "replace", "release", "unlock"}

\* Requests and what they are asked.
Labels == Answer \cup Locked \cup {"idle", "open", "lock", "move", "readport", "rewrite"}

Ops ==
    [do : {"none"}] \cup [do : {"setdb"}, keys : SUBSET DbKey]
                    \cup [do : {"update", "restore"}, keys : SUBSET OtherKey]

Asked ==
    /\ pc \in [Request -> Labels]
    /\ op \in [Request -> Ops]
    /\ \A r \in Request :
          /\ op[r].do = "setdb" => op[r].keys \subseteq DbKey
          /\ pc[r] \in {"move", "readport", "rewrite"} =>
                op[r].do = "restore" /\ op[r].keys = {PortKey}

\* One request holds the lock of a tree: each one between taking and giving it back.
LockInv ==
    /\ \A t \in EnvTree : \A q, r \in holder[t] : q = r
    /\ \A r \in Request : pc[r] \in Locked => r \in holder[opened[r]]

\* A tree once opened is the present one or gone.
OpenedInv == \A r \in Request : opened[r] <= tree

\* What a request has read still stands, for those that are about to use it.
SnapInv ==
    \A r \in Request :
        /\ pc[r] = "replace" /\ opened[r] = tree /\ r \notin overtaken => snap[r] = env
        /\ pc[r] = "rewrite" /\ r \notin overtaken => snap[r] = env

EnvInv == EnvTypeOK /\ Asked /\ LockInv /\ OpenedInv /\ SnapInv

\* The initial requests, and those the panel makes.
LEMMA OpsAsked ==
    /\ [do |-> "none"] \in Ops
    /\ \A s \in SUBSET DbKey : [do |-> "setdb", keys |-> s] \in Ops
    /\ \A k \in OtherKey : [do |-> "update", keys |-> {k}] \in Ops
    /\ [do |-> "restore", keys |-> {PortKey}] \in Ops
BY EnvKeysAssumption DEF Ops

\* The initial states satisfy the invariant.
LEMMA EnvInitial == EnvInit => EnvInv
<1> SUFFICES ASSUME EnvInit PROVE EnvInv
  OBVIOUS
<1>1. EnvTypeOK
  BY EnvTreesAssumption DEF EnvInit, EnvTypeOK, Fresh, Setter, EnvTree
<1>2. Asked
  BY OpsAsked DEF EnvInit, NoRequest, Asked, Labels, Answer, Locked
<1>3. LockInv /\ OpenedInv /\ SnapInv
  BY DEF EnvInit, NoRequest, LockInv, OpenedInv, SnapInv, Locked
<1>4. QED
  BY <1>1, <1>2, <1>3 DEF EnvInv

\* An app.env that was never written, is merged from another one or has its port rewritten
\* is an app.env.
LEMMA FreshTyped == Fresh \in [EnvKey -> Setter]
BY DEF Fresh, Setter

LEMMA MergedTyped ==
    ASSUME NEW r \in Request, NEW e \in [EnvKey -> Setter]
    PROVE  Merged(r, e) \in [EnvKey -> Setter]
BY DEF Merged, Setter

LEMMA PortTyped ==
    ASSUME NEW r \in Request, NEW e \in [EnvKey -> Setter]
    PROVE  [e EXCEPT ![PortKey] = r] \in [EnvKey -> Setter]
BY DEF Setter

LEMMA StandsTyped == \A l : Stands(l) \subseteq Request
BY DEF Stands

\* Every step of a request keeps the invariant.
LEMMA EnvStep ==
    ASSUME EnvInv, [EnvNext]_allEnvVars
    PROVE  EnvInv'
<1> USE DEF EnvInv
<1>1. ASSUME NEW r \in Request, EnvAsk(r) PROVE EnvInv'
    <2>1. EnvTypeOK'
      BY <1>1 DEF EnvTypeOK, EnvAsk, Begin, envVars
    <2>2. Asked'
      <3>1. CASE \E s \in (SUBSET DbKey) \ {{}} : Begin(r, [do |-> "setdb", keys |-> s], "open")
        BY <3>1, OpsAsked DEF Asked, Labels, Answer, Locked, Begin
      <3>2. CASE \E k \in OtherKey \ {PortKey} : Begin(r, [do |-> "update", keys |-> {k}], "open")
        BY <3>2, OpsAsked DEF Asked, Labels, Answer, Locked, Begin
      <3>3. CASE Begin(r, [do |-> "restore", keys |-> {PortKey}], "move")
        BY <3>3, OpsAsked DEF Asked, Labels, Answer, Locked, Begin
      <3>4. QED
        BY <1>1, <3>1, <3>2, <3>3 DEF EnvAsk
    <2>3. LockInv'
      BY <1>1 DEF EnvTypeOK, Asked, LockInv, Locked, EnvAsk, Begin, envVars
    <2>4. OpenedInv'
      BY <1>1 DEF EnvTypeOK, Asked, OpenedInv, EnvAsk, Begin, envVars
    <2>5. SnapInv'
      BY <1>1 DEF EnvTypeOK, Asked, SnapInv, EnvAsk, Begin, envVars
    <2>6. QED
      BY <2>1, <2>2, <2>3, <2>4, <2>5
<1>2. ASSUME NEW r \in Request, OpenBin(r) PROVE EnvInv'
    <2>1. EnvTypeOK'
      BY <1>2 DEF EnvTypeOK, OpenBin, Failing, Goto
    <2>2. Asked'
      BY <1>2 DEF Asked, Labels, Answer, Locked, OpenBin, Failing, Goto
    <2>3. LockInv'
      BY <1>2 DEF EnvTypeOK, Asked, LockInv, Locked, OpenBin, Failing, Goto
    <2>4. OpenedInv'
      BY <1>2 DEF EnvTypeOK, Asked, OpenedInv, EnvTree, OpenBin, Failing, Goto
    <2>5. SnapInv'
      BY <1>2 DEF EnvTypeOK, Asked, SnapInv, OpenBin, Failing, Goto
    <2>6. QED
      BY <2>1, <2>2, <2>3, <2>4, <2>5
<1>3. ASSUME NEW r \in Request, Lock(r) PROVE EnvInv'
    <2>1. EnvTypeOK'
      <3>1. holder' = holder \/ holder' = [holder EXCEPT ![opened[r]] = {r}]
        BY <1>3 DEF Lock
      <3>2. holder' \in [EnvTree -> SUBSET Request]
        BY <3>1 DEF EnvTypeOK
      <3>3. QED
        BY <1>3, <3>2 DEF EnvTypeOK, Lock
    <2>2. Asked'
      BY <1>3 DEF Asked, Labels, Answer, Locked, Lock, Failing, Goto
    <2>3. LockInv'
      <3>1. CASE /\ holder[opened[r]] = {} /\ holder' = [holder EXCEPT ![opened[r]] = {r}]
                 /\ pc' = [pc EXCEPT ![r] = "read"] /\ opened' = opened
        <4>1. \A q \in Request : pc[q] \in Locked => opened[q] # opened[r]
          BY <3>1 DEF LockInv
        <4>2. \A t \in EnvTree : \A p, q \in holder'[t] : p = q
          BY <3>1 DEF LockInv, EnvTypeOK
        <4>3. \A q \in Request : pc'[q] \in Locked => q \in holder'[opened'[q]]
          BY <3>1, <4>1 DEF LockInv, EnvTypeOK, Asked
        <4>4. QED
          BY <4>2, <4>3 DEF LockInv
      <3>2. CASE holder' = holder /\ opened' = opened /\ pc' = [pc EXCEPT ![r] = "failed"]
        BY <3>2 DEF LockInv, Locked, Asked
      <3>3. QED
        BY <1>3, <3>1, <3>2 DEF Lock, Failing, Goto
    <2>4. OpenedInv'
      BY <1>3 DEF EnvTypeOK, Asked, OpenedInv, Lock, Failing, Goto
    <2>5. SnapInv'
      BY <1>3 DEF EnvTypeOK, Asked, SnapInv, Lock, Failing, Goto
    <2>6. QED
      BY <2>1, <2>2, <2>3, <2>4, <2>5
<1>4. ASSUME NEW r \in Request, ReadEnv(r) PROVE EnvInv'
    <2>1. EnvTypeOK'
      BY <1>4, FreshTyped DEF EnvTypeOK, ReadEnv, Failing, Goto
    <2>2. Asked'
      BY <1>4 DEF Asked, Labels, Answer, Locked, ReadEnv, Failing, Goto
    <2>3. LockInv'
      BY <1>4 DEF EnvTypeOK, Asked, LockInv, Locked, ReadEnv, Failing, Goto
    <2>4. OpenedInv'
      BY <1>4 DEF EnvTypeOK, Asked, OpenedInv, ReadEnv, Failing, Goto
    <2>5. SnapInv'
      BY <1>4 DEF EnvTypeOK, Asked, SnapInv, ReadEnv, Failing, Goto
    <2>6. QED
      BY <2>1, <2>2, <2>3, <2>4, <2>5
<1>5. ASSUME NEW r \in Request, ReplaceEnv(r) PROVE EnvInv'
    <2>1. EnvTypeOK'
      BY <1>5, MergedTyped DEF EnvTypeOK, ReplaceEnv, Failing, Goto, Stands
    <2>2. Asked'
      BY <1>5 DEF Asked, Labels, Answer, Locked, ReplaceEnv, Failing, Goto, Stands
    <2>3. LockInv'
      BY <1>5 DEF EnvTypeOK, Asked, LockInv, Locked, ReplaceEnv, Failing, Goto, Stands
    <2>4. OpenedInv'
      BY <1>5 DEF EnvTypeOK, Asked, OpenedInv, ReplaceEnv, Failing, Goto, Stands
    <2>5. SnapInv'
      BY <1>5 DEF EnvTypeOK, Asked, SnapInv, LockInv, Locked, ReplaceEnv, Failing, Goto,
         Stands
    <2>6. QED
      BY <2>1, <2>2, <2>3, <2>4, <2>5
<1>6. ASSUME NEW r \in Request, Unlock(r) PROVE EnvInv'
    <2>1. EnvTypeOK'
      BY <1>6 DEF EnvTypeOK, Unlock, Goto
    <2>2. Asked'
      BY <1>6 DEF Asked, Labels, Answer, Locked, Unlock, Goto
    <2>3. LockInv'
      BY <1>6 DEF EnvTypeOK, Asked, LockInv, Locked, Unlock, Goto
    <2>4. OpenedInv'
      BY <1>6 DEF EnvTypeOK, Asked, OpenedInv, Unlock, Goto
    <2>5. SnapInv'
      BY <1>6 DEF EnvTypeOK, Asked, SnapInv, Unlock, Goto
    <2>6. QED
      BY <2>1, <2>2, <2>3, <2>4, <2>5
<1>7. ASSUME NEW r \in Request, NewTree(r) PROVE EnvInv'
    <2>1. EnvTypeOK'
      BY <1>7, FreshTyped, EnvTreesAssumption DEF EnvTypeOK, EnvTree, NewTree, Goto, Stands
    <2>2. Asked'
      BY <1>7 DEF Asked, Labels, Answer, Locked, NewTree, Goto, Stands
    <2>3. LockInv'
      BY <1>7 DEF EnvTypeOK, Asked, LockInv, Locked, EnvTree, NewTree, Goto, Stands
    <2>4. OpenedInv'
      BY <1>7 DEF EnvTypeOK, Asked, OpenedInv, EnvTree, NewTree, Goto, Stands
    <2>5. SnapInv'
      BY <1>7 DEF EnvTypeOK, Asked, SnapInv, OpenedInv, EnvTree, NewTree, Goto, Stands
    <2>6. QED
      BY <2>1, <2>2, <2>3, <2>4, <2>5
<1>8. ASSUME NEW r \in Request, ReadPort(r) PROVE EnvInv'
    <2>1. EnvTypeOK'
      BY <1>8 DEF EnvTypeOK, ReadPort, Goto
    <2>2. Asked'
      BY <1>8 DEF Asked, Labels, Answer, Locked, ReadPort, Goto
    <2>3. LockInv'
      BY <1>8 DEF EnvTypeOK, Asked, LockInv, Locked, ReadPort, Goto
    <2>4. OpenedInv'
      BY <1>8 DEF EnvTypeOK, Asked, OpenedInv, ReadPort, Goto
    <2>5. SnapInv'
      BY <1>8 DEF EnvTypeOK, Asked, SnapInv, ReadPort, Goto
    <2>6. QED
      BY <2>1, <2>2, <2>3, <2>4, <2>5
<1>9. ASSUME NEW r \in Request, RewritePort(r) PROVE EnvInv'
    <2>1. EnvTypeOK'
      <3>1. env' = env \/ env' = [snap[r] EXCEPT ![PortKey] = r]
        BY <1>9 DEF RewritePort
      <3>2. env' \in [EnvKey -> Setter]
        <4>1. env \in [EnvKey -> Setter] /\ snap[r] \in [EnvKey -> Setter]
          BY <1>9 DEF EnvTypeOK
        <4>2. [snap[r] EXCEPT ![PortKey] = r] \in [EnvKey -> Setter]
          BY <1>9, <4>1, PortTyped
        <4>3. QED
          BY <3>1, <4>1, <4>2
      <3>3. overtaken' \subseteq Request
        BY <1>9, StandsTyped DEF EnvTypeOK, RewritePort
      <3>4. QED
        BY <1>9, <3>2, <3>3 DEF EnvTypeOK, RewritePort
    <2>2. Asked'
      BY <1>9 DEF Asked, Labels, Answer, Locked, RewritePort, Failing, Goto, Stands
    <2>3. LockInv'
      BY <1>9 DEF EnvTypeOK, Asked, LockInv, Locked, RewritePort, Failing, Goto, Stands
    <2>4. OpenedInv'
      BY <1>9 DEF EnvTypeOK, Asked, OpenedInv, RewritePort, Failing, Goto, Stands
    <2>5. SnapInv'
      BY <1>9 DEF EnvTypeOK, Asked, SnapInv, RewritePort, Failing, Goto, Stands
    <2>6. QED
      BY <2>1, <2>2, <2>3, <2>4, <2>5
<1>10. ASSUME NEW r \in Request, EnvDies(r) PROVE EnvInv'
    <2>1. EnvTypeOK'
      BY <1>10 DEF EnvTypeOK, EnvDies, Dies, Failing, Goto
    <2>2. Asked'
      BY <1>10 DEF Asked, Labels, Answer, Locked, EnvDies, Dies, Failing, Goto
    <2>3. LockInv'
      BY <1>10 DEF EnvTypeOK, Asked, LockInv, Locked, EnvDies, Dies, Failing, Goto
    <2>4. OpenedInv'
      BY <1>10 DEF EnvTypeOK, Asked, OpenedInv, EnvDies, Dies, Failing, Goto
    <2>5. SnapInv'
      BY <1>10 DEF EnvTypeOK, Asked, SnapInv, EnvDies, Dies, Failing, Goto
    <2>6. QED
      BY <2>1, <2>2, <2>3, <2>4, <2>5
<1>11. CASE UNCHANGED allEnvVars
    BY <1>11 DEF allEnvVars, reqVars, envVars, EnvTypeOK, Asked, LockInv, OpenedInv, SnapInv,
       Locked
<1>12. QED
  BY <1>1, <1>2, <1>3, <1>4, <1>5, <1>6, <1>7, <1>8, <1>9, <1>10, <1>11 DEF EnvNext

\* Type correctness, one holder to a lock, and that what was read still stands.
THEOREM EnvSafe == EnvSpec => []EnvInv
<1>1. QED
  BY EnvInitial, EnvStep, PTL DEF EnvSpec

\* A merge changes only the keys it was asked for, unless what it read was overtaken.
LEMMA ReplaceChanges ==
    ASSUME EnvInv, NEW r \in Request, ReplaceEnv(r), NEW k \in EnvKey, env'[k] # env[k]
    PROVE  pc[r] = "replace" /\ pc'[r] # pc[r] /\ (k \in Touches(op[r]) \/ r \in overtaken)
<1>1. pc[r] = "replace" /\ pc'[r] # pc[r]
  BY DEF ReplaceEnv, Goto, Failing, EnvInv, Asked
<1>2. opened[r] = tree /\ env' = Merged(r, snap[r])
  BY DEF ReplaceEnv
<1>3. CASE r \notin overtaken
  <2>1. snap[r] = env
    BY <1>1, <1>2, <1>3 DEF EnvInv, SnapInv
  <2>2. k \in op[r].keys \/ k \in Touches(op[r])
    BY <1>2, <2>1 DEF Merged, EnvInv, EnvTypeOK
  <2>3. QED
    BY <1>1, <2>2 DEF Touches, EnvInv, Asked
<1>4. QED
  BY <1>1, <1>3

\* The same of the rewriting of a port.
LEMMA RewriteChanges ==
    ASSUME EnvInv, NEW r \in Request, RewritePort(r), NEW k \in EnvKey, env'[k] # env[k]
    PROVE  pc[r] = "rewrite" /\ pc'[r] # pc[r] /\ (k \in Touches(op[r]) \/ r \in overtaken)
<1>1. pc[r] = "rewrite" /\ pc'[r] # pc[r]
  BY DEF RewritePort, Goto, Failing, EnvInv, Asked
<1>2. env' = [snap[r] EXCEPT ![PortKey] = r]
  BY DEF RewritePort
<1>3. CASE r \notin overtaken
  <2>1. snap[r] = env
    BY <1>1, <1>3 DEF EnvInv, SnapInv
  <2>2. k = PortKey
    BY <1>2, <2>1 DEF EnvInv, EnvTypeOK
  <2>3. QED
    BY <1>1, <2>2 DEF Touches, EnvInv, Asked
<1>4. QED
  BY <1>1, <1>3

\* Merges under the lock lose nothing to one another (_base.py 175-197, 232-268).
THEOREM MergesAreKept == EnvSpec => MergesKept
<1> DEFINE Keeps ==
       \A k \in EnvKey :
          env'[k] # env[k] /\ tree' = tree
          => \E r \in Request :
                /\ pc[r] \in {"replace", "rewrite"} /\ pc'[r] # pc[r]
                /\ k \in Touches(op[r]) \/ r \in overtaken
<1>1. EnvInv /\ [EnvNext]_allEnvVars => [Keeps]_allEnvVars
  <2> SUFFICES ASSUME EnvInv, EnvNext, NEW k \in EnvKey, env'[k] # env[k], tree' = tree
               PROVE  \E r \in Request :
                         /\ pc[r] \in {"replace", "rewrite"} /\ pc'[r] # pc[r]
                         /\ k \in Touches(op[r]) \/ r \in overtaken
    OBVIOUS
  <2>1. PICK r \in Request : ReplaceEnv(r) \/ RewritePort(r) \/ NewTree(r)
    BY DEF EnvNext, EnvAsk, OpenBin, Lock, ReadEnv, Unlock, ReadPort, EnvDies, envVars
  <2>2. ~NewTree(r)
    BY DEF NewTree, EnvInv, EnvTypeOK, EnvTree
  <2>3. QED
    BY <2>1, <2>2, ReplaceChanges, RewriteChanges
<1>2. QED
  BY <1>1, EnvSafe, PTL DEF EnvSpec, MergesKept
===============================================================================
