-------------------------------- MODULE AppEnv --------------------------------
(***************************************************************************)
(* core/db/_base.py: the environment file of an app, bin/app.env.          *)
(*                                                                         *)
(* SetDbEnv replaces the database keys and RepairApp one other key; both   *)
(* read, merge and replace the file under a lock kept beside it.  A        *)
(* request works on the directory it opened: when the app is deleted and   *)
(* made again meanwhile, its merge fails.  Restore rewrites the port of    *)
(* the tree it has put in place without the lock.                          *)
(***************************************************************************)
EXTENDS Requests

CONSTANTS
    DbKey, OtherKey,    \* database settings; SERVER_PORT, JAVA_OPTS and the rest
    PortKey,            \* SERVER_PORT
    MaxTrees            \* bound: trees the app has had

ASSUME EnvKeysAssumption == PortKey \in OtherKey /\ DbKey \cap OtherKey = {}
ASSUME EnvTreesAssumption == MaxTrees \in Nat \ {0}

VARIABLES
    env,        \* what app.env of the present tree says: who set each key
    tree,       \* which tree it is, counted
    holder,     \* lock of each tree: the requests that hold it
    opened,     \* the tree a request has opened
    snap,       \* what a request has read
    overtaken   \* history: requests that read before the unlocked rewriting, or rewrite unlocked
                \* what was replaced since they read

envVars == <<env, tree, holder, opened, snap, overtaken>>
allEnvVars == <<reqVars, envVars>>

EnvKey == DbKey \cup OtherKey
Setter == {"none", "first"} \cup Request
EnvTree == 1 .. MaxTrees
Fresh  == [k \in EnvKey |-> IF k \in DbKey THEN "none" ELSE "first"]

EnvInit ==
    /\ NoRequest
    /\ env = Fresh /\ tree = 1
    /\ holder = [t \in EnvTree |-> {}]
    /\ opened = [r \in Request |-> 1]
    /\ snap = [r \in Request |-> Fresh]
    /\ overtaken = {}

\* Keys a request is asked to change.
Touches(o) == IF o.do = "setdb" THEN DbKey ELSE o.keys

Stands(l) == {q \in Request : pc[q] = l}

\* What its merge makes of a file; keys of the old engine go.
Merged(r, e) ==
    [k \in EnvKey |-> IF k \in op[r].keys THEN r
                      ELSE IF k \in Touches(op[r]) THEN "none" ELSE e[k]]

Merging(r) == op[r].do \in {"setdb", "update"}

------------------------------------------------------------------------------
\* _open_managed_bin() refuses a tree without its marker or with a link in its path.
OpenBin(r) ==
    /\ pc[r] = "open" /\ Merging(r)
    /\ \/ opened' = [opened EXCEPT ![r] = tree] /\ Goto(r, "lock")
       \/ Failing(r, "io", "failed") /\ UNCHANGED opened
    /\ UNCHANGED <<env, tree, holder, snap, overtaken>>

\* Faulty variant: the lock is asked for and not waited for.
LockAnyway(r) ==
    /\ pc[r] = "lock"
    /\ holder' = [holder EXCEPT ![opened[r]] = @ \cup {r}]
    /\ Goto(r, "read")
    /\ UNCHANGED <<env, tree, opened, snap, overtaken>>

\* The lock file is opened by the directory's descriptor and never removed.
Lock(r) ==
    /\ pc[r] = "lock"
    /\ \/ /\ holder[opened[r]] = {}
          /\ holder' = [holder EXCEPT ![opened[r]] = {r}]
          /\ Goto(r, "read")
       \/ Failing(r, "io", "failed") /\ UNCHANGED holder
    /\ UNCHANGED <<env, tree, opened, snap, overtaken>>

\* In a tree that has been removed there is nothing to read.
ReadEnv(r) ==
    /\ pc[r] = "read"
    /\ \/ snap' = [snap EXCEPT ![r] = IF opened[r] = tree THEN env ELSE Fresh] /\ Goto(r, "replace")
       \/ Failing(r, "io", "unlock") /\ UNCHANGED snap
    /\ UNCHANGED <<env, tree, holder, opened, overtaken>>

\* The whole file is replaced by name; the directory is synced after that.
ReplaceEnv(r) ==
    /\ pc[r] = "replace"
    /\ \/ /\ opened[r] = tree
          /\ env' = Merged(r, snap[r])
          /\ overtaken' = overtaken \cup Stands("rewrite")
          /\ Goto(r, "release") \/ Failing(r, "io", "unlock")
       \/ /\ opened[r] # tree \/ "io" \in Faults
          /\ Goto(r, "unlock") /\ UNCHANGED <<env, overtaken>>
    /\ UNCHANGED <<tree, holder, opened, snap>>

\* The lock goes with its descriptor, whatever happened.
Unlock(r) ==
    /\ pc[r] \in {"release", "unlock"}
    /\ holder' = [holder EXCEPT ![opened[r]] = @ \ {r}]
    /\ Goto(r, IF pc[r] = "release" THEN "done" ELSE "failed")
    /\ UNCHANGED <<env, tree, opened, snap, overtaken>>

------------------------------------------------------------------------------
\* DeleteApp and a restore as a new app of that name: the tree is another one.
NewTree(r) ==
    /\ pc[r] = "move" /\ tree < MaxTrees
    /\ tree' = tree + 1
    /\ env' = Fresh
    /\ overtaken' = overtaken \cup Stands("rewrite")
    /\ Goto(r, "readport")
    /\ UNCHANGED <<holder, opened, snap>>

\* _rewrite_port(): reads the file and replaces it, without the lock.
ReadPort(r) ==
    /\ pc[r] = "readport"
    /\ snap' = [snap EXCEPT ![r] = env]
    /\ Goto(r, "rewrite")
    /\ UNCHANGED <<env, tree, holder, opened, overtaken>>

RewritePort(r) ==
    /\ pc[r] = "rewrite"
    /\ \/ /\ env' = [snap[r] EXCEPT ![PortKey] = r]
          /\ overtaken' = overtaken \cup ((Stands("replace") \cup Stands("rewrite")) \ {r})
          /\ Goto(r, "done")
       \/ Failing(r, "io", "failed") /\ UNCHANGED <<env, overtaken>>
    /\ UNCHANGED <<tree, holder, opened, snap>>

------------------------------------------------------------------------------
EnvAsk(r) ==
    /\ \/ \E s \in (SUBSET DbKey) \ {{}} : Begin(r, [do |-> "setdb", keys |-> s], "open")
       \/ \E k \in OtherKey \ {PortKey} : Begin(r, [do |-> "update", keys |-> {k}], "open")
       \/ Begin(r, [do |-> "restore", keys |-> {PortKey}], "move")
    /\ UNCHANGED envVars

\* The kernel drops the lock of a process that dies.
EnvDies(r) ==
    /\ Merging(r) \/ op[r].do = "restore"
    /\ Dies(r)
    /\ holder' = [t \in EnvTree |-> holder[t] \ {r}]
    /\ UNCHANGED <<env, tree, opened, snap, overtaken>>

EnvNext ==
    \E r \in Request :
       \/ EnvAsk(r) \/ OpenBin(r) \/ Lock(r) \/ ReadEnv(r) \/ ReplaceEnv(r) \/ Unlock(r)
       \/ NewTree(r) \/ ReadPort(r) \/ RewritePort(r) \/ EnvDies(r)

EnvSpec == EnvInit /\ [][EnvNext]_allEnvVars

------------------------------------------------------------------------------
EnvTypeOK ==
    /\ env \in [EnvKey -> Setter] /\ tree \in EnvTree
    /\ holder \in [EnvTree -> SUBSET Request]
    /\ opened \in [Request -> EnvTree]
    /\ snap \in [Request -> [EnvKey -> Setter]]
    /\ overtaken \subseteq Request

\* While the tree is the same, a step changes only keys its request was asked for, so
\* merges of any number of requests lose nothing to one another (_base.py 175-197, 238-239,
\* 256).  The exception is the port rewriting of a restore, which takes no lock: what it
\* crosses may be lost on either side (store.py 402-415).
MergesKept ==
    [][\A k \in EnvKey :
          env'[k] # env[k] /\ tree' = tree
          => \E r \in Request :
                /\ pc[r] \in {"replace", "rewrite"} /\ pc'[r] # pc[r]
                /\ k \in Touches(op[r]) \/ r \in overtaken]_allEnvVars
==============================================================================
