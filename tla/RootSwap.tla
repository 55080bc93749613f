------------------------------- MODULE RootSwap -------------------------------
(***************************************************************************)
(* core/deploy/war.py and the WAR endpoints of javahost_main.py: how the   *)
(* webapps/ROOT of one app is replaced.                                    *)
(*                                                                         *)
(* A deploy unpacks beside ROOT, renames ROOT away, renames the new tree   *)
(* into place and removes the old one.  The two names beside ROOT carry    *)
(* the process id, which requests served by one process have in common and *)
(* a later process may have again.  No lock is taken.                      *)
(***************************************************************************)
EXTENDS Requests

CONSTANTS Upload, Process

VARIABLES
    trees,      \* the directories of webapps/: ROOT, and staging and backup of each process
    staged,     \* uploads the panel has staged
    loaded,     \* the tree the running service has loaded
    stranded,   \* history: a deploy that moved ROOT away could not move it back
    crowded     \* history: a deploy has shared its names with another of its process, or
                \* started over remains it could not remove

rootVars == <<trees, staged, loaded, stranded, crowded>>
allRootVars == <<reqVars, rootVars>>

ROOT       == <<"root", "app">>
Staging(r) == <<"staging", op[r].pid>>
Backup(r)  == <<"bak", op[r].pid>>
Place      == {ROOT} \cup {"staging", "bak"} \X Process

\* A tree: where its files are from, and whether all of them are there.
Absent  == [of |-> {}, whole |-> FALSE]
Tree(v) == [of |-> {v}, whole |-> TRUE]
Part(s) == [of |-> s, whole |-> FALSE]

\* _rmtree_quiet(): what may be left of a tree.
Remains(t) == {Absent} \cup (IF "io" \in Faults /\ t # Absent THEN {t, Part(t.of)} ELSE {})

Deploying(r) == pc[r] \in {"clean", "unpack", "unpacked", "aside", "promote", "rollback", "discard", "drop"}

RootInit ==
    /\ NoRequest
    /\ trees = [p \in Place |-> IF p = ROOT THEN Tree("first") ELSE Absent]
    /\ staged = Upload
    /\ loaded = Tree("first")
    /\ stranded = FALSE /\ crowded = FALSE

------------------------------------------------------------------------------
\* UploadWar and MigrateWar rename the staged file away; DeployWar reads it where it is.
Claim(r) ==
    /\ pc[r] = "claim"
    /\ IF op[r].war \in staged
       THEN /\ staged' = IF op[r].do = "deploy" THEN staged ELSE staged \ {op[r].war}
            /\ Goto(r, IF op[r].do = "migrate" THEN "migrate" ELSE "clean")
       ELSE Goto(r, "refused") /\ UNCHANGED staged
    /\ UNCHANGED <<trees, loaded, stranded, crowded>>

\* The migrated WAR is written to a directory of the request's own.
Migrate(r) ==
    /\ pc[r] = "migrate"
    /\ Goto(r, "clean") \/ Failing(r, "tool", "failed")
    /\ UNCHANGED rootVars

\* What stands under the two names of this process is removed, whoever left it.
Clean(r) ==
    /\ pc[r] = "clean"
    /\ \E s \in Remains(trees[Staging(r)]), b \in Remains(trees[Backup(r)]) :
          trees' = [trees EXCEPT ![Staging(r)] = s, ![Backup(r)] = b]
    /\ crowded' = \/ crowded \/ trees'[Staging(r)] # Absent \/ trees'[Backup(r)] # Absent
                  \/ \E q \in Request \ {r} : Deploying(q) /\ op[q].pid = op[r].pid
    /\ Goto(r, "unpack")
    /\ UNCHANGED <<staged, loaded, stranded>>

\* Half the files, then all of them, into whatever stands under the name.
UnpackSome(r) ==
    /\ pc[r] = "unpack"
    /\ trees' = [trees EXCEPT ![Staging(r)] = Part(@.of \cup {op[r].war})]
    /\ Goto(r, "unpacked") \/ Failing(r, "io", "rollback")
    /\ UNCHANGED <<staged, loaded, stranded, crowded>>

UnpackRest(r) ==
    /\ pc[r] = "unpacked"
    /\ \/ /\ trees' = [trees EXCEPT ![Staging(r)] =
                          IF @ = Part({op[r].war}) THEN Tree(op[r].war) ELSE Part(@.of \cup {op[r].war})]
          /\ Goto(r, "aside")
       \/ Failing(r, "io", "rollback") /\ UNCHANGED trees
    /\ UNCHANGED <<staged, loaded, stranded, crowded>>

\* Only what stands at ROOT is moved; a rename needs that no tree has the other name.
MoveAside(r) ==
    /\ pc[r] = "aside"
    /\ \/ trees[ROOT] = Absent /\ Goto(r, "promote") /\ UNCHANGED trees
       \/ /\ trees[ROOT] # Absent /\ trees[Backup(r)] = Absent
          /\ trees' = [trees EXCEPT ![ROOT] = Absent, ![Backup(r)] = trees[ROOT]]
          /\ Goto(r, "promote")
       \/ /\ trees[Backup(r)] # Absent \/ "io" \in Faults
          /\ trees[ROOT] # Absent
          /\ Goto(r, "rollback") /\ UNCHANGED trees
    /\ UNCHANGED <<staged, loaded, stranded, crowded>>

Promote(r) ==
    /\ pc[r] = "promote"
    /\ \/ /\ trees[ROOT] = Absent /\ trees[Staging(r)] # Absent
          /\ trees' = [trees EXCEPT ![ROOT] = trees[Staging(r)], ![Staging(r)] = Absent]
          /\ Goto(r, "drop")
       \/ /\ trees[ROOT] # Absent \/ trees[Staging(r)] = Absent \/ "io" \in Faults
          /\ Goto(r, "rollback") /\ UNCHANGED trees
    /\ UNCHANGED <<staged, loaded, stranded, crowded>>

\* Faulty variant: the old tree is left where it was moved to.
RollbackForgotten(r) ==
    /\ pc[r] = "rollback"
    /\ Goto(r, "discard")
    /\ UNCHANGED rootVars

\* The handler of every failure: only when nothing stands at ROOT; a rename that fails is swallowed.
Rollback(r) ==
    LET needed == trees[ROOT] = Absent /\ trees[Backup(r)] # Absent
    IN  /\ pc[r] = "rollback"
        /\ \/ /\ needed
              /\ trees' = [trees EXCEPT ![ROOT] = trees[Backup(r)], ![Backup(r)] = Absent]
              /\ UNCHANGED stranded
           \/ /\ ~needed \/ "io" \in Faults
              /\ stranded' = (stranded \/ needed) /\ UNCHANGED trees
        /\ Goto(r, "discard")
        /\ UNCHANGED <<staged, loaded, crowded>>

\* The staging tree of a deploy that failed, the backup of one that succeeded.
Discard(r) ==
    /\ pc[r] \in {"discard", "drop"}
    /\ LET p == IF pc[r] = "drop" THEN Backup(r) ELSE Staging(r)
       IN  \E t \in Remains(trees[p]) : trees' = [trees EXCEPT ![p] = t]
    /\ Goto(r, IF pc[r] = "drop" THEN "restart" ELSE "failed")
    /\ UNCHANGED <<staged, loaded, stranded, crowded>>

\* autoDeploy is off: the service loads what stands at ROOT when it starts.
Restart(r) ==
    /\ pc[r] = "restart"
    /\ \/ loaded' = trees[ROOT] /\ Goto(r, "done")
       \/ Failing(r, "tool", "failed") /\ UNCHANGED loaded
    /\ UNCHANGED <<trees, staged, stranded, crowded>>

------------------------------------------------------------------------------
RootAsk(r) ==
    /\ \E d \in {"deploy", "upload", "migrate"}, w \in Upload, p \in Process :
          Begin(r, [do |-> d, war |-> w, pid |-> p], "claim")
    /\ UNCHANGED rootVars

\* The requests of one process die together.
RootDies(r) ==
    /\ Busy(r) /\ "kill" \in Faults
    /\ pc' = [q \in Request |-> IF Busy(q) /\ op[q].pid = op[r].pid THEN "dead" ELSE pc[q]]
    /\ UNCHANGED <<op, alone, rootVars>>

RootNext ==
    \E r \in Request :
       \/ RootAsk(r) \/ RootDies(r) \/ Claim(r) \/ Migrate(r) \/ Clean(r) \/ UnpackSome(r)
       \/ UnpackRest(r) \/ MoveAside(r) \/ Promote(r) \/ Rollback(r) \/ Discard(r) \/ Restart(r)

RootSpec == RootInit /\ [][RootNext]_allRootVars

------------------------------------------------------------------------------
\* Unless two deploys of one process overlap or the remains of an earlier one cannot be removed,
\* ROOT is at every moment the whole tree of one version or missing: never a mix.  It is
\* missing only while a deploy stands between its two renames, or after one died there or
\* failed to move it back (war.py 77-108).  Deploys of different processes may overlap.
\* When all have succeeded the service runs what stands at ROOT, whichever came last.
RootKept ==
    ~crowded =>
        /\ trees[ROOT].whole \/ trees[ROOT] = Absent
        /\ trees[ROOT] = Absent =>
              stranded \/ \E r \in Request : pc[r] \in {"promote", "rollback", "dead"}
        /\ (\A r \in Request : pc[r] \in {"idle", "done", "refused"}) => loaded = trees[ROOT]
==============================================================================
