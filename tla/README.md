# A TLA+ development of the JavaHost aaPanel plugin

JavaHost (`src/plugin/javahost`) lets an operator of the aaPanel web panel run
Java applications: it installs JDKs and Tomcat lines, creates one service per
app, publishes apps behind Nginx with TLS, and backs them up.  It is a set of
Python modules called by panel requests.  Requests run in parallel worker
processes, long ones run in detached jobs, cron runs some of it, and nearly all
state is in files.  Few of those files are locked, so most of what can go wrong
is an interleaving, a crash or a step that fails half-way.

## The system

| part | source (`core/`) | state | operations | what is hard |
|---|---|---|---|---|
| background jobs | `jobs.py` | `jobs/<id>/meta.json`, `argv.json`, a detached process group per job | start, retry, supervise, cancel, prune, clear | several unlocked writers of one record, signals by recycled pids, killed processes |
| JDK runtimes | `runtime/java.py` | `runtimes/jdk-N`, `.staging`, `.old`, a lock file; the services of dependents | install/update, uninstall, reinstall, detect, usage | staged swap with rollback, stopping and restarting dependents, a killed job |
| Tomcat homes | `tomcat/installer.py` | `tomcat/N`, `.staging`, `.old` | install/update, uninstall, usage | the same swap without lock or rollback |
| services | `tomcat/service.py`, `util/immutable.py` | systemd/init.d units, the immutable bit of their directories | install, remove, start, stop, status | lifting and re-locking a shared bit |
| app instances | `tomcat/instance.py` | `instances/<app>`: descriptor, port, marker files | create, delete, repair, port allocation, health | check-then-act on names and ports, half-created apps |
| app environment | `db/_base.py` | `bin/app.env` | read, write, merge under a lock | lost updates, rename against open descriptors |
| sites | `deploy/proxy.py`, `compat/aapanel.py` | site.domain and site.owner markers, Nginx and panel files | attach, detach, switch owner | several records that must agree, a panel that refuses or loses answers |
| TLS | `deploy/ssl.py` | `site.ssl` marker, certificates, panel vhost | enable, disable, refresh markers | marker against what is served |
| WAR deploy | `deploy/war.py`, `deploy/jar.py` | `webapps/ROOT` | safe extract, replace | staged swap |
| backups | `backup/store.py`, `archive.py` | `<app>/<app>-<stamp>.tar.gz` and metadata | backup, list, restore, prune, delete | overwrite-restore that fails late, name collisions, port rewrite |
| backup schedules | `backup/schedule.py`, `run.py`, `remote.py` | `schedules.json`, a cron file, remote profiles, remote copies | set, detach, remove, run | unlocked read-modify-write, two files that must agree, remote retries |
| log rotation, settings, update cache | `logrotate.py`, `config.py`, `updates.py` | logs, `config.json`, `updates.json` | rotate, purge, set, check | unlocked read-modify-write, copy-truncate |
| wipe | `maintenance.py` | everything above, the uninstall plan | preview, wipe | order, partial failure |

Requests interact through those files, through services, and through jobs: a
`Start*` endpoint starts a job whose worker calls one of the modules above, and
`CancelJob` kills that worker wherever it is.  That is why the installers are
modelled with a `kill` fault: a cancelled job is a killed installer.

What makes each part correct:

- *jobs*: an outcome is recorded once and is true; a cancelled job has no
  process left; only the job's own group is signalled; nothing running is
  removed; every unsignalled job finalizes and every cancel returns.
- *JDK and Tomcat trees*: what is live was completed and verified; an installed
  tree is never lost, whatever fails; a failed request is undone; the
  services that ran before run after; nothing is removed under a running app.
- *sites and TLS*: the markers, the panel and the plugin's vhost agree; a failed
  change leaves the published site; the operator's own sites are left alone.
- *instances*: one app per name and per port, and a failed create or restore
  leaves neither a blocked name nor a lost app.
- *stores* (backups, schedules, settings, environment): no update is lost, and a
  file and what is generated from it agree.

The places where the code is exposed are the `hazards` of `PROJECT.json`, each at
its line, with the properties that would catch them.

## The modules

| module | models | about |
|---|---|---|
| `JobLedger` | the promise of `jobs.py` | six actions on two variables: a job is opened, spawned, finished or cancelled, and removed |
| `Jobs` | `jobs.py` | the runner, step by step; refines `JobLedger` |
| `JobsProofs` | | theorems about `Jobs` |
| `JdkInstall` | `runtime/java.py` | install, update, uninstall of one JDK major and its dependents |
| `JdkProofs` | | theorems about `JdkInstall` |
| `TomcatInstall` | `tomcat/installer.py` | install, update, uninstall of one Tomcat home |
| `TomcatProofs` | | theorems about `TomcatInstall` |
| `Sites` | `deploy/proxy.py`, `deploy/ssl.py`, their panel calls in `compat/aapanel.py` | SetSite, RemoveSite, SetSiteSSL and the renewal hook |
| `SitesProofs` | | theorems about `Sites` |
| `Instances` | `tomcat/instance.py`, `tomcat/service.py` | create, create-jar, delete, repair, start and stop of apps |
| `Backups` | `backup/store.py`, `archive.py`, `run.py`, remote copies of `remote.py` | backup, restore, prune and deletion; extends `Instances` |
| `BackupsProofs` | | theorems about `Backups` and `Instances` |
| `Requests` | the endpoints of `javahost_main.py` | what the next five modules share: a request that begins, moves on, fails, dies |
| `AppEnv` | `db/_base.py`, the port rewriting of `backup/store.py` | merges of `bin/app.env` |
| `AppEnvProofs` | | theorems about `AppEnv` |
| `CronFiles` | `config.py`, `backup/schedule.py`, `backup/remote.py`, `logrotate.py`, `util/immutable.py` | settings, profiles, schedules and the two cron files |
| `CronProofs` | | theorems about `CronFiles` |
| `RootSwap` | `deploy/war.py`, the WAR endpoints | the replacement of `webapps/ROOT` |
| `PanelFiles` | `compat/aapanel.py` | the panel's files behind one attach, and their rollback |
| `Wipe` | `maintenance.py` | the danger zone beside apps that are made meanwhile |
| `FilesProofs` | | theorems about `RootSwap`, `PanelFiles` and `Wipe` |
| `MC*` | | instances for TLC: model values, sets of requests and faults, symmetry, views |

In every module a *request* is a process with a program counter `pc[r]`; each
value of `pc` is the code between two effects that others can see (a rename, a
file replacement, a service call, a signal, a panel call), so all interleavings
of those effects are explored.  Faults of the environment are members of a
constant `Faults` (`FaultKind` lists them), so a configuration says which may
happen.  Request arguments are chosen in `Init` or by `\E`.  Operators whose
comment says *faulty variant* are not part of a specification: each is a plausible
bug in the operator that follows it, and the property it breaks shows that the
property can see such a bug.

**Jobs.** `state`, `pid`, `argv`, `started` are the fields of a record on disk;
`sup` and `work` are the supervisor and the worker of the job's process group;
`asked` is the supervisor's `cancel_requested`; `doomed` says that SIGKILL was
sent; `stranger` that the kernel gave the pid and group id to another process.
`starter[j]` is the panel request that starts job `j` (`start` and `retry`),
`pc[c]` a `cancel()` call, `victims[a]` the listing that a `clear`, a poll or a
starting request has made and is still removing.  `Launch` .. `SupExit` are
`_spawn_detached` and `_supervise`; `Cancel*` follow `cancel()` probe by probe.

**JdkInstall.** `dest`, `staging` and `old` say which tree is in `jdk-N`,
`jdk-N.staging` and `jdk-N.old`; `lock` is the flock; `pinned` and `jvm` are the
apps whose JAVA_HOME is this tree and the tree their JVM runs on.  The locals of
`_install_temurin_locked` are `stopped`, `restarted`, `hadLive`, `moved`
(`rollback_created`), `swapped`, `errors`.  `Undo*` is the exception handler; a
failure before its `try` (the look-up of the release) passes it by.  A stop or start
that fails or is given up may have taken effect: `doubt` is the history of the apps
whose stop failed, which the code does not count as stopped.  Operators start, stop
and create apps beside a request (`Operator*`).

**TomcatInstall.** The same three trees without lock or rollback.  `alone` is a
history variable: no request has begun while another was busy.

**Sites.** `site`, `upstream`, `https`, `cert` are what the panel and the disk
have for each domain; `vhost` is the plugin's own Nginx file; `domain`, `owner`,
`tls` are the three markers.  A panel call (`Tell`) obeys or refuses, and its
answer may be lost.  `cut` is the history of the apps whose SetSite died after it
named the domain and before it removed the plugin's vhost.

**Instances and Backups.** `dir[a]` is the tree of an app: the marker, the kind,
how far it is made, the port and the domain its files name.  `unit`, `listens`,
`site`, `sched` are what systemd, the kernel, the panel and the scheduler have for
it.  `store` and `remote` are the archives here and at each profile, `tmp` the
file being packed, `staged[r]` what a restore has unpacked.  `Backups` extends
`Instances`: a restore is a second way to make an app, deletes one on its way when
it overwrites, and both modules' steps interleave.  A restore republishes in two
steps, as `set_site` does: `Republish` attaches the app at the panel, `NameSite` drops
the site the tree named before and writes the marker; the panel's answer may be lost
before them, and the write may fail between them or the restore be killed.  History variables excuse what
the code accepts: `cut` (a tree whose making or removal was cut short),
`borrowed` (an app restored in place with a port it no longer had), `dropped` and
`unnamed` (domains that may be served though no tree names them), `proven`.

**AppEnv.** `env` says which request set each key, so that a lost update shows as
a key that changes back.  `tree` counts the trees of the app: a request keeps the
directory it `opened`, and its lock file with it, when the app is made again.
`overtaken` is the history of what the unlocked rewriting crossed.

**CronFiles.** `conf` and `ctmp` are `config.json` and its fixed temporary name,
`fd[r]` what an open descriptor has become after others renamed or unlinked it.
`work[r]` are the locals: the text to write, what `lsattr` showed (`seen`) and
what was lifted.  `bits` are the paths with the immutable bit, `hard` those that
should have it.

**RootSwap.** `trees` has what stands at ROOT and under the staging and backup
names of each process; a tree records whose files it has and whether all are there.

**PanelFiles.** `siteconf`, `snippet`, `rows` are the three files; `mine[r]` what a
request has read of them and could put back; `before[r]` what was there.
`PanelTries` is a call to the panel with its answer: the panel attaches or does not, and
an answer that is lost is a failure to the caller.  `unheard` is the history of the
requests the panel served without being heard.

**Wipe.** `todo[r]` and `items[r]` are the categories and the items a wipe has before
it, `users[r]` the list of apps it made before it came to the Tomcat homes.

## The runs

| run | instance | what it shows |
|---|---|---|
| `jobs_store` | one job, two cancellers, a clear, a poll, every fault | `TypeOK`, `StoreInv` (the inductive invariant), `CancelledMeansGone`, `TerminalIsFinal`, `ActiveNeverRemoved`, `SignalsOwnGroup`, and the refinement `ImplementsLedger` |
| `jobs_outcome` | two jobs, a canceller, a poll, every fault but failing writes | `OutcomeIsTrue`; `RetentionKept` with overlapping prunes |
| `jobs_liveness` | one job, two cancellers, a clear; recycled ids and unkillable workers | `FinalizesUnlessSignalled`, `CancelReturns` |
| `jobs_stranded` | one job, one cancel, no fault | *violated*: `SelfFinalizing` |
| `jobs_clobbered` | one job, a cancel and a clear, no fault | *violated*: `VerdictRespected` |
| `jdk_runtime` | two updates, an uninstall, two apps, an operator, every fault | `TypeOK`, `LiveIsProven`, `RuntimeKept`, `FailureRestores`, `UpdateKeepsServices`, `PinsRespected` |
| `tomcat_home` | two updates, an uninstall, two apps, an operator, every fault, overlapping or not | `TypeOK`, `LiveIsComplete`, `HomeKept`, `RemovedOnlyWhenDown` |
| `tomcat_lost` | one update, a failing rename | *violated*: `FailureKeepsInstall` |
| `sites_publish` | any two requests, two apps, two domains, every fault, overlapping or not | `TypeOK`, `FailedSetKeepsSite`, `NameKept`, `TlsOffIsOff`, `ForeignKept` |
| `sites_unserved` | one request, a refusing panel, no certbot | *violated*: `MarkedIsServed` |
| `apps_lifecycle` | any two requests on two apps, three ports, three stamps, one profile, every fault | `TypeOK`, `PortsDistinct`, `MarkedForRemoval`, `SiteRemembered`, `OwnSiteOnly`, `FailedStagingHarmless`, `PruneKeepsNewest` |
| `stored_files` | two requests on each of the five parts in turn, every fault, overlapping or not | `MergesKept` (`AppEnv`), `HardeningRestored`, `CronFollows`, `SettingsWhole` (`CronFiles`), `RootKept` (`RootSwap`), `FailedAttachRestores` (`PanelFiles`), `WipeSparesUsed` (`Wipe`) |

The violated properties quote a comment or docstring of the code that the code
does not keep; `findings` in `PROJECT.json` has the quotes.  In short:

1. `cancel()` gives up between the wait and the re-check while the supervisor it
   signalled has already left without finalizing: the record runs for ever.
2. A record finalized and cleared before `cancel()` re-reads it comes back as
   "cancelled".
3. A Tomcat update whose second rename fails leaves no live home.
4. `enable()` marks an app as TLS on the strength of an old certificate, although
   the panel refused to serve HTTPS and certbot did not run.

Several weaker facts show in the models and are stated as limits of properties,
in the comment of each.  Most have one cause: hardly any request holds a lock, so
many properties speak of requests that do not overlap (`alone`).

- Two overlapping Tomcat installs share one staging directory, and one can move the
  other's half-extracted tree into place.  The renewal hook can write back a marker
  that a disable has just cleared.
- A SetSite that dies after its markers and before it removes the plugin's vhost
  (proxy.py 637-649) leaves an app that two serve and that the markers call the
  panel's: a later disable reports TLS off while the plugin's vhost still serves
  HTTPS (`cut` in `TlsOffIsOff`).  Writes of the markers and of the vhost do not fail
  in `Sites`.
- An app that is created between the look at the dependents and the removal of a
  runtime loses it (`PinsRespected`, `WipeSparesUsed`).  A forced JDK uninstall
  passes over a service that does not stop, contrary to `java.py` 472-474.
- Overlapping creates and restores can be given one port.  A restore as a new app
  that dies between marking its tree and rewriting it leaves a tree with the
  domain of the app it came from, and deleting that tree takes down the live site.
  A restore whose attach succeeds at the panel, but whose answer is lost, or that dies
  or cannot write before the marker is there (proxy.py 613-637), leaves a served site
  that no tree names (`unnamed`).
  A restore over an app drops its schedule, and does not look whether its site
  could be removed: the site of a tree that was replaced may outlive every mention
  of its domain (`dropped`).  Two runs of a schedule whose retention is changed
  between them may together delete more than the longer one allows.  A request for a
  new app is assumed to name a domain that no other app has: nothing in the code
  compares it with theirs.
- The port rewriting of a restore takes no lock: a merge of `app.env` that it
  crosses is lost, or the port is.
- `config.json.tmp` is one name for all: a request that opened it before another
  one renamed it goes on writing into the live file.  A torn file is read as empty:
  all settings are lost, and lifting the immutable bit is permitted again.
- Overlapping changes of schedules lose one of them, and the cron file may follow
  the one that lost.
- Deploys served by one process share the names of their staging and backup trees;
  a deploy with the pid of a dead one removes what that one left, and that may be
  the only copy of ROOT; remains it cannot remove get mixed with what it unpacks
  (`crowded`).
- An attach that the panel carried out, but whose answers were all lost, goes on as if
  nothing was done (aapanel.py 360-383): the copies its rollback goes by are then the
  panel's new files, so that a request that fails may leave the domain attached
  (`unheard`).
- An update of a JDK whose stop of a dependent fails or times out may leave that app
  down: the rollback restarts only those it knows it stopped, and is not reported incomplete
  (`doubt`).  A failure before the `try` of `_install_temurin_locked` (java.py 216-228)
  leaves the staging tree of an earlier, killed update where it is.
- An attach whose first scrubbing could not write, and whose second could, has
  nothing to put back; a list `proxyfile.json` that did not exist stays after the
  rollback.
- The uninstall plan is kept under the data root, which a full wipe removes.

### Bounds

- Jobs: one job suffices for the record's races, because records share nothing but
  prune's listing; two jobs, with `Keep = 1`, are the least for pruning.  Two
  cancellers are the least for a race between them.  `clock` is bounded by the
  number of jobs; nothing else counts.
- JdkInstall: two updates and an uninstall give every pair of requests in both
  orders, a request after a killed one, and a request after that; two apps are the
  least for a loop over dependents that fails in the middle.  `Calm` bounds the
  operator: it acts on one app at a time and only until a second request begins.
  `LiveView` hides the locals of requests that have not begun or are over, which no
  action and no property reads.
- TomcatInstall: as JdkInstall, with an operator that is not bounded.
- Sites: two requests start from any published state (`Init` has apps with and
  without domain and TLS, served by the panel or over TLS by the plugin's own vhost), so
  that two requests are a race, or a sequence of two
  after an unbounded past.  One of the two domains is under a wildcard certificate.
  The runs have an API key and the panel's class; without a key the plugin takes
  the same actions from `class` and `issue` on.
- Backups: two requests of any kind start from two states with a past (`Starts` in
  `MCBackups`): an app with archives from before it had a domain, and archives of an
  app whose port has gone to another one.  Three ports, one of them taken by another
  program, are the least for a collision and a free one; three stamps, with
  `Keep = 1`, give a prune two archives to drop.  `OverlapOfBackups`: once
  requests overlap, only backups and deletions of archives are followed further,
  because `PruneKeepsNewest` alone speaks of overlapping requests.
- `stored_files`: the parts share no file, so one run explores each of them alone
  (`part`).  Two requests are the least for a race, and for a request after one that
  died.  Two trees (`MaxTrees`) are the least for an app made again under a merge; two
  attempts (`Attempts`, three in the code) for a retry; two deploying processes for a
  shared and for a separate staging name.  Two domains share the list of proxies;
  `OneDomainAtATime` leaves out overlapping attachments to one domain, which the
  property would excuse.  Of the states from which a part starts, `StoredInit` takes
  those in which the panel has its list, and only the second app pins a Tomcat home.
  `View` leaves out the locals of requests that have ended and results nobody reads.

`CHECK_DEADLOCK FALSE` is right everywhere: when every request has returned the
system stops.

### Fairness

Only `Jobs` has liveness properties.  `Fairness` assumes weak fairness of
processes the kernel schedules: the starting request after it has begun, the
supervisor, the delivery of SIGKILL, and a `cancel()` call, whose waits have
deadlines (`_wait_for_process_group_exit`).  It does not assume that an operator
asks for anything, that a fault happens or that a worker ends.
`FinalizesUnlessSignalled` therefore lets a record run while its worker does.
`WorkSpec`, where every worker ends, is used only by `jobs_stranded`, to show that
even then a record is stranded.  No process is killed from outside in the liveness
runs: the code promises no recovery from that.

## The proofs

Every theorem below holds for any number of requests, apps, domains, archives,
jobs and so on, and unless it is said otherwise for any set of faults.  One pattern
recurs in all of them: a property of a step, or of what two requests leave behind, is
not inductive; the invariant adds what each request knows at each of its steps.

**`JobsProofs`**, from `KeepAssumption` (the retention is a number) and
`JobsAssumption` (job ids are finite in number and are not requests):

- `StoreSafe`: `Spec => []StoreInv`; from it `StoreTyped`, and `CancellationIsTrue`,
  `OutcomesAreFinal`, `SweepsSpareTheActive`, `SignalsAreOwn`, the safety properties
  of `jobs_store`;
- `Refinement`: `Spec => Ledger!LedgerSpec`;
- `OutcomesKnown`: a record that says "done" had a worker that exited with 0;
- `OutcomesAreTrue`: `OutcomeIsTrue`, where metadata writes do not fail
  (`"io" \notin Faults`).  Where they do the property is false: a supervisor that
  cannot register its pid reports "failed" and leaves its worker (jobs.py 754-776);
- `RetentionAlwaysKept`: `RetentionKept`, where no request clears the store: a clear
  is meant to go below the retention.

Whether a write is harmless depends on who else may still write.  `StoreInv` says
it by writer: until it forks, the starting request owns a job without a process
(`StarterInv`); a supervisor with a write ahead of it finds the record running, and
publishes its pid before it can be signalled (`SupervisorInv`); a canceller works on
a registered supervisor only, signals while no stranger has its ids, and writes only
when the group is over and no outcome was there (`CancellerInv`); a listed victim
keeps an outcome until it is removed (`SweepInv`).  The action properties follow from
the invariant in the current state, the refinement by mapping every action to the
ledger's action or to a stutter.  For the retention, `RetentionInv` says that a
listed victim has `Keep` newer jobs with an outcome.  Overlapping prunes keep that
because their victims are ordered by age: the newer ones of what is removed are
newer than whatever older victims are listed elsewhere.

**`JdkProofs`**, from `OpsAssumption` and `NamesAssumption` (requests are installers
or removers, and are not named like trees): `JdkSafe` (`Spec => []JdkInv`),
`JdkTyped`, `LiveAlwaysProven`, `RuntimeAlwaysKept`, `FailuresRestore`,
`UpdatesKeepServices`, `PinsAlwaysRespected`.  These are all the properties of
`jdk_runtime`.  In `JdkInv` only the holder of the lock works (`HoldInv`); the three
trees are those it found, moved as far as its renames say (`StageInv`, `TreeInv`);
the services are those it found, but for the ones it has stopped and not yet
restarted, those the operator has touched and those whose stop failed
(`ServiceInv`); and a request past its
look at the dependents has none that it was not shown, unless the operator added it
since (`GateInv`).  A rollback restores what it found because the locals it goes by
(`hadLive`, `moved`, `swapped`, `stopped`) say exactly what it has done.

**`TomcatProofs`**, from `OpsAssumption`: `TomcatSafe` (`Spec => []TomcatInv`),
`TomcatTyped`, `LiveAlwaysComplete`, `HomeAlwaysKept`, `OnlyRemovedWhenDown`, all
properties of `tomcat_home`.  Without a lock, what an install has staged is known
only while it is `alone` (`StageInv`, `HomeInv`); what a forced uninstall knows of
the services holds whoever overlaps it (`DownInv`).

**`BackupsProofs`**, from the assumptions of `Instances` and `Backups` (names,
ports, finitely many stamps, an initial state in which no two apps share a port or
a domain):

- `BackupsTyped` (`Spec => []TypedInv`) and `BackupsSafe`
  (`Spec => [](TypedInv /\ LoneInv)`);
- `AppsTyped`, `PortsAlwaysDistinct`, `MarkedWhenIdle`, `SitesRemembered`,
  `SitesTakenAreOwn` (`OwnSiteOnly`), `StagingAlwaysHarmless`
  (`FailedStagingHarmless`);
- `NewestAlwaysKept`: `PruneKeepsNewest`, where all runs have one retention; with two
  it is false for overlapping runs.

`TypedInv` has the types and the route of each request: which steps belong to which
request, and that a restore past its staging has a whole tree, verified
(`r \in proven`).  `LoneInv` speaks of requests that do not overlap: there is one
busy request (`AloneInv`), and it knows of the app it works on what `MakeInv` (a
create) and `BackInv` (a restore) list step by step.  The stored state then obeys
`DistinctInv` (two apps share a port or a domain only if one of them has borrowed
it), `MarkInv` (an unmarked tree was cut short, or is about to be marked), `SiteInv`,
`HeldInv` and `OwnInv` (what is served is named by a tree, by that of its app unless
it was lent, `dropped` or left `unnamed`, or a restore is about to write the name).
They are needed together: `SiteRemembered` is not inductive,
because removing one of two trees that name a domain is harmless only if the other
is the one that is served; who that is depends on who borrowed it, and this on who
chose its port and domain before there was a marker.  `FailedStagingHarmless`
compares the app with what the restore found steps before; `BackInv` keeps the two
equal while an archive is fetched and staged (`Untouched`), and `TypedInv` says that
whoever is past that has proved its archive.
`PruneKeepsNewest` is about overlapping runs: the invariant `CountInv` says that every
archive a run is still about to drop has `keep` newer ones, unless somebody has deleted
archives by hand (`manual`); dropping one of them
takes away none that counts, because whatever is newer than a dropped archive is
newer than every older one too, and it has `keep` newer ones itself.

**`AppEnvProofs`**, from `EnvKeysAssumption` and `EnvTreesAssumption`: `EnvSafe`
(`EnvSpec => []EnvInv`) and `MergesAreKept` (`EnvSpec => MergesKept`).  `MergesKept`
relates a step to what the request read some steps before; the invariant makes that
a fact about the present state: who stands between reading and replacing still finds
in `snap` what is in `env` (`SnapInv`), because whoever could have replaced the file
since holds the same lock, which has one holder (`LockInv`), or is recorded in
`overtaken`; and because a new tree is one that nobody has opened (`OpenedInv`).

**`CronProofs`**, with no assumption: `CronSafe`
(`CronSpec => []CronInv`), `HardeningIsRestored`, `FilesFollow`
(`CronSpec => []FollowInv`), `SettingsAlwaysWhole`, `CronAlwaysFollows`.  No lock
keeps the writers of one directory apart, so the invariant cannot say who may hold
the immutable bit.  It says that a path that lost it is noted by whoever took it
(`NotedInv`), that the notes of a request are empty before it lifts anything and
after it has locked again (`LiftInv`), and that the host wants the bit on files that
are there (`WantedInv`).  A file replaced by another request cannot lose the bit
unseen, because nobody can replace a file that carries it.  `FollowInv` is about the
contents: while nobody has shared the temporary name, an open descriptor is that of
the temporary file or of one unlinked since (`FileInv`, `UnsharedInv`); a request
writes what it was asked to (`AskedInv`); and while changes of schedules have not
overlapped, the cron file differs from the schedules only between the two writes of
one request or after it has died or failed there (`BehindInv`, in `AloneInv`).

**`SitesProofs`**, from `DomainsAssumption` ("none" names no domain and no app) and
`FaultsAssumption`, of which only that the three switches are Booleans is used:

- `SitesSafe` (`Spec => []TypedInv`), and from it, whoever overlaps, `SitesTyped` and
  `ForeignAlwaysKept`;
- `LoneSafe` (`Spec => [](TypedInv /\ LoneInv)`), and from it `FailedSetAlwaysKeepsSite`,
  `NameAlwaysKept` and `TlsOffAlwaysOff`.  These are all the properties of
  `sites_publish`.

`TypedInv` says which steps belong to which request (`RouteInv`), that a domain a
SetSite drops or a RemoveSite deletes has been named by a marker, and that a proxy is
attached only to a site that is the plugin's (`NamedInv`).  `LoneInv` is about requests
that do not overlap.  It says what each knows step by step: a SetSite that it has not yet
touched the site it found (`SetKnows`); a RemoveSite that, when it forgets the name, the
panel serves nothing there, because it goes on from a confirmed deletion only
(`RemoveKnows`); SetSiteSSL and the hook who serves the app and what is switched off
(`TlsKnows`).  What a request reads of the owner decides which of the two servers it
talks to, so the stored state must agree with it: an app the plugin owns has no domain
at the panel, and only such an app has the plugin's TLS vhost (`OwnerInv`).  A SetSite
breaks that between its markers and the vhost, and one that dies there leaves it broken.
Three requests are needed to see a property fail of it, one more than the run has;
the proof showed it, and `cut` names it.

**`FilesProofs`**, with no assumption, has three independent parts.

- `RootSwap`: `RootSafe` (`RootSpec => []RootInv`) and `RootAlwaysKept`
  (`RootSpec => []RootKept`).  Deploys of different processes have different names
  (`SoloInv`), so that what stands under the names of a deploy is known at each of its
  steps (`NamesInv`), and ROOT is missing only while a deploy has it aside, has died
  with it there, or could not move it back (`MissingInv`).
- `PanelFiles`: `PanelSafe` (`PanelSpec => []PanelInv`) and `FailedAttachAlwaysRestores`
  (`PanelSpec => FailedAttachRestores`).  The property compares the files at the end with
  what a request found many steps before.  `PanelKnows` splits that way into steps: until
  a file is written it is as it was found, from then on the copy that was read is, and
  after its step of the rollback the file is again.  "As it was found" is one of two
  things where the panel attached the proxy unheard: what was there, or what the panel
  made of it (`KeptSnippet`, `KeptInclude`, `KeptRows`).  Another request at work is on
  another domain (`ApartInv`), whose conf and snippet are files of their own; the list
  they share is vouched for only while nothing overlaps (`alone`).  `OthersKnow` says
  once for all actions that a step of one request leaves alone what another knows.
- `Wipe`: `WipeSafe` (`WipeSpec => []WipeInv`) and `UsedIsSpared`
  (`WipeSpec => WipeSparesUsed`).  What a wipe found when it looked need not hold when
  it removes; the invariant keeps what does: whoever uses the runtime it is about to
  remove has come since it looked (`LookedInv`).  Every step but the look itself and the
  making of an app leaves that alone, because it adds no user; one lemma says so
  (`QuietStep`) for all of them.

**Only model-checked**: the liveness properties `FinalizesUnlessSignalled` and
`CancelReturns` (fairness and `ENABLED` are out of the prover's reach).  Every other
property of a run that passes is stated by a theorem.  The properties of the runs that
expect a violation are false.

## What is not modelled

- Read-only code: the dashboard, site status, health and metrics, log tails; the
  UI, the install scripts, templates.  There is no state to get wrong.
- The S3 client: signing and HTTP without a state of its own.
- Inside a modelled part: version parsing and platform detection of the JDK
  module (they appear as guards), the edits of a staged Tomcat tree, certificate
  dates, the operator's own changes in the panel, changes to the fields of a storage
  profile (nothing else refers to them), the immutable bit of unit files (the same
  code as for cron files), the cache `config.get` keeps by modification time.
- Log rotation: copy-truncate of one file by one cron process.  That it may lose the
  lines written between the copy and the truncation is what copy-truncate means;
  a rotation that fails after shifting the old files drops the oldest one.
- The update cache (version numbers for display) and the panel's whitelist, a file
  of another plugin that is written without a lock on either side.
- Power loss (what survives of an unsynced rename), and the lengths of waits
  (a wait ends when what it waits for happens, or at its deadline).

## Plan

The modules were written in order of importance: `Jobs`, because every long
operation runs in a job; `JdkInstall`, the hardest failure handling; `TomcatInstall`;
`Sites`; `Instances` with `Backups`; then the parts that keep their state in files of
their own.  All planned modules are there.

Every safety and action property of the passing runs is proved.  What is left
is not in the provers' reach or not in the code: the two liveness properties stay with
TLC, and the hazards without a property (`note` in `PROJECT.json`) are gaps the code
itself leaves open, about which it promises nothing that could be stated.
