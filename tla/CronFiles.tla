------------------------------ MODULE CronFiles ------------------------------
(***************************************************************************)
(* core/config.py, core/backup/schedule.py, core/backup/remote.py,         *)
(* core/logrotate.py (the cron file) and core/util/immutable.py.           *)
(*                                                                         *)
(* Settings, storage profiles and backup schedules are JSON files, each    *)
(* read, changed and replaced without a lock.  Two cron files are          *)
(* rendered from them.  On a hardened host /etc/cron.d and the cron files  *)
(* carry the immutable bit: it is lifted for the write and set again.      *)
(*                                                                         *)
(* config.json is replaced from one fixed temporary name, so requests that *)
(* overlap share its inode.  Everything else goes through fs.atomic_write. *)
(***************************************************************************)
EXTENDS Requests

CONSTANTS App, Profile

VARIABLES
    conf,       \* config.json, or Torn
    ctmp,       \* config.json.tmp: what it says, or that it is missing
    fd,         \* what the temporary file a request writes has become: it may be the live one
    shared,     \* history: two requests have been between opening and replacing together
    profiles,   \* remotes.json
    sched,      \* schedules.json: where each app is backed up to; {} when it has no schedule
    cron,       \* javahost-backups, as sched; it is missing when there is no schedule
    logcron,    \* javahost-logrotate: "off" when it is missing
    bits,       \* paths that carry the immutable bit
    hard,       \* history: paths the host wants it on
    work,       \* locals of each request; history in stuck: what chattr failed to lock
    last        \* history: the request that last changed the schedules, the log settings

cronVars == <<conf, ctmp, fd, shared, profiles, sched, cron, logcron, bits, hard, work, last>>
allCronVars == <<reqVars, cronVars>>

CronPath == {"dir", "backups", "rotate"}
When     == {"off", "daily", "weekly"}
Torn     == [mh |-> TRUE, log |-> "torn", api |-> "none"]
Defaults == [mh |-> TRUE, log |-> "daily", api |-> "none"]
Missing  == [mh |-> TRUE, log |-> "missing", api |-> "none"]
NoWork   == [conf |-> Defaults, profiles |-> {}, sched |-> [a \in App |-> {}], file |-> "backups",
             mh |-> FALSE, seen |-> {}, lifted |-> {}, stuck |-> {}, ok |-> TRUE]

CronInit ==
    /\ NoRequest
    /\ \E mh \in BOOLEAN : conf = [Defaults EXCEPT !.mh = mh]
    /\ ctmp = Missing
    /\ fd = [r \in Request |-> "none"] /\ shared = FALSE
    /\ profiles = Profile
    /\ \E s \in {[a \in App |-> {}], [a \in App |-> {"local"} \cup Profile]} : sched = s /\ cron = s
    /\ logcron = "off"
    /\ hard \in {{}, {"dir"}} \cup (IF \E a \in App : cron[a] # {} THEN {{"dir", "backups"}} ELSE {})
    /\ bits = hard
    /\ work = [r \in Request |-> NoWork]
    /\ last = [sched |-> {}, log |-> {}]

------------------------------------------------------------------------------
(* config.update()                                                          *)

\* A file that does not parse is read as an empty one.
Parsed(c) == IF c \in {Torn, Missing} THEN Defaults ELSE c

Updated(c, r) ==
    IF op[r].do = "setlog" THEN [c EXCEPT !.log = op[r].when] ELSE [c EXCEPT !.api = r]

ReadConfig(r) ==
    /\ pc[r] = "cread"
    /\ work' = [work EXCEPT ![r].conf = Parsed(conf)]
    /\ Goto(r, "copen")
    /\ UNCHANGED <<conf, ctmp, fd, shared, profiles, sched, cron, logcron, bits, hard, last>>

\* Faulty variant: the settings are written in place.
OpenLive(r) ==
    /\ pc[r] = "copen"
    /\ \/ /\ conf' = Torn /\ ctmp' = Torn
          /\ fd' = [fd EXCEPT ![r] = "tmp"]
          /\ Goto(r, "cwrite") /\ UNCHANGED shared
       \/ Failing(r, "io", "failed") /\ UNCHANGED <<conf, ctmp, fd, shared>>
    /\ UNCHANGED <<profiles, sched, cron, logcron, bits, hard, work, last>>

\* O_TRUNC: a temporary file another request has open is emptied under it.
OpenTmp(r) ==
    /\ pc[r] = "copen"
    /\ \/ /\ ctmp' = Torn
          /\ fd' = [fd EXCEPT ![r] = "tmp"]
          /\ shared' = (shared \/ \E q \in Request : pc[q] \in {"cwrite", "creplace"})
          /\ Goto(r, "cwrite")
       \/ Failing(r, "io", "failed") /\ UNCHANGED <<ctmp, fd, shared>>
    /\ UNCHANGED <<conf, profiles, sched, cron, logcron, bits, hard, work, last>>

\* Where another writer holds the same inode the texts may overlap.
WriteTmp(r) ==
    LET others == \E q \in Request \ {r} : fd[q] = fd[r]
        text == {Updated(work[r].conf, r)} \cup (IF others THEN {Torn} ELSE {})
    IN  /\ pc[r] = "cwrite"
        /\ \E t \in text :
              \/ fd[r] = "tmp"  /\ ctmp' = t /\ UNCHANGED conf
              \/ fd[r] = "live" /\ conf' = t /\ UNCHANGED ctmp
              \/ fd[r] = "lost" /\ UNCHANGED <<conf, ctmp>>
        /\ fd' = [fd EXCEPT ![r] = "none"]
        /\ Goto(r, "creplace")
        /\ UNCHANGED <<shared, profiles, sched, cron, logcron, bits, hard, work, last>>

\* What the others' descriptors point at when the temporary name is gone.
Moved(r, to) ==
    [q \in Request |-> IF q = r THEN "none" ELSE IF fd[q] = "tmp" THEN to
                       ELSE IF to = "live" /\ fd[q] = "live" THEN "lost" ELSE fd[q]]

\* A write that fails removes the temporary file, whoever's it is by now.
WriteTmpFails(r) ==
    /\ pc[r] = "cwrite"
    /\ Failing(r, "io", "failed")
    /\ ctmp' = Missing
    /\ fd' = Moved(r, "lost")
    /\ conf' = IF fd[r] = "live" THEN Torn ELSE conf
    /\ UNCHANGED <<shared, profiles, sched, cron, logcron, bits, hard, work, last>>

\* chmod() and replace() by name: without the name the request fails.
ReplaceConfig(r) ==
    /\ pc[r] = "creplace"
    /\ \/ /\ ctmp # Missing
          /\ conf' = ctmp /\ ctmp' = Missing
          /\ fd' = Moved(r, "live")
          /\ last' = IF op[r].do = "setlog" THEN [last EXCEPT !.log = {r}] ELSE last
          /\ Goto(r, IF op[r].do = "setlog" THEN "render" ELSE "done")
       \/ /\ ctmp = Missing \/ "io" \in Faults
          /\ Goto(r, "failed")
          /\ UNCHANGED <<conf, ctmp, fd, last>>
    /\ UNCHANGED <<shared, profiles, sched, cron, logcron, bits, hard, work>>

------------------------------------------------------------------------------
(* remotes.json and schedules.json                                          *)

ReadProfiles(r) ==
    /\ pc[r] = "pread"
    /\ work' = [work EXCEPT ![r].profiles = profiles, ![r].sched = sched]
    /\ LET p == op[r].profile
           used == \E a \in App : p \in sched[a]
       IN  IF \/ op[r].do = "addprof" /\ p \in profiles
              \/ op[r].do = "delprof" /\ (p \notin profiles \/ (used /\ ~op[r].force))
           THEN Goto(r, "refused") ELSE Goto(r, "psave")
    /\ UNCHANGED <<conf, ctmp, fd, shared, profiles, sched, cron, logcron, bits, hard, last>>

\* A forced removal then detaches the profile from the schedules it has seen naming it.
SaveProfiles(r) ==
    LET p == op[r].profile
        w == work[r]
        detaches == op[r].do = "delprof" /\ \E a \in App : p \in w.sched[a]
    IN  /\ pc[r] = "psave"
        /\ \/ /\ profiles' = IF op[r].do = "addprof" THEN w.profiles \cup {p} ELSE w.profiles \ {p}
              /\ Goto(r, IF detaches THEN "sread" ELSE "done")
           \/ Failing(r, "io", "failed") /\ UNCHANGED profiles
        /\ UNCHANGED <<conf, ctmp, fd, shared, sched, cron, logcron, bits, hard, work, last>>

\* What the request makes of the schedules.
Rescheduled(r, s) ==
    [a \in App |-> IF op[r].do = "delprof" THEN s[a] \ {op[r].profile}
                   ELSE IF a # op[r].app THEN s[a]
                   ELSE IF op[r].do = "setsched" THEN {"local"} \cup op[r].remotes ELSE {}]

\* Removing or detaching what is not there writes nothing and renders nothing.
ReadSchedules(r) ==
    /\ pc[r] = "sread"
    /\ work' = [work EXCEPT ![r].sched = Rescheduled(r, sched)]
    /\ Goto(r, IF op[r].do # "setsched" /\ Rescheduled(r, sched) = sched THEN "done" ELSE "swrite")
    /\ UNCHANGED <<conf, ctmp, fd, shared, profiles, sched, cron, logcron, bits, hard, last>>

\* delete_profile() swallows whatever detach_remote() raises.
Failed(r) == IF op[r].do = "delprof" THEN "done" ELSE "failed"

WriteSchedules(r) ==
    /\ pc[r] = "swrite"
    /\ \/ /\ sched' = work[r].sched
          /\ last' = [last EXCEPT !.sched = {r}]
          /\ Goto(r, "render")
       \/ Failing(r, "io", Failed(r)) /\ UNCHANGED <<sched, last>>
    /\ UNCHANGED <<conf, ctmp, fd, shared, profiles, cron, logcron, bits, hard, work>>

------------------------------------------------------------------------------
(* _regenerate() and apply_schedule(), on a host that has /etc/cron.d       *)

Logs(r)   == op[r].do = "setlog"
Exists(f) == IF f = "rotate" THEN logcron # "off" ELSE \E a \in App : cron[a] # {}

\* The log settings are read again; schedules are rendered from what was written.
Render(r) ==
    /\ pc[r] = "render"
    /\ work' = [work EXCEPT ![r].conf = Parsed(conf), ![r].mh = Parsed(conf).mh,
                            ![r].file = IF Logs(r) THEN "rotate" ELSE "backups"]
    /\ Goto(r, "lookdir")
    /\ UNCHANGED <<conf, ctmp, fd, shared, profiles, sched, cron, logcron, bits, hard, last>>

\* lsattr, then chattr -i: the bit may change in between.
LookAt(r, p, l) ==
    /\ work' = [work EXCEPT ![r].seen = IF work[r].mh THEN bits \cap {p} ELSE {}]
    /\ Goto(r, l)
    /\ UNCHANGED <<conf, ctmp, fd, shared, profiles, sched, cron, logcron, bits, hard, last>>

LookAtDir(r)  == pc[r] = "lookdir" /\ LookAt(r, "dir", "liftdir")
LookAtFile(r) == pc[r] = "lookfile" /\ Exists(work[r].file) /\ LookAt(r, work[r].file, "liftfile")
NoFile(r)     == pc[r] = "lookfile" /\ ~Exists(work[r].file) /\ LookAt(r, "none", "write")

\* chattr's result is not looked at.
Lift(r) ==
    /\ pc[r] \in {"liftdir", "liftfile"}
    /\ work' = [work EXCEPT ![r].lifted = @ \cup work[r].seen]
    /\ bits' \in {bits \ work[r].seen} \cup (IF "tool" \in Faults THEN {bits} ELSE {})
    /\ Goto(r, IF pc[r] = "liftdir" THEN "lookfile" ELSE "write")
    /\ UNCHANGED <<conf, ctmp, fd, shared, profiles, sched, cron, logcron, hard, last>>

\* Faulty variant: nothing is rendered when no schedule is left.
PutUnlessEmpty(r) ==
    IF ~Logs(r) /\ (\A a \in App : work[r].sched[a] = {})
    THEN UNCHANGED <<cron, logcron, hard, bits>>
    ELSE /\ IF Logs(r) THEN logcron' = work[r].conf.log /\ UNCHANGED cron
            ELSE cron' = work[r].sched /\ UNCHANGED logcron
         /\ bits' = bits \ {work[r].file} /\ UNCHANGED hard

\* The bit goes with the file it was on: a new one does not have it.
Put(r) ==
    /\ IF Logs(r)
       THEN /\ logcron' = work[r].conf.log
            /\ hard' = hard \ (IF logcron' = "off" THEN {"rotate"} ELSE {}) /\ UNCHANGED cron
       ELSE /\ cron' = work[r].sched
            /\ hard' = hard \ (IF \A a \in App : cron'[a] = {} THEN {"backups"} ELSE {})
            /\ UNCHANGED logcron
    /\ bits' = bits \ {work[r].file}

\* Creating, renaming over and unlinking fail while a bit is set.
WriteCron(r) ==
    LET f == work[r].file
        idle == ~Exists(f) /\ (IF Logs(r) THEN work[r].conf.log = "off"
                                ELSE \A a \in App : work[r].sched[a] = {})
    IN  /\ pc[r] = "write"
        /\ \/ (idle \/ bits \cap {"dir", f} = {}) /\ Put(r) /\ UNCHANGED work
           \/ /\ ~idle /\ (bits \cap {"dir", f} # {} \/ "io" \in Faults)
              /\ work' = [work EXCEPT ![r].ok = FALSE]
              /\ UNCHANGED <<cron, logcron, bits, hard>>
        /\ Goto(r, "lockfile")
        /\ UNCHANGED <<conf, ctmp, fd, shared, profiles, sched, last>>

\* Faulty variant: only a write that succeeded locks again.
RelockOnSuccess(r, p, l) ==
    /\ IF p \in work[r].lifted /\ work[r].ok
       THEN /\ bits' = bits \cup {p}
            /\ work' = [work EXCEPT ![r].lifted = @ \ {p}]
       ELSE UNCHANGED <<bits, work>>
    /\ Goto(r, l)
    /\ UNCHANGED <<conf, ctmp, fd, shared, profiles, sched, cron, logcron, hard, last>>

\* In a finally clause.  A file that is gone cannot be locked.
Relock(r, p, l) ==
    /\ IF p \in work[r].lifted
       THEN \/ /\ bits' = bits \cup (IF p = "dir" \/ Exists(p) THEN {p} ELSE {})
               /\ work' = [work EXCEPT ![r].lifted = @ \ {p}]
            \/ /\ "tool" \in Faults /\ UNCHANGED bits
               /\ work' = [work EXCEPT ![r].stuck = @ \cup {p}]
       ELSE UNCHANGED <<bits, work>>
    /\ Goto(r, l)
    /\ UNCHANGED <<conf, ctmp, fd, shared, profiles, sched, cron, logcron, hard, last>>

RelockFile(r) == pc[r] = "lockfile" /\ Relock(r, work[r].file, "lockdir")
RelockDir(r)  == pc[r] = "lockdir" /\ Relock(r, "dir", IF work[r].ok THEN "done" ELSE Failed(r))

------------------------------------------------------------------------------
CronAsk(r) ==
    /\ \/ \E w \in When : Begin(r, [do |-> "setlog", when |-> w], "cread")
       \/ Begin(r, [do |-> "setapi"], "cread")
       \/ \E p \in Profile : Begin(r, [do |-> "addprof", profile |-> p], "pread")
       \/ \E p \in Profile, f \in BOOLEAN : Begin(r, [do |-> "delprof", profile |-> p, force |-> f], "pread")
       \/ \E a \in App, t \in SUBSET Profile :
             Begin(r, [do |-> "setsched", app |-> a, remotes |-> t], "sread")
       \/ \E a \in App : Begin(r, [do |-> "rmsched", app |-> a], "sread")
    /\ UNCHANGED cronVars

\* The kernel closes what the process had open.
CronDies(r) ==
    /\ Dies(r)
    /\ fd' = [fd EXCEPT ![r] = "none"]
    /\ UNCHANGED <<conf, ctmp, shared, profiles, sched, cron, logcron, bits, hard, work, last>>

CronNext ==
    \E r \in Request :
       \/ CronAsk(r) \/ CronDies(r)
       \/ ReadConfig(r) \/ OpenTmp(r) \/ WriteTmp(r) \/ WriteTmpFails(r) \/ ReplaceConfig(r)
       \/ ReadProfiles(r) \/ SaveProfiles(r) \/ ReadSchedules(r) \/ WriteSchedules(r)
       \/ Render(r) \/ LookAtDir(r) \/ Lift(r) \/ LookAtFile(r) \/ NoFile(r) \/ WriteCron(r)
       \/ RelockFile(r) \/ RelockDir(r)

CronSpec == CronInit /\ [][CronNext]_allCronVars

------------------------------------------------------------------------------
\* A path the host keeps immutable is found without the bit only while a request that
\* lifted it is at work, or after one died or could not run chattr (immutable.py 41-57).
\* Overlapping requests that lift and lock the same path do not leave it open.
HardeningRestored ==
    hard \subseteq bits \cup UNION {IF Busy(r) \/ pc[r] = "dead" THEN work[r].lifted
                                     ELSE work[r].stuck : r \in Request}

\* Requests that do not overlap: the cron file says what the schedules say, unless the
\* request that last changed them has not succeeded, or was the removal of a profile, which
\* swallows the failure (schedule.py 111-148, remote.py 219-224).  The same of the log
\* settings and their cron file (javahost_main.py 559-561).
CronFollows ==
    alone /\ Resting =>
        /\ \/ cron = sched
           \/ \E r \in Request : r \in last.sched /\ (pc[r] # "done" \/ op[r].do = "delprof")
        /\ \A r \in Request : r \in last.log /\ pc[r] = "done" => logcron = conf.log

\* Unless two requests had the temporary file open at once, config.json is whole at every
\* moment, however a writer fails or dies (config.py 69-96): a torn file is read as empty,
\* and so as a permission to lift the immutable bit.
SettingsWhole == ~shared => conf # Torn
==============================================================================
