---------------------------- MODULE ConfigStore ----------------------------
(***************************************************************************)
(* The configuration store of config.inc: config.xml on the flash mounted  *)
(* at /conf, its unserialised copy config.cache on the /tmp ramdisk, and   *)
(* the requests (PHP processes) that load, save, restore or reset it.      *)
(*                                                                         *)
(* Every file access, mount and unmount is a step of its own; the lock is  *)
(* ConfigLock's.  services_dyndns_reset() and system_sshd_start() remount  *)
(* /conf without taking the lock ("bare" below).                           *)
(***************************************************************************)
EXTENDS ConfigLock

CONSTANTS Configs,   \* the configurations an administrator may store
          Default,   \* the one shipped in conf.default
          Torn,      \* the content of a file opened for writing, not yet written
          Missing,   \* the content of a file that does not exist
          NoConfig,  \* a request's $config before it is loaded, or once it is lost
          NoFile,    \* no open file
          Cdrom,     \* the platform is the CD-ROM one
          Ops,       \* the operations this instance lets requests perform
          MaxClock   \* bound on the clock, in seconds

ASSUME StoreAssumption == /\ Default \in Configs
                          /\ Torn \notin Configs /\ Missing \notin Configs
                          /\ NoConfig \notin Configs
                          /\ Torn # Missing
                          /\ NoFile \notin {"flash", "ram"}
                          /\ Cdrom \in BOOLEAN
                          /\ MaxClock \in Nat

VARIABLES file,      \* contents of config.xml on the flash, of a config.xml in the
                     \* ramdisk directory /conf is mounted over, and of config.cache
          mtime,     \* their modification times, in seconds
          now,       \* the clock
          mnt,       \* how /conf is mounted: "none", "ro" or "rw"
          handle,    \* where each process has config.xml open for writing
          pc, op,    \* where each process is, in which operation
          booting,   \* $g['booting'] of each process
          val,       \* what its save (its $config as edited) or install is to store
          mem,       \* its $config as it last read it
          fstab,     \* /etc/fstab exists: the store's device has been found
          faults     \* history: what has disturbed the store since boot

diskVars == <<file, mtime, mnt, handle>>
procVars == <<pc, op, booting, val, mem>>
vars == <<lockVars, diskVars, procVars, now, fstab, faults>>

Vol == IF mnt = "none" THEN "ram" ELSE "flash"

Content == Configs \cup {Torn, Missing}
Labels == {"idle", "ready", "lock", "decide", "parse", "cacheOpen", "cacheWrite",
           "unlock", "umountRw", "mountRw", "clear", "open", "write", "umountRo", "mountRo"}
OpNames == {"none", "load", "leave", "save", "install", "reset", "bootreset", "bare"}

\* "overlap": two requests were in their sections at once.  "remount": /conf was
\* remounted without the lock while another request was at the store.  "second":
\* config.xml was replaced in the second the cache was written.  "torn": power was
\* lost while config.xml was not whole.
FaultNames == {"overlap", "remount", "second", "torn"}

TypeOK == /\ LockTypeOK
          /\ file \in [{"flash", "ram", "cache"} -> Content]
          /\ mtime \in [{"flash", "ram", "cache"} -> 0..MaxClock]
          /\ now \in 0..MaxClock
          /\ mnt \in {"none", "ro", "rw"}
          /\ handle \in [Procs -> {"flash", "ram", NoFile}]
          /\ pc \in [Procs -> Labels]
          /\ op \in [Procs -> OpNames]
          /\ booting \in [Procs -> BOOLEAN]
          /\ val \in [Procs -> Configs]
          /\ mem \in [Procs -> Configs \cup {NoConfig}]
          /\ fstab \in BOOLEAN
          /\ faults \in SUBSET FaultNames

\* The box is off; its flash holds a configuration.
Init == /\ LockInit
        /\ \E c \in Configs : file = [flash |-> c, ram |-> Missing, cache |-> Missing]
        /\ mtime = [flash |-> 0, ram |-> 0, cache |-> 0]
        /\ now = 0
        /\ mnt = "none"
        /\ handle = [p \in Procs |-> NoFile]
        /\ pc = [p \in Procs |-> "idle"]
        /\ op = [p \in Procs |-> "none"]
        /\ booting = [p \in Procs |-> FALSE]
        /\ val = [p \in Procs |-> Default]
        /\ mem = [p \in Procs |-> NoConfig]
        /\ fstab = FALSE
        /\ faults = {}

\* The processes that remount /conf without the lock, and all those at the store.
Bares == {p \in Procs : op[p] = "bare"}
Active == Holders \cup Bares

\* The faults there are once p has entered its section.
FaultsEntering(p) == faults \cup (IF Holders \subseteq {p} THEN {} ELSE {"overlap"})
                            \cup (IF Bares = {} THEN {} ELSE {"remount"})

\* config.xml as fopen and file_exists see it through the mount.
Xml == file[Vol]

\* The content c is put in file f.
Put(f, c) == /\ file' = [file EXCEPT ![f] = c]
             /\ mtime' = [mtime EXCEPT ![f] = now]

Goto(p, l) == pc' = [pc EXCEPT ![p] = l]
Enter(p, o, l) == /\ op' = [op EXCEPT ![p] = o]
                  /\ Goto(p, l)
-----------------------------------------------------------------------------
(* Requests and their operations. *)

\* rc.bootup includes config.inc.  With no fstab yet it probes the disks for
\* one with a config.xml, and exits when there is none; then it mounts all,
\* which on a box already up (rc.initial.defaults runs rc.bootup again) may come
\* between the unmount and the mount of a request that holds the lock.
Boot(p) == /\ pc[p] = "idle"
           /\ fstab \/ Cdrom \/ file["flash"] # Missing
           /\ fstab' = TRUE
           /\ mnt' = IF mnt = "none" THEN "ro" ELSE mnt
           /\ booting' = [booting EXCEPT ![p] = TRUE]
           /\ Enter(p, "load", "lock")
           /\ faults' = IF fstab /\ mnt = "none" THEN faults \cup {"remount"} ELSE faults
           /\ Request(p)
           /\ UNCHANGED <<file, mtime, handle, val, mem, now>>

\* Any other request includes config.inc.
Load(p) == /\ pc[p] = "idle"
           /\ fstab
           /\ Enter(p, "load", "lock")
           /\ Request(p)
           /\ UNCHANGED <<diskVars, booting, val, mem, now, fstab, faults>>

\* The request edits its $config into c and calls write_config().
Save(p) == /\ pc[p] = "ready"
           /\ "save" \in Ops
           /\ \E c \in Configs : val' = [val EXCEPT ![p] = c]
           /\ Enter(p, "save", "lock")
           /\ Request(p)
           /\ UNCHANGED <<diskVars, booting, mem, now, fstab, faults>>

\* config_install() of a file that config_validate() accepted.
Install(p) == /\ pc[p] = "ready"
              /\ "install" \in Ops
              /\ \E c \in Configs : val' = [val EXCEPT ![p] = c]
              /\ Enter(p, "install", "lock")
              /\ Request(p)
              /\ UNCHANGED <<diskVars, booting, mem, now, fstab, faults>>

\* rc.initial.defaults: a request that sets $noparseconfig and only resets.
Reset(p) == /\ pc[p] = "idle"
            /\ "reset" \in Ops
            /\ fstab
            /\ Enter(p, "reset", "lock")
            /\ Request(p)
            /\ UNCHANGED <<diskVars, booting, val, mem, now, fstab, faults>>

\* services_dyndns_reset(), system_sshd_start(): conf_mount_rw(), some other
\* file of /conf, conf_mount_ro(), all without the lock.
Bare(p) == /\ pc[p] = "ready"
           /\ "bare" \in Ops
           /\ Enter(p, "bare", "umountRw")
           /\ faults' = IF Active = {} THEN faults ELSE faults \cup {"remount"}
           /\ UNCHANGED <<lockVars, diskVars, booting, val, mem, now, fstab>>

Finish(p) == /\ pc[p] = "ready"
             /\ Enter(p, "none", "idle")
             /\ booting' = [booting EXCEPT ![p] = FALSE]
             /\ mem' = [mem EXCEPT ![p] = NoConfig]
             /\ UNCHANGED <<lockVars, diskVars, val, now, fstab, faults>>
-----------------------------------------------------------------------------
(* config_lock() and config_unlock(). *)

PollLock(p) == /\ pc[p] = "lock"
               /\ \/ Retry(p) /\ UNCHANGED <<pc, faults>>
                  \/ /\ Create(p) \/ FallThrough(p)
                     /\ faults' = FaultsEntering(p)
                     /\ Goto(p, IF op[p] = "load" THEN "decide" ELSE "umountRw")
               /\ UNCHANGED <<diskVars, op, booting, val, mem, now, fstab>>

\* A request that has only reset goes on as if it had loaded.
AfterUnlockReady(p) == IF op[p] = "bootreset" THEN Enter(p, "load", "parse")
                       ELSE Enter(p, "none", "ready")

\* After the nested reset the parser goes on; a request without a
\* configuration exits, and rc.initial.defaults is done.
AfterUnlock(p) == CASE op[p] = "bootreset" -> Enter(p, "load", "parse")
                    [] op[p] \in {"leave", "reset"} -> Enter(p, "none", "idle")
                    [] OTHER -> Enter(p, "none", "ready")

Release(p) == /\ pc[p] = "unlock"
              /\ Unlock(p)
              /\ AfterUnlock(p)
              /\ val' = [val EXCEPT ![p] = Default]
              /\ UNCHANGED <<diskVars, booting, mem, now, fstab, faults>>

\* die() and exit: the process is gone, the lock file stays, its files are closed.
Abort(p) == /\ Die(p)
            /\ Enter(p, "none", "idle")
            /\ booting' = [booting EXCEPT ![p] = FALSE]
            /\ mem' = [mem EXCEPT ![p] = NoConfig]
            /\ handle' = [handle EXCEPT ![p] = NoFile]
            /\ val' = [val EXCEPT ![p] = Default]
            /\ UNCHANGED <<file, mtime, mnt, now, fstab, faults>>
-----------------------------------------------------------------------------
(* The parser at the top of config.inc. *)

\* Without the comparison of modification times.
CacheExists == file["cache"] # Missing

\* The cache is used when it exists and is not older than config.xml, whose
\* filemtime() is FALSE, older than anything, when it does not exist.
CacheUsable == /\ file["cache"] # Missing
               /\ Xml = Missing \/ mtime["cache"] >= mtime[Vol]

\* The result of unserialize() taken as it comes.
ReadCacheUnchecked(p) == /\ pc[p] = "decide"
                         /\ CacheUsable
                         /\ mem' = [mem EXCEPT ![p] = file["cache"]]
                         /\ Goto(p, "unlock")
                         /\ UNCHANGED <<lockVars, diskVars, op, booting, val, now, fstab, faults>>

\* unserialize() of a half-written cache is FALSE.
ReadCache(p) == /\ pc[p] = "decide"
                /\ CacheUsable
                /\ mem' = [mem EXCEPT ![p] = IF file["cache"] = Torn THEN NoConfig
                                                                     ELSE file["cache"]]
                /\ Goto(p, "unlock")
                /\ UNCHANGED <<lockVars, diskVars, op, booting, val, now, fstab, faults>>

\* No config.xml at boot: the CD-ROM platform resets to factory defaults, from
\* inside the locked section; the others exit without unlocking.
MissingAtBoot(p) == /\ pc[p] = "decide"
                    /\ ~CacheUsable
                    /\ Xml = Missing
                    /\ booting[p]
                    /\ \/ /\ Cdrom
                          /\ Enter(p, "bootreset", "lock")
                          /\ Request(p)
                          /\ UNCHANGED <<diskVars, booting, val, mem, now, fstab, faults>>
                       \/ ~Cdrom /\ Abort(p)

\* exit(0) without config_unlock().
MissingLaterLocked(p) == /\ pc[p] = "decide"
                         /\ ~CacheUsable
                         /\ Xml = Missing
                         /\ ~booting[p]
                         /\ Enter(p, "none", "idle")
                         /\ UNCHANGED <<lockVars, diskVars, booting, val, mem, now, fstab, faults>>

MissingLater(p) == /\ pc[p] = "decide"
                   /\ ~CacheUsable
                   /\ Xml = Missing
                   /\ ~booting[p]
                   /\ Enter(p, "leave", "unlock")
                   /\ UNCHANGED <<lockVars, diskVars, booting, val, mem, now, fstab, faults>>

StartParse(p) == /\ pc[p] = "decide"
                 /\ ~CacheUsable
                 /\ Xml # Missing
                 /\ Goto(p, "parse")
                 /\ UNCHANGED <<lockVars, diskVars, op, booting, val, mem, now, fstab, faults>>

\* parse_xml_config(), called by the parser and again at the end of write_config().
Parse(p) == /\ pc[p] = "parse"
            /\ \/ /\ Xml \in Configs
                  /\ mem' = [mem EXCEPT ![p] = Xml]
                  /\ Goto(p, "cacheOpen")
                  /\ UNCHANGED <<lockVars, diskVars, op, booting, val, now, fstab, faults>>
               \/ Xml \notin Configs /\ Abort(p)

CacheOpen(p) == /\ pc[p] = "cacheOpen"
                /\ Put("cache", Torn)
                /\ Goto(p, "cacheWrite")
                /\ UNCHANGED <<lockVars, mnt, handle, op, booting, val, mem, now, fstab, faults>>

CacheWrite(p) == /\ pc[p] = "cacheWrite"
                 /\ Put("cache", mem[p])
                 /\ Goto(p, "unlock")
                 /\ UNCHANGED <<lockVars, mnt, handle, op, booting, val, mem, now, fstab, faults>>
-----------------------------------------------------------------------------
(* conf_mount_rw() and conf_mount_ro(): umount -f, then mount. *)

\* A forced unmount kills the files open on the flash.
Umount(p) == /\ pc[p] \in {"umountRw", "umountRo"}
             /\ mnt' = "none"
             /\ handle' = [q \in Procs |-> IF handle[q] = "flash" THEN NoFile ELSE handle[q]]
             /\ Goto(p, IF pc[p] = "umountRw" THEN "mountRw" ELSE "mountRo")
             /\ UNCHANGED <<lockVars, file, mtime, op, booting, val, mem, now, fstab, faults>>

\* The -w forgotten.
MountRwReadOnly(p) == /\ pc[p] = "mountRw"
                      /\ mnt' = IF mnt = "none" THEN "ro" ELSE mnt
                      /\ Goto(p, IF op[p] \in {"save", "install"} THEN "open" ELSE "umountRo")
                      /\ UNCHANGED <<lockVars, file, mtime, handle>>
                      /\ UNCHANGED <<op, booting, val, mem, now, fstab, faults>>

\* mount fails on a directory somebody else has mounted meanwhile.
MountRw(p) == /\ pc[p] = "mountRw"
              /\ mnt' = IF mnt = "none" THEN "rw" ELSE mnt
              /\ Goto(p, CASE op[p] \in {"save", "install"} -> "open"
                           [] op[p] \in {"reset", "bootreset"} -> "clear"
                           [] OTHER -> "umountRo")
              /\ UNCHANGED <<lockVars, file, mtime, handle>>
              /\ UNCHANGED <<op, booting, val, mem, now, fstab, faults>>

\* write_config() unlocks without refreshing the cache.
MountRoNoReread(p) == /\ pc[p] = "mountRo"
                      /\ mnt' = IF mnt = "none" THEN "ro" ELSE mnt
                      /\ Goto(p, "unlock")
                      /\ UNCHANGED <<lockVars, file, mtime, handle>>
                      /\ UNCHANGED <<op, booting, val, mem, now, fstab, faults>>

\* config_install() also "refreshes" the cache, from the $config it has in memory.
MountRoCacheOld(p) == /\ pc[p] = "mountRo"
                      /\ mnt' = IF mnt = "none" THEN "ro" ELSE mnt
                      /\ Goto(p, CASE op[p] = "save" -> "parse"
                                   [] op[p] = "install" -> "cacheOpen"
                                   [] OTHER -> "unlock")
                      /\ UNCHANGED <<lockVars, file, mtime, handle>>
                      /\ UNCHANGED <<op, booting, val, mem, now, fstab, faults>>

MountRo(p) == /\ pc[p] = "mountRo"
              /\ mnt' = IF mnt = "none" THEN "ro" ELSE mnt
              /\ IF op[p] = "bare" THEN Enter(p, "none", "ready")
                 ELSE /\ Goto(p, IF op[p] = "save" THEN "parse" ELSE "unlock")
                      /\ UNCHANGED op
              /\ UNCHANGED <<lockVars, file, mtime, handle, booting, val, mem, now, fstab, faults>>
-----------------------------------------------------------------------------
(* write_config(), config_install() and reset_factory_defaults(). *)

\* The loop of reset_factory_defaults() that empties /conf.
Clear(p) == /\ pc[p] = "clear"
            /\ file' = IF mnt = "ro" THEN file ELSE [file EXCEPT ![Vol] = Missing]
            /\ Goto(p, "open")
            /\ UNCHANGED <<lockVars, mtime, mnt, handle, op, booting, val, mem, now, fstab, faults>>

\* fopen(config.xml, "w"), or the one inside copy(), truncates the file.
Open(p) == /\ pc[p] = "open"
           /\ mnt # "ro"
           /\ Put(Vol, Torn)
           /\ handle' = [handle EXCEPT ![p] = Vol]
           /\ faults' = IF /\ op[p] # "save" /\ file["cache"] # Missing
                           /\ mtime["cache"] = now
                        THEN faults \cup {"second"} ELSE faults
           /\ Goto(p, "write")
           /\ UNCHANGED <<lockVars, mnt, op, booting, val, mem, now, fstab>>

\* It fails on a read-only /conf: write_config() dies, copy()'s result is ignored.
OpenFails(p) == /\ pc[p] = "open"
                /\ mnt = "ro"
                /\ \/ op[p] = "save" /\ Abort(p)
                   \/ /\ op[p] # "save"
                      /\ Goto(p, "umountRo")
                      /\ UNCHANGED <<lockVars, diskVars, op, booting, val, mem, now, fstab, faults>>

\* conf_mount_ro() forgotten.
WriteStaysRw(p) == /\ pc[p] = "write"
                   /\ IF handle[p] = NoFile THEN UNCHANGED <<file, mtime>>
                                            ELSE Put(handle[p], val[p])
                   /\ handle' = [handle EXCEPT ![p] = NoFile]
                   /\ Goto(p, IF op[p] = "save" THEN "parse" ELSE "unlock")
                   /\ UNCHANGED <<lockVars, mnt, op, booting, val, mem, now, fstab, faults>>

\* The file is written and closed; writes to a file killed by umount -f are lost.
Write(p) == /\ pc[p] = "write"
            /\ IF handle[p] = NoFile THEN UNCHANGED <<file, mtime>>
                                     ELSE Put(handle[p], val[p])
            /\ handle' = [handle EXCEPT ![p] = NoFile]
            /\ Goto(p, "umountRo")
            /\ UNCHANGED <<lockVars, mnt, op, booting, val, mem, now, fstab, faults>>
-----------------------------------------------------------------------------
\* MaxClock bounds the clock that stamps files; sleepers still wake once it is reached.
Tick == /\ now' = IF now < MaxClock THEN now + 1 ELSE now
        /\ LockTick
        /\ UNCHANGED <<diskVars, procVars, fstab, faults>>

\* The ramdisks are lost, the flash stays as it is.
PowerLoss == /\ LockPowerLoss
             /\ file' = [file EXCEPT !["ram"] = Missing, !["cache"] = Missing]
             /\ mtime' = [mtime EXCEPT !["ram"] = 0, !["cache"] = 0]
             /\ mnt' = "none"
             /\ handle' = [p \in Procs |-> NoFile]
             /\ pc' = [p \in Procs |-> "idle"]
             /\ op' = [p \in Procs |-> "none"]
             /\ booting' = [p \in Procs |-> FALSE]
             /\ val' = [p \in Procs |-> Default]
             /\ mem' = [p \in Procs |-> NoConfig]
             /\ fstab' = FALSE
             /\ faults' = IF file["flash"] \in Configs THEN {} ELSE {"torn"}
             /\ UNCHANGED now

\* What a request decides to do next, and what it then does until it is done.
Ask(p) == \/ Boot(p) \/ Load(p) \/ Reset(p)
          \/ Save(p) \/ Install(p) \/ Bare(p) \/ Finish(p)
Step(p) == \/ PollLock(p) \/ Release(p)
           \/ ReadCache(p) \/ MissingAtBoot(p) \/ MissingLater(p) \/ StartParse(p)
           \/ Parse(p) \/ CacheOpen(p) \/ CacheWrite(p)
           \/ Umount(p) \/ MountRw(p) \/ MountRo(p)
           \/ Clear(p) \/ Open(p) \/ OpenFails(p) \/ Write(p)

Next == (\E p \in Procs : Ask(p) \/ Step(p)) \/ Tick \/ PowerLoss

Spec == Init /\ [][Next]_vars
-----------------------------------------------------------------------------
(* Correctness. *)

\* config.xml is whole and /conf read-only whenever no request is at the store,
\* if no two ever were at once: write_config() and its kin leave nothing half done.
Undisturbed == faults \subseteq {"second"}
WholeAtRest == Undisturbed /\ Active = {} =>
                   file["flash"] \in Configs /\ (fstab => mnt = "ro")

\* A config.cache newer than config.xml holds what config.xml holds, so that the
\* parser may read it instead.
NewerCacheMatches ==
    Undisturbed /\ Active = {} /\ mtime["cache"] > mtime["flash"] =>
        file["cache"] = file["flash"]

\* When write_config() is about to unlock, the flash, the cache and the
\* request's own $config all hold what it was asked to save.
SaveStored ==
    \A p \in Procs : Undisturbed /\ pc[p] = "unlock" /\ op[p] = "save" =>
        file["flash"] = val[p] /\ file["cache"] = val[p] /\ mem[p] = val[p]

\* A request that has loaded has a configuration, never the FALSE of a torn cache.
LoadedWhole == \A p \in Procs : Undisturbed /\ pc[p] = "ready" => mem[p] \in Configs

\* Nobody dies inside a section, leaving the lock file behind, unless two requests
\* have been at the store at once or power was lost while config.xml was written.
Dying(p) == \/ pc[p] = "parse" /\ Xml \notin Configs
            \/ pc[p] = "open" /\ op[p] = "save" /\ mnt = "ro"
            \/ pc[p] = "decide" /\ booting[p] /\ Xml = Missing /\ ~CacheUsable
NoDeath == Undisturbed => \A p \in Procs : ~Dying(p)

\* The comment in the parser: "see if there's a newer cache file".  What a request
\* takes from the cache is what config.xml holds.
CacheHitIsCurrent == [][\A p \in Procs : Undisturbed /\ ReadCache(p) => file["cache"] = Xml]_vars

\* The store as long as nothing disturbs it.
QuietSpec == Init /\ [][Next /\ faults' = {}]_vars

\* Where a process may be, whatever has happened: inside config_lock() or not,
\* in how many sections, in which steps of which operation.
Shape ==
    /\ waiting = {p \in Procs : pc[p] = "lock"}
    /\ asleep \subseteq waiting
    /\ \A p \in Procs :
        /\ pc[p] \in {"idle", "ready"} <=> op[p] = "none"
        /\ op[p] = "bare" => pc[p] \in {"umountRw", "mountRw", "umountRo", "mountRo"}
        /\ op[p] = "load" =>
             pc[p] \in {"lock", "decide", "parse", "cacheOpen", "cacheWrite", "unlock"}
        /\ op[p] = "leave" => pc[p] = "unlock"
        /\ op[p] \in {"install", "reset", "bootreset"} =>
             pc[p] \notin {"decide", "parse", "cacheOpen", "cacheWrite"}
        /\ op[p] = "save" => pc[p] # "decide"
        /\ pc[p] = "clear" => op[p] \in {"reset", "bootreset"}
        /\ depth[p] = CASE op[p] \in {"none", "bare"} -> 0
                        [] op[p] = "bootreset" -> IF pc[p] = "lock" THEN 1 ELSE 2
                        [] OTHER -> IF pc[p] = "lock" THEN 0 ELSE 1
        /\ handle[p] # NoFile => pc[p] = "write"
        /\ pc[p] \in {"cacheOpen", "cacheWrite"} => mem[p] \in Configs
        /\ ~fstab => pc[p] = "idle"
    /\ ~fstab => mnt = "none" /\ file["cache"] = Missing
    /\ file["cache"] = Missing => mtime["cache"] = 0
    /\ \A f \in {"flash", "cache"} : mtime[f] <= now

\* How the disk stands while p, alone at the store, is where it is.
Stage(p) ==
    /\ mnt = CASE pc[p] \in {"mountRw", "mountRo"} -> "none"
               [] pc[p] \in {"clear", "open", "write", "umountRo"} -> "rw"
               [] OTHER -> "ro"
    /\ CASE pc[p] = "write" -> file["flash"] = Torn /\ handle[p] = "flash"
         [] pc[p] = "open" /\ op[p] = "reset" -> file["flash"] = Missing
         [] OTHER -> file["flash"] \in Configs
    /\ file["cache"] = Torn <=> pc[p] = "cacheWrite"
    /\ pc[p] \in {"cacheOpen", "cacheWrite"} => file["flash"] = mem[p]
    /\ op[p] = "save" /\ pc[p] \in {"umountRo", "mountRo", "parse", "cacheOpen", "cacheWrite", "unlock"}
         => file["flash"] = val[p]
    /\ op[p] = "save" /\ pc[p] \in {"cacheOpen", "cacheWrite", "unlock"} => mem[p] = val[p]
    /\ op[p] = "save" /\ pc[p] = "unlock" => file["cache"] = val[p]
    /\ op[p] # "save" /\ pc[p] = "write" /\ faults = {} /\ file["cache"] # Missing
         => mtime["cache"] < now

AtRest == /\ file["flash"] \in Configs
          /\ file["cache"] # Torn
          /\ fstab => mnt = "ro"

\* What the request has in memory.
Memory(p) == /\ pc[p] = "ready" \/ op[p] \in {"install", "save", "bare"} => mem[p] \in Configs
             /\ op[p] \notin {"save", "install"} => val[p] = Default
             /\ op[p] = "load" /\ pc[p] = "unlock" => mem[p] \in Configs
             /\ op[p] \notin {"bootreset", "leave"}

\* The cache is believed when it is newer than config.xml, and also when it is of the
\* same second, provided config.xml was never replaced in the second of the cache.
Saving == \E p \in Active : /\ op[p] = "save"
                            /\ pc[p] \in {"umountRo", "mountRo", "parse", "cacheOpen"}
Believed == /\ mtime["cache"] >= mtime["flash"]
            /\ faults = {} \/ mtime["cache"] > mtime["flash"]
Fresh == /\ ~Saving
         /\ file["flash"] \in Configs /\ file["cache"] \in Configs
         /\ Believed
         => file["cache"] = file["flash"]

\* At most one process at the store.
Exclusive == \A p, q \in Active : p = q

\* The inductive invariant: the shape always, and the store in order as long as it
\* is undisturbed.
Orderly == /\ Exclusive
           /\ Active = {} => AtRest
           /\ \A p \in Active : Stage(p)
           /\ \A p \in Procs : Memory(p)
           /\ Fresh
StoreInv == /\ Shape
            /\ Undisturbed => Orderly

\* The configuration a reader would get if it waited for the writer: a save or an
\* install takes effect when it truncates the file, a reset when it unlinks it.
Writing == {p \in Procs : pc[p] = "write"}
Current == CASE file["flash"] \in Configs -> file["flash"]
             [] file["flash"] = Torn /\ Writing # {} -> val[CHOOSE p \in Writing : TRUE]
             [] OTHER -> Default
Unstored(p) == \/ op[p] \in {"save", "install"} /\ pc[p] \in {"lock", "umountRw", "mountRw", "open"}
               \/ op[p] = "reset" /\ pc[p] \in {"lock", "umountRw", "mountRw", "clear"}
Pending == [p \in Procs |-> IF Unstored(p) THEN val[p] ELSE NoConfig]

\* Undisturbed, the store is an atomic register: every load takes the configuration
\* as it is, and every store asked for takes effect once, as a whole.
Register == INSTANCE ConfigRegister WITH current <- Current, view <- mem, pending <- Pending
ImplementsRegister == Register!RegSpec

\* A process runs to the end of what it has begun, and time passes.
Fairness == /\ \A p \in Procs : WF_vars(Step(p))
            /\ WF_vars(Tick)
FairSpec == Spec /\ Fairness

\* Whatever happens, whoever dies and however the lock is bypassed, a request that has
\* begun to load, save, install or remount gets to its end (or dies, or power is lost).
EveryOperationEnds == \A p \in Procs : op[p] # "none" ~> op[p] = "none"
=============================================================================
