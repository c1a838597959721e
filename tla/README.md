# A TLA+ model of NSWall

NSWall is a firewall in the manner of m0n0wall: OpenBSD, booted from a flash
card that is mounted read-only, with everything else in ramdisks.  It has two
front ends.  The web interface is PHP: requests load one XML file into `$config`,
change it, store it, and call functions that write the files of daemons and
restart them.  The shell `nssh` is C: its commands edit files of rules in a
ramdisk, start and stop daemons, and are written out as text that the next boot
executes.  The specifications here model what these programs do to the state they
share, check it with TLC, and prove with TLAPS, for any number of processes, hosts,
rules, routes, daemons and services, every safety property that TLC checks and that holds.

Paths below are relative to `src/`; *inc* stands for `initial-conf/inc`.

## The system

| Component | Source | State it keeps | Operations | Module |
| --- | --- | --- | --- | --- |
| configuration lock | inc/config.inc 735-769 | `/var/run/config.lock` | lock, unlock | ConfigLock |
| configuration store | inc/config.inc, rc.initial.defaults | `config.xml`, its cache, the mount of `/conf`, `$config` | load, save, install, reset, remount, boot | ConfigStore, ConfigRegister |
| configuration sync | inc/config_sync.inc | the configurations of the primary and its hosts | push an area, serve a push | ConfigSync |
| rule scripts | nssh/pf | `nssh_pf.conf`, `pf.conf`, pf's ruleset | add, delete, reload | PfRules |
| service control of nssh | nssh/ctl.c, conf.c, commands.c, save-ro.sh | rules files, flag files, `nsshrc`, `nssh.conf` | enable, disable, reload, edit, write-config, boot | NsshCtl |
| daemons of the web interface | inc/services.inc, relay.inc, rc.bootup | daemons, their files and pid files | the `services_*_configure()` functions | Services |
| programs that change the configuration | nssh/nssh.php (in initial-conf), rc.initial.setlanip, rc.newwanip, rc.bootup | `$config` of each, filter and tunnels, `wanip` | show, modify, edit by number, configure, new address | ConfigClients |
| static routes | inc/system.inc 281-321 | the kernel's tables, `routes.db` | `system_routing_configure()` | StaticRoutes |
| host names, resolver, users, time | rest of inc/system.inc | files of /etc | write a file, start a program | not modelled |
| captive portal | inc/captiveportal.inc.bkup | sessions, rule numbers | (parked: included by nothing) | not modelled |
| conversion, XML, utilities | inc/config.inc, xmlparse.inc, util.inc | none | pure functions | not modelled |
| firmware, packages, updater | rc.firmware, rc.pkg, update | the flash image | linear scripts | not modelled |
| kernel commands of nssh | nssh/if.c, bridge.c, ... | the kernel's | one command, a few ioctls | not modelled |
| filter, interfaces, VPN, web pages | packages/*.tgz | | | external: read in the archives |
| theme: Admintasia with jQuery and TinyMCE (all the JavaScript) | admintasia_2.1 | | | third-party: not modelled |
| build, images, test set-up, lists | | | | not modelled |

How they interact:

- Every PHP process goes through the store.  `mini_httpd` runs up to 16 requests
  at once, and the console scripts (`rc.initial.*`), `rc.bootup`, `rc.newwanip`
  and `nssh.php` are PHP processes too.  They meet in `config.lock`,
  `config.xml`, `config.cache` and the mount of `/conf`.
- A page stores its change, then calls a configure function (Services) and, for
  areas that are synchronised, `push_config()` (ConfigSync), which posts to
  `config_sync.php` on other boxes; these store and apply what they get.
- `nssh` starts the rule scripts of `nssh/pf` as its handlers for pf (PfRules),
  and keeps its own startup file in the same `/conf` (NsshCtl).
- Calls of other programs are by name, pid file or shell; nothing but the
  configuration lock and the editor's `flock()` keeps two processes apart.

What is hard: processes side by side in every part; power that may fail at any
instruction on a box without a shutdown; remounts by force; files replaced in
place; a lock that gives up; connections without time-outs; state that lives in
ramdisks and must come back at a boot.  What makes each component correct:

- lock: sections exclude each other as long as nobody gives up, every call returns;
- store: one atomic register of whole configurations, whatever the cache does;
- sync: the hosts that answered hold the primary's area, in its place, and nothing else changed;
- rules: the kernel has the rules the file describes, and does not lose them all;
- nssh: what was saved comes back, and runs;
- services: what runs is what is stored, and one undisturbed call is enough to
  repair what other calls have left;
- clients: an edit changes what its user saw and nothing else, and what is in force
  is what is stored, as far as it could be put in force;
- routes: the kernel has the configured routes, none that were configured once, and
  other people's are left alone.

## Modules

**ConfigLock** has the lock file and, per process, where it is in
`config_lock()`: `Request` is the call, `Create` the successful `fopen(.., "x")`,
`Retry` the failed one with its `sleep(1)`, `FallThrough` the end of the loop,
`Unlock` is `config_unlock()`, which unlinks anybody's file.  `Die` is `die()` or
`exit` inside a section, `LockTick` a second, `LockPowerLoss` the loss of the
ramdisk.  `brokenIn` is history: somebody has returned without the lock.

**ConfigStore** extends it by the files: `file` and `mtime` for `config.xml` on
the flash, for the one in the directory below the mount point, and for the cache;
`mnt`, `handle` (a file opened for writing), `fstab`, the clock.  `pc` and `op`
say where each process is.  A step is one file access or one mount: `umount -f`
and `mount` of `conf_mount_rw()` are two, and so are the truncation and the
writing of a file.  `Boot` is rc.bootup with its search for the disk, `Load`
the parser of config.inc, then `Save`, `Install`, `Reset`, `Finish`; `Bare` are the
remounts without the lock in `services_dyndns_reset()` and `system_sshd_start()`.
`faults` is history, and names what has disturbed the store since the boot:
"overlap" (two processes in their sections), "remount" (one without the lock beside
a section), "second" (config.xml replaced in the second of the cache), "torn" (power
lost while config.xml was not whole).

**ConfigRegister** is what callers are promised: a register of configurations,
each process with its copy, each store asked for taking effect once.  ConfigStore
implements it with `current` as the content of config.xml (the value being written
while it is torn, the default while a reset has it unlinked), `view` as `$config`
and `pending` as the value of a store that has not opened the file yet.

**PfRules** has `nssh_pf.conf` as the set of its lines, each with type, number and text
(`pfreload` sorts whole lines and drops duplicates, so that order says nothing), `pf.conf`,
and the kernel's rules.  `Gen` is `gen_pffile()`: types in their order, numbered lines
sorted, then the others.  addrule is `Add`, `Grep`, `AppendRule` and the reload; delrule is
`Del`, `Filter`, `Replace` (with `WritePass`, the echo of "pass all", when nothing is left)
and the reload; the reload is `ReadRules`, `Unlink`, for each line `OpenFile` and `EmitLine`,
as `echo >>` first creates the file and then writes to it, and `LoadRules`.  A script whose
open file another one unlinks writes its line to nowhere (`lost`).  `pfctl -f` takes a file
as a whole or not at all (`Load`): one line that it refuses, which a startup file may bring,
leaves the rules that are in force.  A text is its rank in byte order; `Ere` says what it
matches as a regular expression, because addrule hands it to grep as one.  Coarse:
`nssh_pf.conf` is read at once, and a line is appended to it in one step.

**ConfigSync** has the configuration of each host as a function from areas to
contents.  A page at the primary edits (`Edit`, which is also the save and the start
of the push), then for each host asks for the md5 (`AskMd5`, answered by `GetMd5` or given
up by `NoMd5`), posts (`Post`, `PostFails`) and reads the answer (`Success`, `Failure`).  The
page waits in "md5" and in "wait", in one and the same loop of `http_request()`.  At the host
a request loads, stores the whole configuration, applies the area and answers.  A request
that its page has given up on still runs.  Load and store are atomic here, which
ConfigStore shows them to be while nothing disturbs it.

The two ends do not always mean the same element of the configuration.  `Named` are the
areas whose name `push_config()` passes on as the label for the md5; of the others the host
returns none, and they are always posted.  `Refused` are those that the host does not know
by the name they are posted under (`nats`, where `sync_config_area()` has `nat`).  `Around`
are those whose md5 is that of the element around them: for aliases the page sends and
hashes `aliases/alias`, the host `aliases`.  `Lifted` are those that are stored one level
up, in the place of the element around them: aliases again, when the host runs the cases of
`sync_config_area()`.  A content says whether it is in its place or one level up (`up`), and
a value that is one level up is the value the page hashes.  `Applied` are the areas for
which the host calls something once it has stored them.  What that returns is dropped:
`ReqApply` puts the area in force or fails, and answers SUCCESS either way; `askew` is
history, and has the hosts where an apply has failed or where requests have met.
`push_config()` encodes the area by reference, so that the page's own `$config` has a string
in its place from then on (`Encoded`).

**NsshCtl** has, per service, the rules file and the flag files, which services run and by
which rules, the file `nsshrc` that show and write-config write, and `nssh.conf` on the
flash.  The text is a sequence of entries, one a line of a rules file or a command; lines
are abstracted to how the boot takes them (blank, too long for its 256 bytes, refused by the
service, without a newline); nspf adds any of them (`AddRule`).  `Fileless` are the daemons
that start without a file (ftp-proxy).  `Section` is what `conf_ctl()` prints of one
service, `Command` how it prints a flag.  Enable, disable and reload are `CtlCommand` and
`CtlFlag` or `CtlReload`; the DNS link has `DnsUnlink`, `DnsLink`, `DnsUnflag`; an editor
`Edit`, `EditSave`, `EditEnd`.  `locked` are the services whose lock file somebody holds by
`flock()`, which `acq_lock()` tries without waiting; `seen` is history, the file as each
editor has last read or written it.  `Added` are the services with an add command, which
does not ask for the lock; none of them is `Edited`. `Conf`, `ConfCtl` and `Close` write the
text, `SaveMount` to `SaveRemount` are save.sh, `Boot` is `nssh -i` executing the saved text
entry by entry.  Sessions begin after the boot, which enables sshd last.  `Plain` are the
files that such a text can say: not an empty one (conf_ctl() prints `x rules` and `!`, and
the boot makes no file of it), none with a line that is blank or too long, none whose last
line has no end.

**Services** has the stored configuration (a value for each daemon), the daemons'
files, the processes with the configuration they started with, and the pid
files.  Each configure function is the sequence of steps it takes, and a process
works off its sequence, so that calls of two processes mix.  `Pkill`, `PidKill`,
`Unlink`, `Sleep`, `Write`, `Start`, `Filter` are the steps; bgpd's `Check`,
`Pgrep` and `Reload` its way of finding out whether it runs.  A killed daemon
takes its time (`Exit`), and so does a started one to write its pid file (`WritePid`):
a call that comes before misses it; numbers are reused.  dnsmasq, bgpd and relayd need sockets
that a second instance does not get.  rc.bootup works by the `$config` it loaded
before requests were let in.  `WriteFails` is a file that cannot be opened: the
function for dhcpd, ez-ipupdate or bgpd returns before its next step, with the daemon
stopped or not told, and its caller goes on; `relay_relayd_reload()` does not look, and starts
relayd with the file there is.  The pages in the packages hold the configuration lock
around the calls, but the lock gives up, and `sync_config_area()` and rc.bootup do not
take it: the model lets any two meet.  The dhcpds of the routing tables are a list, in the
order of the configuration; `DhcpdTables` is the loop over it.

**ConfigClients** extends ConfigRegister, so that loads and stores are atomic, by what the
programs do with the register: `Look` is a user who reads the list of rules, `Load` the
include of config.inc, `Ask`, `Store` and `Reread` are write_config(), `Configure` is
filter_configure() and its kin by the `$config` of the process.  A rule has a name (what the
user knows it by), an action, an interface and sources.  `Apply` says what a job makes of a
configuration: first `FilterRulesSort`, which the callers run on the list before they edit or
show it, then the edit.  `filter_rules_sort()` (guiconfig.inc in the archive
ns-www_common-1.0.tgz) gives each rule its present number and sorts by that, so that the
list stays as it is; `SortByInterface` is what its comment says.  `ModifySrc` has the loop
of nssh.php with the counter that two loops share, `Turn` is one round of it.

`inforce` is what filter, tunnels and LAN were last configured by, `tunnels` and `dns` the
addresses that tunnels and resolver were last set for.  `Set` is what configuring comes to:
pfctl takes the rules as a whole or not at all (`Accepted`; nssh.php validates nothing, and
its loop may make a source that pfctl refuses, while the pages for adding and editing let
pfctl look first), the rest may fail and nobody looks at the result (`failed`).  A change of
the IPsec area ends in filter_configure(), and a change of the LAN in both (`Affects`).
rc.bootup is `BootLoad` and `BootEnd`, with requests in between; rc.newwanip is `Load`,
`Compare` (after the boot has ended), `Rebind`, `Record`, beside an address that moves.  As
anybody who configures IPsec sets the tunnels for the address of the moment, the recorded
address may say nothing of them; `amiss` is the history of that.

**StaticRoutes** has the routing tables of the kernel (`kernel`, a route or none for each
table and network, and whose it is), routes.db as a sequence of lines, and each process's
place in `system_routing_configure()`.  A configuration has a list of routes, of which
several may be to one network: `Look` and `Read` take in the file, `Clear` runs
one line of it, `Unlink`, `Open`, then `Add` and `Note` for each route.  A handle of an
unlinked file writes nowhere; two handles of one file write over each other, each at its
own offset (lines are taken to be of one length; what lies behind a hole is `Garbled`).
`Other` is anybody else who changes a route.  Coarse: the file is opened and read at once.

MCConfigStore, MCPfRules, MCConfigSync, MCNsshCtl, MCServices, MCConfigClients and
MCStaticRoutes give the constants
their small values and the symmetries.  Names that end in what went wrong
(`CreateAppending`, `MountRoCacheOld`, `UnlinkNot`, ...) are variants of the
definition they stand before, with a plausible mistake; no specification uses
them.  They serve to see that the properties fail when the code is wrong.

## Runs

| Run | What it checks | Bounds |
| --- | --- | --- |
| store_quiet | undisturbed, the store is the register (`ImplementsRegister`), config.xml is whole at rest, the cache agrees, a save has stored, a load has a configuration, nobody dies in a section | two processes, two configurations, two tries, clock 0-2 |
| store_faults | the inductive invariant `StoreInv` of the proofs, with deaths, break-ins, remounts, resets and torn files | two processes, one try, one configuration, the CD-ROM platform with its nested lock |
| store_live | every operation ends, whatever disturbs it, the calls of config_lock() in it too; sections exclude each other until somebody gives up (`OneHolder`) | two processes, one try, one configuration; load, save, install and remount, no reset |
| store_stalecache | *violated*: the parser takes a cache of the same second for a newer one | as store_quiet, install only |
| pf_rules | `RulesInForce`: the kernel has the rules of the file, in the order of `Gen`; `EmptiedByOverlap`: the one way for it to lose them all; `OnlyDeletedRulesGo` | two sessions, two rules to add besides "pass all", one of which pfctl refuses |
| pf_refused | *violated*: a refused rule exists already | one session |
| sync_push | a lone push syncs; what is answered SUCCESS is stored; what is stored is in force unless an apply failed; other areas are kept | two pages, one host, rules and aliases, two values |
| sync_hosts | a host that is down keeps neither page nor other host from what is theirs | one page, two hosts, an area they take and one they refuse |
| nssh | saved configurations come back and run; `NoEditLost`: no editor writes over what it has not read; the DNS link and its flags agree | two sessions, four services, four commands |
| services | a lone call repairs; what runs is what is stored while calls do not meet; pid files name their own daemon | two requests and rc.bootup, eight pids, two requests or crashes, one disturbance between two boots (a meeting, a crash, a missed daemon or a failed write) |
| clients | `EditsExact`: a store changes what its user asked for of the rule that was shown; `LoneConfigures`, `InForceAtRest`: when filter, tunnels and LAN are as stored; `NothingToDo`: when rc.newwanip is right to return | two requests at a time and rc.bootup, four rules, two jobs of users and a run of rc.newwanip more, two addresses and two changes, so that one comes back; the tunnels may fail at any time |
| routes | `NothingLeft`, `RoutesInPlace`: which routes the kernel has after calls alone, in a row, and after a meeting; `OthersKept` | two processes, two networks, two gateways, a second table, four requests and one disturbance between two boots |

store_quiet runs the specification restricted to steps after which `faults` is
empty, which is what the promises are about; it may then stop (deadlock is not
checked), because the only step left may be one that disturbs.

Why the bounds are enough.  Two processes are what every conflict here is made of: the files
have one content, and a third process finds what the second one left. For the lock two are a
restriction that counts, as taking the file from one who broke in takes three;
`LockExcludes` is proved for any number.  One or two tries stand for ten: the number is not
compared with anything but its end, and the proofs are for all. The clock need only tell a
cache that is older, of the same second, and newer; it stands still at its bound, and
sleepers go on waking.  The lines of pf_rules are two rules, one without a number and one
with a number that pfctl refuses, besides "pass all": two types, both shapes of a line, and
files that come into force or do not.  In sync_push, rules mean the same at both ends and
aliases do not; in sync_hosts, nat is refused, so that its answer is a failure.  Four
commands suffice for an edit, an enable and a save of one session beside one command of the
other.

Services has one value to change to for dnsmasq, bgpd and relayd, for a dhcpd a refused one
and a deleted table, and three daemons that may be disabled.  The bound of one disturbance
between two boots (a meeting of two processes, a crash, a daemon missed by a stop, or a file
that cannot be written) still lets another, undisturbed call come after it, which is the one
that has to repair.  With two disturbances the state space is out of reach; nothing in the
functions counts disturbances.  `WritePid` waits until a call is about to use the file:
nobody else looks at it.

In clients, four rules are as few as bring the loop of nssh.php round to its number again:
users pick number 2, which the loop comes back to once among four rules, twice among the
five after an addition, and not at all among the three that a deletion leaves.  Two jobs of
users and a third run are two that meet and a rc.newwanip beside or after them; two moves of
the address are one that goes and one that comes back, which is when the recorded address
says what is no longer so.  Only the tunnels are let fail, at any time; the rules come into
force or not by what pfctl makes of them. Four requests for static routes are two that meet
and the two that repair; the configurations have none, one or two routes, two gateways for
one network, and one network in either table, of which one may be deleted.

Fairness.  `EveryOperationEnds`: weak fairness of each process's steps, the loop in
`config_lock()` among them, and of the clock: the kernel schedules processes, and time
passes; nobody is obliged to unlock, as a process may have died; whether a request begins
another operation is its own affair.  `EveryPushEnds`: pages and requests are scheduled;
nothing makes a connection break, so that a page that waits for a host that died may wait
for ever (`Hung`), be it for the md5 or for the answer to a post: both are read by the loop
in `http_request()`, which has no limit.

## Where the code and its words differ

Two runs show it (PROJECT.json has the lines): the cache of the same second
(config.inc:170 says "newer", line 172 compares with `>=`), and the first rule of
a box without rules (grep's status 2 in pf.subr:72 taken for a duplicate).
Seen while modelling, and left to the reader:

- pf.subr:28 promises rules of one number "in the order that they occur in
  nssh_pf.conf".  The sort in line 137 puts them in byte order (`Gen`), and the last
  filter rule that matches decides.
- nssh.php:73 counts the sources with the `$i` that counts the rules.  With four rules,
  `modify rule 2 srclist x` comes to number 2 a second time at rule 3, and stores in the
  place of rule 2 a copy of rule 3 whose only source is "Array" (`ModifySrc`).
- nssh.php:86 stores and configures for a `modify` that has changed nothing, too: for a
  number that no rule has, or a word it does not know.
- filter_rules_sort() says in its comment that it sorts by interface, and so suggests a list
  whose numbers change under the user.  It numbers the rules and sorts by these numbers
  (`FilterRulesSort`).
- config_sync.inc:359 pushes `aliases/alias`, and line 131 stores it in the place of
  `aliases`; the md5 are of different elements, so that aliases are always posted.
  Line 382 posts `nats`, which sync_config_area() does not know: it has `nat` (line 151).
- config_sync.inc:122 and its like, and nssh.php:88, keep the result of the configure function
  in a `$retval` that nobody looks at: SUCCESS says that the area was stored, and no more.
- rc.newwanip:57 says "reload firewall rules"; filter_rules_generate() returns a text,
  which is dropped.  The NAT states are flushed all the same.  Nothing in the repository
  runs rc.newwanip.
- system.inc:311: a route that names a routing table that has been deleted goes into the
  main table.
- config.inc:736 decides "that the lock file is stale after 10 seconds".  The age
  of the file is not looked at: a caller goes on after ten tries though the lock
  may have changed hands meanwhile; and it goes on without a lock file of its own.
- pf.subr:71 greps for the rule as a regular expression, so that a rule with
  parentheses does not match itself, and is added twice, against line 69.
- config_sync.inc:81 tests a `$false`, which is not set; the function returns
  NULL there, where line 45 promises FALSE.  Both are treated alike by its callers.
- services.inc:803: bgpd.pid is written by `pgrep` before bgpd starts.  A bgpd that
  was refused once is never started again before the reboot, only "reloaded".
- relay.inc:103: "reload config" is a kill and, without a pause, a start.
- services.inc:123: with sync hosts, dhcpd reads a file nobody writes.

## Proofs

Each theorem holds for any values of the constants, from the assumptions that the
module it is about states (`LockAssumption`, `StoreAssumption`, `PfAssumption`, ...).
These say that constants are distinct or of the right type, that lists have no host or
service twice, that there are areas and values; TLC evaluates them on every run.  Bounds such
as `MaxGiven` only end the state space and are not used.

| Module | Type invariant | Properties |
| --- | --- | --- |
| ConfigLockProofs | `LockTypeCorrect` | `LockExcludes` |
| ConfigStoreProofs | `TypeCorrect` | `UsesLock`, `StoreStaysOrderly`, `StoreWholeAtRest`, `StoreSaves`, `StoreLoadsWhole`, `StoreNoDeath`, `StoreCacheMatches`, `StoreIsRegister` |
| ConfigSyncProofs | `SyncTypeCorrect` | `PushedIsStored`, `PushKeepsAreas`, `LonePushReaches`, `StoredIsInForce` |
| PfRulesProofs | `PfTypeCorrect` | `OnlyOverlapEmpties`, `RulesComeInForce`, `OnlyNamedRulesGo` |
| NsshCtlProofs | `NsshTypeCorrect` | `NothingEditedIsLost`, `DnsWillAgree`, `BootWillRestore`, `BootWillServe` |
| ConfigClientsProofs | `ClientsTypeCorrect` | `EditsAreExact`, `LoneOnesConfigure`, `InForceAtLast`, `NothingElseToDo` |
| StaticRoutesProofs | `RoutesTypeCorrect` | `NothingIsLeft`, `RoutesGetToTheirPlace`, `OthersRoutesAreKept` |
| ServicesProofs | `ServicesTypeCorrect` | `PidFilesAreTheirOwn`, `CalmCallsServe`, `LoneCallsServe` |

The arguments, and what makes each invariant inductive:

**Lock and store.**  None of the properties is inductive: that a save has stored what it
was asked to depends on nobody else having been at the disk since, and so on the
lock.  The lock excludes because a process in its section owns the lock file
(`HolderOwnsFile`), which fails once somebody has broken in.  `Shape` then says where a
process may be in each operation and in how many sections, whatever has happened,
so that the processes at the store can be read off their `pc`.  `Orderly` says for the
undisturbed store that there is one such process at most, how the disk stands at
each of its steps (`Stage`), that without one the disk is at rest (`AtRest`), what
requests have in memory (`Memory`), and when the cache can be believed (`Fresh`: it
is newer than config.xml, or of the same second while no install or reset has
replaced config.xml in the second of the cache).  `StoreIInv` is all of these
with `TypeOK` and `LockInv`; `OrderStep` takes one step per action, and the
steps that make a fault ("overlap", "remount", "torn") leave nothing to
show.  The properties follow from it without further induction.  For
`StoreIsRegister` each action is shown to be a step of the register or a stutter:
`Open` of a save or install, and `Clear` of a reset, are the moments the
register changes; `Parse` and `ReadCache` are loads, the latter by `Fresh`.

**Sync.**  `PeerInv` follows a request at a host: one that is alone there has the
configuration of the host in its copy until it writes, and what it pushes in its place
afterwards.  `PushInv` follows a page that nothing runs beside: each host before its place
in the list has the area, or has not been reached; `SoloExcludes` says that another page or
a request left behind ends its being alone, for those that come later too.
`EqualMd5` is what an equal md5 lets a page conclude, given what the two ends hash.
`ForceInv` is about a host where no requests have met and nothing has failed: what is not in
force as it is stored, the one request that is about to apply it will put in force.

**Rules.** `Sorted` is a CHOOSE, so that anything about it needs a sorted list to exist:
`RankIsBijection` numbers the lines of a finite set by how many come before them
(`BeforeIsOrder`), and `SortedLists` turns this about.  `GenLists` puts the sections
together.  `RuleInv` says for each place of a lone script how `pf.conf`, the lines to come
and the kernel's rules make up `Gen` of the file. `FileHasRules`, for `EmptiedByOverlap`, is
about any mixture of scripts: pf.conf is a file without rules only while some script has
created it and not yet written its line, so that pfctl can load an empty file only in
between.

**nssh.** `EditInv` says that an editor has the lock of its file and nobody else edits it,
and that the file is as the editor has last seen it; `OnlyRules` says which other steps may
write the file of a service.  It needs that no service is both `Edited` and `Added`, as an
add command does not ask for the lock.  `DnsInv` follows a DNS command that no other
overlaps.  Two invariants are about saving.  `QuietInv` says how far a save that nobody
disturbs has got: the text has the sections of the services so far (`HasText`).  As the
length of a section depends on the service, this is stated by a function from services to
the places of their sections in the text (`Laid`), which `LaidMore` extends by one section
at a time. `BootInv` is about the other end: for each entry of the saved text that the boot
has executed, what of its service has been made (`Restored`: `RulesAt`, `HandlerAt`,
`FlagsAt`, `ServiceAt`).  `BootBrings` is one step of the boot by the four kinds of entries
(`SectionShape` says which there are), `BroughtStays` the frame, and `OneGetsOn` says that
an entry is of one section only, so that the others stand still.  A reboot, however often,
begins again from the same text (`RebootProgress`).  `FreshGives` reads both properties off
the last entry.  Blank and long lines, and files without an end, are the reason for `Plain`:
without it, the handler of the next service would not be told where the rules of the last
one stop.

**Clients.** `LoopExact` is about the loop of nssh.php: its state after k rounds is a
recursive function, and for a property of all rounds the first round without it is taken,
which TLAPS can do without the induction theorems (`LoopSteps`).  `SortKeeps` says that
filter_rules_sort() leaves any list as it is, so that the numbers a user was shown still
hold when the job runs.  `Unmissed` relates the copy of a process and the register until
somebody else stores; `SoloInv` and `StoreInv` relate the register and what is in force, up
to rules that pfctl refuses and an area whose configuration failed (`AsStored`): one process
that is alone has configured what its job affects, and as long as no two have stored beside
each other, what is not configured as it is stored some process is `Going` to configure.
`WanInv` says that tunnels and resolver are set for the recorded address as long as nothing
is `amiss`.

**Routes.**  `Marks` ties the history to whose the routes in the kernel are; `Knows` says
for each place in the function how the lines to delete, the lines written, and the entries to
come make up the kernel's routes; there is one lemma for each action.
`RestInv` is what it leaves between calls, `RunInv` while a lone call runs.

**Services.** The state of a daemon is read off the steps that a process still has ahead.
`Whole` says of a function's sequence of steps which daemons it is about, which steps of a
daemon there are and which comes right after which (`Link`); sequences are put together by
`ConcatWhole`, and the loop over the routing tables by an induction on sets (`TablesWhole`).
`Plan` is what `Whole` leaves for the rest of a sequence, so that `TypeInv` says of each
process that what it has left to do is a `Plan`.  `ServerState`, `BgpdState` and
`RelaydState` say what the daemon is like before its first step, between the stop and the
start, and afterwards; `EndStep`, `SleepStep`, `WriteStep`, `StartStep` and their kin take
one step about the daemon, and `StateFrame` the steps about others.  `CalmInv` has them for
the one process that is busy as long as it is calm, `Settled` between the calls, and the pid
files: a living daemon with a pid file is young or in its file (`Tracked`), and there is one
of it at most, so that the process that a call kills is the right one, and the only one.
`LoneInv` needs none of this for a request that is alone, whatever has been before, because
`pkill` goes by the name: it follows the dhcpds and dnsmasq only, and the packet filter.  A
file that cannot be written ends being alone and being calm, and only the types are left to
show: the step after a `Write` is about the same daemon (`WriteFollowed`), so that leaving
it out leaves a `Plan` (`TypeFails`).  rc.bootup is alone in a calm system (`BootCalm`), as
nothing runs yet that it could miss, and for the rest of its function `CalmInv` applies.

What the theorems say of the code is what the modules say of it: where an abstraction is
coarse (a file read at once, the texts as ranks), it is so in the proofs too.

Only model-checked: the liveness properties `EveryOperationEnds` and `EveryPushEnds`
(fairness and ENABLED are beyond the provers; the run of the first has no reset, whose
states are covered by `StoreInv`, but not its progress), and what the two violated runs are
about, which is false.

## Not modelled

The JavaScript of the repository (169 files under `admintasia_2.1`) is the Admintasia theme
with jQuery, its plug-ins and the TinyMCE editor: NSWall's own pages use its looks, and it
is left out as third-party code.  NSWall itself
is PHP, C and shell, and that is what the modules are about.

Of NSWall: `config_validate()`, `convert_config()` (whose only call is commented out), the
XML format and the address arithmetic are pure functions of text; host name, resolver,
syslog, users and time write a file and start a program, and have no state to keep; what the
files of daemons say; squid, SNMP, proxy ARP, NTP and the DNS update; dhcpd with
`configsynchost` set, which reads a file that nobody writes; the commands of
nssh that only call the kernel; the firmware scripts, which run one at a time and from
top to bottom; the captive portal, which nothing includes.  The archives under `packages`
hold the filter, the interfaces, the VPN and the pages; they were read for what they call and
who calls them, and appear as external definitions.  rc.dyndns.storecache
remounts `/conf` like `Bare`, as a process that ez-ipupdate starts.  Programs are
modelled by their manual: `kill` and `pkill` return before the process is gone,
`umount -f` takes files away from those who write them, `sort -k1n` breaks ties by
whole lines, `grep` tells "no file" from "not found", `route add` fails where there is a
route, and `route delete` takes anybody's.

## Plan

Done: the lock, the store, the register, PfRules, ConfigSync, NsshCtl, Services,
ConfigClients and StaticRoutes with their runs and the proofs of their safety properties.
Next, in this order:

1. The refinement of the register by ConfigStore composed with ConfigClients, so that
   the clients are shown on the files themselves.
2. dhcpd with sync hosts, and the firmware scripts beside a reboot.
