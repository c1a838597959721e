------------------------------ MODULE Services ------------------------------
(***************************************************************************)
(* The daemons that the web interface configures (services.inc, relay.inc) *)
(* Each has a function that stops it, writes its file and starts it again, *)
(* as the $config of the calling process says.  The calls come from        *)
(* requests, after they have stored a change, and from rc.bootup, which    *)
(* loaded the configuration when it began and lets requests in before it   *)
(* gets to the services.  Nothing keeps the calls of two processes apart:  *)
(* the pages take the configuration lock around them, which gives up, and  *)
(* sync_config_area() and rc.bootup do not take it.                        *)
(*                                                                         *)
(* A function is the sequence of steps it takes; a process works off its   *)
(* steps one by one.  What a daemon's configuration says is a value.       *)
(***************************************************************************)
EXTENDS Naturals, Sequences

CONSTANTS Requests,   \* processes of the web server
          rcbootup,   \* the process of rc.bootup
          Default,    \* the dhcpd of the default routing table
          Tables,     \* the dhcpds of the other routing tables, in the order of the configuration
          Values,     \* what the configuration of a daemon may say
          Refused,    \* values a daemon exits upon, or does not load
          Off, Gone,  \* a daemon not enabled; a routing table not configured
          Changes,    \* bound: the settings that requests store
          MaxPid,     \* bound: daemons at a time
          NoPid, NoProc,
          Initially,  \* the configuration the system is installed with
          MaxGiven    \* bound: requests and crashes

TableDhcpds == {Tables[i] : i \in DOMAIN Tables}
Dhcpds == {Default} \cup TableDhcpds
ByFile == Dhcpds \cup {"dyndns", "bgpd", "relayd"}    \* read a file as they start
Exclusive == {"dnsmasq", "bgpd", "relayd"}            \* a second one gets no sockets
ByPid == {"dhcrelay", "dyndns"}                       \* are killed by a pid file
Daemons == ByFile \cup Exclusive \cup ByPid
Pids == 1..MaxPid
Processes == Requests \cup {rcbootup}
Setting(d) == Values \cup {Off} \cup (IF d \in TableDhcpds THEN {Gone} ELSE {})
Config == {c \in [Daemons -> Values \cup {Off, Gone}] : \A d \in Daemons \ TableDhcpds : c[d] # Gone}

ASSUME ServicesAssumption ==
    /\ rcbootup \notin Requests
    /\ Dhcpds \cap {"dnsmasq", "dhcrelay", "dyndns", "bgpd", "relayd"} = {}
    /\ Tables \in Seq(TableDhcpds) /\ Default \notin TableDhcpds
    /\ \A i, j \in DOMAIN Tables : Tables[i] = Tables[j] => i = j
    /\ Refused \subseteq Values
    /\ \A d \in Daemons : Changes[d] \subseteq Setting(d)
    /\ Off \notin Values /\ Gone \notin Values \cup {Off}
    /\ Initially \in Config
    /\ NoPid \notin Pids \cup {Off}
    /\ NoProc \notin [svc : Daemons, conf : Values, dying : BOOLEAN, young : BOOLEAN]
    /\ {MaxPid, MaxGiven} \subseteq Nat

VARIABLES stored,    \* the configuration in config.xml
          etc,       \* the daemons' files, Off when there is none
          proc,      \* the daemons that run
          pidfile,   \* their pid files
          filter,    \* the configuration that the packet filter was last set by
          pc, view,  \* where each process is, and its $config
          todo,      \* the steps ahead of it
          covered,   \* history: the daemons its function has been to
          solo,      \* history: nothing else has gone on beside it, and no write failed
          calm,      \* history since the boot: no two processes beside each other, no crash,
                     \* no daemon missed, no failed write
          given      \* how many requests and crashes there have been

system == <<etc, proc, pidfile, filter>>
vars == <<stored, system, pc, view, todo, covered, solo, calm, given>>

Nothing == [d \in Daemons |-> Off]
Proc == [svc : Daemons, conf : Values, dying : BOOLEAN, young : BOOLEAN]
StepNames == {"pkill", "pidkill", "unlink", "sleep", "write", "start", "check", "pgrep",
              "reload", "filter"}

TypeOK == /\ stored \in Config
          /\ etc \in [ByFile -> Values \cup {Off}]
          /\ proc \in [Pids -> Proc \cup {NoProc}]
          /\ pidfile \in [ByPid \cup {"bgpd"} -> Pids \cup {NoPid, Off}]
          /\ filter \in Config
          /\ pc \in [Processes -> {"idle", "edit", "run", "end"}]
          /\ view \in [Processes -> Config]
          /\ todo \in [Processes -> Seq(StepNames \X Daemons)]
          /\ covered \in [Processes -> SUBSET Daemons]
          /\ solo \in [Processes -> BOOLEAN]
          /\ calm \in BOOLEAN
          /\ given \in 0..MaxGiven

Running(d) == {p \in Pids : proc[p] # NoProc /\ proc[p].svc = d}
Living(d) == {p \in Running(d) : ~proc[p].dying}
-----------------------------------------------------------------------------
(* The functions: the steps they take with the configuration c. *)

\* isset($config[...]['enable']) forgotten.
EnabledAlways(c, d) == TRUE

Enabled(c, d) == c[d] \notin {Off, Gone}

If(p, steps) == IF p THEN steps ELSE <<>>

\* The file written after the start.
DhcpdTableLate(c, d) == If(c[d] # Gone, <<<<"pkill", d>>>>
                          \o If(Enabled(c, d), <<<<"start", d>>, <<"write", d>>>>))

DhcpdTable(c, d) == If(c[d] # Gone, <<<<"pkill", d>>>>
                      \o If(Enabled(c, d), <<<<"write", d>>, <<"start", d>>>>))

\* The default table, then the others one after the other.
DhcpdTables(c) ==
    LET upTo[i \in 0..Len(Tables)] ==
          IF i = 0 THEN DhcpdTable(c, Default) ELSE upTo[i - 1] \o DhcpdTable(c, Tables[i])
    IN  upTo[Len(Tables)]
Dhcpd(c, boot) == DhcpdTables(c) \o If(~boot, <<<<"filter", Default>>>>)

Dnsmasq(c, boot) == <<<<"pkill", "dnsmasq">>>>
                    \o If(Enabled(c, "dnsmasq"),
                          If(~boot, <<<<"sleep", "dnsmasq">>>>) \o <<<<"start", "dnsmasq">>>>)
                    \o If(~boot, Dhcpd(c, boot))

Dhcrelay(c, boot) == <<<<"pidkill", "dhcrelay">>, <<"unlink", "dhcrelay">>>>
                     \o If(Enabled(c, "dhcrelay"),
                           If(~boot, <<<<"sleep", "dhcrelay">>>>) \o <<<<"start", "dhcrelay">>>>
                           \o If(~boot, <<<<"filter", "dhcrelay">>>>))

Dyndns(c, boot) == <<<<"pidkill", "dyndns">>>>
                   \o If(Enabled(c, "dyndns"),
                         If(~boot, <<<<"sleep", "dyndns">>>>)
                         \o <<<<"write", "dyndns">>, <<"start", "dyndns">>>>)

Bgpd == <<<<"write", "bgpd">>, <<"check", "bgpd">>>>
Relayd == <<<<"write", "relayd">>, <<"pkill", "relayd">>, <<"start", "relayd">>>>

\* The function that is called for a change of a daemon's settings.
Function(c, d) == CASE d \in Dhcpds -> Dhcpd(c, FALSE)
                    [] d = "dnsmasq" -> Dnsmasq(c, FALSE)
                    [] d = "dhcrelay" -> Dhcrelay(c, FALSE)
                    [] d = "dyndns" -> Dyndns(c, FALSE)
                    [] d = "bgpd" -> Bgpd
                    [] d = "relayd" -> Relayd

\* rc.bootup; the relays are commented out in it.
BootSteps(c) == Dnsmasq(c, TRUE) \o Dhcpd(c, TRUE) \o Dhcrelay(c, TRUE) \o Bgpd \o Dyndns(c, TRUE)
-----------------------------------------------------------------------------
(* The steps. *)

\* What the next step is about.
Target(r) == IF pc[r] = "run" /\ todo[r] # <<>> THEN {Head(todo[r])[2]} ELSE {}
Do(r, a, d) == d \in Target(r) /\ Head(todo[r])[1] = a
Then(r, more) == /\ todo' = [todo EXCEPT ![r] = more \o Tail(@)]
                 /\ UNCHANGED <<stored, pc, view, covered, solo, given>>

Busy(r) == pc[r] # "idle"

\* Bound: one disturbance between two boots, a meeting of two processes, a crash, a
\* daemon missed because it was young, or a file that could not be opened.
Room(r) == calm \/ \A u \in Processes \ {r} : ~Busy(u)

Kill(ps) == proc' = [p \in Pids |-> IF p \in ps THEN [proc[p] EXCEPT !.dying = TRUE] ELSE proc[p]]

\* pkill and killall send the signal, and do not wait.
Pkill(r, d) == /\ Do(r, "pkill", d)
               /\ Kill(Running(d))
               /\ Then(r, <<>>)
               /\ UNCHANGED <<etc, pidfile, filter, calm>>

\* Whatever process has the number now; and a daemon that has not written its number yet
\* is not found.
PidKill(r, d) == LET missed == \E p \in Living(d) : proc[p].young
                 IN  /\ Do(r, "pidkill", d)
                     /\ missed => Room(r)
                     /\ calm' = (calm /\ ~missed)
                     /\ Kill({pidfile[d]} \cap {p \in Pids : proc[p] # NoProc})
                     /\ Then(r, <<>>)
                     /\ UNCHANGED <<etc, pidfile, filter>>

\* sigkillbypid() in place of killbypid().
UnlinkNot(r, d) == /\ Do(r, "unlink", d)
                   /\ Then(r, <<>>)
                   /\ UNCHANGED <<system, calm>>

Unlink(r, d) == /\ Do(r, "unlink", d)
                /\ pidfile' = [pidfile EXCEPT ![d] = NoPid]
                /\ Then(r, <<>>)
                /\ UNCHANGED <<etc, proc, filter, calm>>

\* A daemon that was told to stop has stopped after a second.
Sleep(r, d) == /\ Do(r, "sleep", d)
               /\ Living(d) = Running(d)
               /\ Then(r, <<>>)
               /\ UNCHANGED <<system, calm>>

Write(r, d) == /\ Do(r, "write", d)
               /\ etc' = [etc EXCEPT ![d] = IF Enabled(view[r], d) THEN view[r][d] ELSE Off]
               /\ Then(r, <<>>)
               /\ UNCHANGED <<proc, pidfile, filter, calm>>

\* Its file cannot be opened: relayd is started by the file there is, for the others the
\* function returns before the step that comes next.  Bound: as for Room().
WriteFails(r, d) == /\ Do(r, "write", d) /\ calm
                    /\ todo' = [todo EXCEPT ![r] = IF d = "relayd" THEN Tail(@)
                                                   ELSE Tail(Tail(@))]
                    /\ solo' = [t \in Processes |-> ~Busy(t)]
                    /\ calm' = FALSE
                    /\ UNCHANGED <<stored, system, pc, view, covered, given>>

\* The configuration it gets: from its file, or in its arguments.
Given(r, d) == IF d \in ByFile THEN etc[d] ELSE view[r][d]
Starts(r, d) == /\ Given(r, d) \notin Refused
                /\ d \in ByFile => etc[d] # Off
                /\ d \in Exclusive => Running(d) = {}

\* The lowest free number is given out next, so that numbers come back soon.
Start(r, d) ==
    /\ Do(r, "start", d)
    /\ LET free == {p \in Pids : proc[p] = NoProc}
           p == CHOOSE q \in free : \A o \in free : q <= o
       IN  IF Starts(r, d)
           THEN /\ free # {}
                /\ proc' = [proc EXCEPT ![p] =
                              [svc |-> d, conf |-> Given(r, d), dying |-> FALSE,
                               young |-> d \in ByPid]]
           ELSE UNCHANGED proc
    /\ Then(r, <<>>)
    /\ UNCHANGED <<etc, pidfile, filter, calm>>

\* Started each time.
CheckNot(r) == /\ Do(r, "check", "bgpd")
               /\ Then(r, <<<<"pgrep", "bgpd">>, <<"start", "bgpd">>>>)
               /\ UNCHANGED <<system, calm>>

\* file_exists(bgpd.pid); a file without a number in it exists too.
Check(r) == /\ Do(r, "check", "bgpd")
            /\ Then(r, IF pidfile["bgpd"] = NoPid THEN <<<<"pgrep", "bgpd">>, <<"start", "bgpd">>>>
                       ELSE <<<<"reload", "bgpd">>>>)
            /\ UNCHANGED <<system, calm>>

\* pgrep -o before bgpd is started: the file is there, and most often empty.
Pgrep(r) == /\ Do(r, "pgrep", "bgpd")
            /\ \E p \in Pids \cup {Off} :
                 /\ IF Running("bgpd") = {} THEN p = Off ELSE p \in Running("bgpd")
                 /\ pidfile' = [pidfile EXCEPT !["bgpd"] = p]
            /\ Then(r, <<>>)
            /\ UNCHANGED <<etc, proc, filter, calm>>

\* bgpctl reload, which needs a bgpd; one that does not accept the file keeps the old.
Reload(r) == /\ Do(r, "reload", "bgpd")
             /\ proc' = IF etc["bgpd"] \in Refused \cup {Off} THEN proc
                        ELSE [p \in Pids |-> IF p \in Living("bgpd")
                                             THEN [proc[p] EXCEPT !.conf = etc["bgpd"]] ELSE proc[p]]
             /\ Then(r, <<>>)
             /\ UNCHANGED <<etc, pidfile, filter, calm>>

\* filter_configure() with the $config of the process.
Filter(r, d) == /\ Do(r, "filter", d)
                /\ filter' = view[r]
                /\ Then(r, <<>>)
                /\ UNCHANGED <<etc, proc, pidfile, calm>>
-----------------------------------------------------------------------------
(* The processes. *)

Load(r) == /\ pc[r] = "idle" /\ given < MaxGiven
           /\ Room(r)
           /\ given' = given + 1
           /\ pc' = [pc EXCEPT ![r] = "edit"]
           /\ view' = [view EXCEPT ![r] = stored]
           /\ solo' = [t \in Processes |-> IF t = r THEN \A u \in Processes \ {r} : ~Busy(u)
                                           ELSE ~Busy(t)]
           /\ calm' = (calm /\ solo'[r])
           /\ UNCHANGED <<stored, system, todo, covered>>

\* The whole $config is stored, with one daemon's settings changed.
Save(r) == /\ pc[r] = "edit"
           /\ \E d \in Daemons : \E v \in Changes[d] :
                /\ view' = [view EXCEPT ![r][d] = v]
                /\ stored' = view'[r]
                /\ todo' = [todo EXCEPT ![r] = Function(stored', d)]
                /\ covered' = [covered EXCEPT ![r] = {d} \cup
                                 (IF d \in Dhcpds \cup {"dnsmasq"} THEN Dhcpds ELSE {})]
           /\ pc' = [pc EXCEPT ![r] = "run"]
           /\ UNCHANGED <<system, solo, calm, given>>

Return(r) == /\ pc[r] = "run" /\ todo[r] = <<>>
             /\ pc' = [pc EXCEPT ![r] = "end"]
             /\ UNCHANGED <<stored, system, view, todo, covered, solo, calm, given>>

End(r) == /\ pc[r] = "end"
          /\ pc' = [pc EXCEPT ![r] = "idle"]
          /\ covered' = [covered EXCEPT ![r] = {}]
          /\ solo' = [solo EXCEPT ![r] = TRUE]
          /\ view' = [view EXCEPT ![r] = Nothing]
          /\ UNCHANGED <<stored, system, todo, calm, given>>
-----------------------------------------------------------------------------
(* What happens by itself. *)

\* A daemon with a pid file writes it itself, some time after it was started.  Bound: not
\* before a call is about to use the file, when it is still in time.
WritePid(p) == /\ proc[p] # NoProc /\ proc[p].young /\ ~proc[p].dying
               /\ \E r \in Processes : proc[p].svc \in Target(r)
               /\ proc' = [proc EXCEPT ![p].young = FALSE]
               /\ pidfile' = [pidfile EXCEPT ![proc[p].svc] = p]
               /\ UNCHANGED <<stored, etc, filter, pc, view, todo, covered, solo, calm, given>>

\* A killed daemon is gone; ez-ipupdate takes its pid file with it.
Exit(p) == /\ proc[p] # NoProc /\ proc[p].dying
           /\ proc' = [proc EXCEPT ![p] = NoProc]
           /\ pidfile' = IF proc[p].svc = "dyndns" /\ pidfile["dyndns"] = p
                         THEN [pidfile EXCEPT !["dyndns"] = NoPid] ELSE pidfile
           /\ UNCHANGED <<stored, etc, filter, pc, view, todo, covered, solo, calm, given>>

Crash(p) == /\ proc[p] # NoProc /\ ~proc[p].dying /\ calm
            /\ given < MaxGiven
            /\ given' = given + 1
            /\ proc' = [proc EXCEPT ![p] = NoProc]
            /\ solo' = [r \in Processes |-> ~Busy(r)]
            /\ calm' = FALSE
            /\ UNCHANGED <<stored, etc, pidfile, filter, pc, view, todo, covered>>

\* The system boots: nothing of the ramdisk is left, and rc.bootup has got to where the
\* web server is started, with the packet filter set already.
Init == /\ stored = Initially
        /\ etc = [d \in ByFile |-> Off]
        /\ proc = [p \in Pids |-> NoProc]
        /\ pidfile = [d \in ByPid \cup {"bgpd"} |-> NoPid]
        /\ filter = stored
        /\ pc = [r \in Processes |-> IF r = rcbootup THEN "run" ELSE "idle"]
        /\ view = [r \in Processes |-> IF r = rcbootup THEN stored ELSE Nothing]
        /\ todo = [r \in Processes |-> IF r = rcbootup THEN BootSteps(stored) ELSE <<>>]
        /\ covered = [r \in Processes |-> IF r = rcbootup THEN Daemons \ {"relayd"} ELSE {}]
        /\ solo = [r \in Processes |-> TRUE]
        /\ calm = TRUE
        /\ given = 0

Reboot == /\ etc' = [d \in ByFile |-> Off]
          /\ proc' = [p \in Pids |-> NoProc]
          /\ pidfile' = [d \in ByPid \cup {"bgpd"} |-> NoPid]
          /\ filter' = stored
          /\ pc' = [r \in Processes |-> IF r = rcbootup THEN "run" ELSE "idle"]
          /\ view' = [r \in Processes |-> IF r = rcbootup THEN stored ELSE Nothing]
          /\ todo' = [r \in Processes |-> IF r = rcbootup THEN BootSteps(stored) ELSE <<>>]
          /\ covered' = [r \in Processes |-> IF r = rcbootup THEN Daemons \ {"relayd"} ELSE {}]
          /\ solo' = [r \in Processes |-> TRUE]
          /\ calm' = TRUE
          /\ UNCHANGED <<stored, given>>
-----------------------------------------------------------------------------
Step(r) == \/ \E d \in Target(r) : \/ Pkill(r, d) \/ PidKill(r, d) \/ Unlink(r, d) \/ Sleep(r, d)
                                   \/ Write(r, d) \/ Start(r, d) \/ Filter(r, d)
           \/ Check(r) \/ Pgrep(r) \/ Reload(r)
           \/ Return(r) \/ End(r)

Next == \/ \E r \in Processes : Step(r)
        \/ \E r \in Processes : \E d \in Target(r) : WriteFails(r, d)
        \/ \E r \in Requests : Load(r) \/ Save(r)
        \/ \E p \in Pids : WritePid(p) \/ Exit(p) \/ Crash(p)
        \/ Reboot

Spec == Init /\ [][Next]_vars
-----------------------------------------------------------------------------
(* Correctness. *)

\* The daemon runs by the configuration c, once, or does not run if it is not enabled
\* or does not accept c.
Serves(d, c) ==
    IF Enabled(c, d) /\ c[d] \notin Refused
    THEN \E p \in Pids : Living(d) = {p} /\ proc[p].conf = c[d]
    ELSE Living(d) = {}

\* A call that nothing runs beside, and that can open its files, puts in order what it is
\* called for, whatever earlier calls that overlapped or could not write, crashes and
\* refused files have left: every dhcpd whose routing table is still there, dnsmasq, and
\* the rules of the packet filter.
LoneCallServes == \A r \in Processes : pc[r] = "end" /\ solo[r] =>
                    \A d \in covered[r] \cap (Dhcpds \cup {"dnsmasq"}) :
                        /\ view[r][d] # Gone => Serves(d, view[r])
                        /\ filter = view[r]

\* As long as no two processes have met, no daemon has crashed, every file could be
\* written, and no call has come before a daemon had its pid file, what runs between the
\* calls is what is stored.  The exceptions are the code's: a dhcpd outlives its routing
\* table; relayd is not started by the boot, nor if the old one is slow to stop; bgpd runs
\* on once it is disabled, and is reloaded, never started, after the first call for it.
CalmServes == (calm /\ \A r \in Processes : ~Busy(r)) =>
    /\ \A d \in Dhcpds \cup {"dnsmasq"} \cup ByPid : stored[d] # Gone => Serves(d, stored)
    /\ \A p \in Living("relayd") : proc[p].conf = stored["relayd"]
    /\ \A p \in Living("bgpd") : Enabled(stored, "bgpd") /\ stored["bgpd"] \notin Refused =>
                                  proc[p].conf = stored["bgpd"]

\* A pid file never outlives its daemon until the number is taken by another, which the
\* next call for the daemon would stop, as long as it is calm.
PidFileNamesItsOwn == calm => \A d \in ByPid, p \in Pids :
                        pidfile[d] = p /\ proc[p] # NoProc => proc[p].svc = d
=============================================================================
