---------------------------- MODULE ConfigClients ----------------------------
(***************************************************************************)
(* The programs that change the configuration, as clients of the store.    *)
(* Each is a PHP process that loads the configuration as it starts, edits  *)
(* its copy, stores the whole with write_config(), and then configures     *)
(* what it has changed, if that works: `nssh.php firewall modify',         *)
(* the pages that edit the filter rules, sync_config_area(),               *)
(* rc.initial.setlanip with its prompts in between.  rc.bootup and         *)
(* rc.newwanip store nothing, but configure by what they loaded when they  *)
(* began.                                                                  *)
(*                                                                         *)
(* A rule is edited by its number in a list that the user was shown by an  *)
(* earlier process.  The lock of config.inc covers the store, and of some  *)
(* callers the configuring; it does not cover a process from its load on.  *)
(***************************************************************************)
EXTENDS ConfigRegister, Integers, Sequences, SequencesExt, FiniteSets

CONSTANTS rcbootup,    \* the process of rc.bootup, one of Procs
          Names, Acts, Ifs, Sources,    \* of rules
          Garbage,     \* a source that pfctl refuses, such as "Array"
          Values,      \* what the other areas may say
          Addrs,       \* WAN addresses
          NoFile, NoJob,
          Nothing,     \* not configured since the power came on
          Shipped,     \* the configuration the system boots with
          ToAct, ToIf, Lists, Added, ToValue,    \* bounds: what jobs ask for
          Picks,       \* bound: the numbers users pick
          MayFail,     \* bound: the areas whose configuring may fail at any time
          MaxJobs, MaxRuns,    \* bounds: jobs until the last of a user, and in all
          MaxMoves             \* bound: changes of the address

Requests == Procs \ {rcbootup}
Rule == [name : Names, act : Acts, if : Ifs, src : Seq(Sources \cup {Garbage})]
Config == [rules : Seq(Rule), ipsec : Values, lan : Values]
Areas == {"rules", "ipsec", "lan"}

ByNssh == {"same", "act", "iface", "src"}      \* nssh.php, which stores even without a change
ByPage == {"edit", "delete", "add"}            \* the pages for filter rules
Shown == {"act", "iface", "src", "edit", "delete"}    \* begin with a look at the list
Kinds == ByNssh \cup ByPage \cup {"ipsec", "lan", "newwan"}
Locked == ByNssh \cup ByPage                   \* take the lock to configure

\* A job names the number, and the rule that stood there when the user looked.
Job == [kind : Shown \ {"src"}, id : Nat, rule : Rule]
       \cup [kind : {"src"}, id : Nat, rule : Rule, list : Lists]
       \cup [kind : Kinds \ Shown, cur : Addrs \cup {NoFile}]

ASSUME ClientsAssumption ==
    /\ rcbootup \in Procs
    /\ Garbage \notin Sources
    /\ NoFile \notin Addrs
    /\ Nothing \notin Seq(Rule) \cup Values
    /\ Shipped \in Config /\ NoConfig \notin Config
    /\ ToAct \in Acts /\ ToIf \in Ifs
    /\ Lists \subseteq Seq(Sources \cup {Garbage}) \ {<<>>}
    /\ Added \in Rule /\ ToValue \in Values
    /\ Picks \subseteq Nat /\ {MaxJobs, MaxRuns, MaxMoves} \subseteq Nat /\ MaxJobs <= MaxRuns

VARIABLES inforce,   \* what filter, tunnels and LAN were last configured by
          booting,   \* /var/run/booting
          addr,      \* the WAN address
          wanip,     \* vardb/wanip
          tunnels,   \* the address the tunnels were last set for
          dns,       \* the address resolver and DNS were last set for
          pc, job,   \* where each request is, and what it is to do
          missed,    \* history: others have stored since its user looked, or since it loaded
          solo,      \* history: no other process has gone on beside it
          crossed,   \* history: a process has stored while another was on its way
          failed,    \* history: the areas that could not be configured when last tried
          amiss,     \* history: wanip may not be what tunnels and DNS are set for
          jobs, moves

setting == <<inforce, failed, tunnels>>
wan == <<addr, wanip, dns, amiss, moves>>
history == <<missed, solo, crossed>>
vars == <<regVars, setting, booting, wan, pc, job, history, jobs>>

\* Between its load and its end.
Under(p) == IF p = rcbootup THEN booting ELSE pc[p] \notin {"idle", "looked", "end"}

TypeOK == /\ current \in Config
          /\ view \in [Procs -> Config \cup {NoConfig}]
          /\ pending \in [Procs -> Config \cup {NoConfig}]
          /\ inforce \in [rules : Seq(Rule) \cup {Nothing}, ipsec : Values \cup {Nothing},
                         lan : Values \cup {Nothing}]
          /\ failed \subseteq Areas
          /\ booting \in BOOLEAN
          /\ addr \in Addrs /\ {wanip, tunnels, dns} \subseteq Addrs \cup {NoFile}
          /\ pc \in [Requests -> {"idle", "looked", "loaded", "asked", "stored", "saved",
                                  "rebind", "record", "end"}]
          /\ job \in [Requests -> Job \cup {NoJob}]
          /\ missed \in [Requests -> BOOLEAN] /\ solo \in [Requests -> BOOLEAN]
          /\ crossed \in BOOLEAN /\ amiss \in BOOLEAN
          /\ jobs \in 0..MaxRuns /\ moves \in 0..MaxMoves
          /\ \A p \in Requests : pc[p] \in {"asked", "stored"} => job[p].kind # "newwan"

\* The power has just come on.
Init == /\ current = Shipped
        /\ view = [p \in Procs |-> NoConfig]
        /\ pending = [p \in Procs |-> NoConfig]
        /\ inforce = [a \in Areas |-> Nothing] /\ failed = {}
        /\ booting = TRUE
        /\ addr \in Addrs /\ wanip = NoFile /\ tunnels = NoFile /\ dns = NoFile
        /\ pc = [p \in Requests |-> "idle"]
        /\ job = [p \in Requests |-> NoJob]
        /\ missed = [p \in Requests |-> FALSE] /\ solo = [p \in Requests |-> FALSE]
        /\ crossed = FALSE /\ amiss = FALSE
        /\ jobs = 0 /\ moves = 0

To(p, l) == pc' = [pc EXCEPT ![p] = l]
-----------------------------------------------------------------------------
(* What a job makes of a configuration.  Numbers count from 0. *)

\* What usort() makes of the rules by a number each has: the one that stands at k has k - 1
\* others before it.
Arranged(rules, seq) ==
    [k \in DOMAIN rules |->
       rules[CHOOSE i \in DOMAIN rules :
               Cardinality({j \in DOMAIN rules : seq[j] < seq[i]}) = k - 1]]

\* The rules of one interface before the others.
SortByInterface(rules) ==
    Arranged(rules, [i \in DOMAIN rules |-> IF rules[i].if = ToIf THEN i ELSE Len(rules) + i])

\* filter_rules_sort() gives every rule its number, and sorts by nothing but the number.
FilterRulesSort(rules) ==
    Arranged(rules, [i \in DOMAIN rules |-> i - 1])

\* The loop over the rules that changes the type of the one with the number.
ModifyAct(rules, id) ==
    [i \in DOMAIN rules |-> IF i - 1 = id THEN [rules[i] EXCEPT !.act = ToAct] ELSE rules[i]]

\* And the one that changes its interface.
ModifyIf(rules, id) ==
    [i \in DOMAIN rules |-> IF i - 1 = id THEN [rules[i] EXCEPT !.if = ToIf] ELSE rules[i]]

\* The sources put in as one element.
ModifySrcNested(rules, id, list) == [i \in DOMAIN rules |->
    IF i - 1 = id THEN [rules[i] EXCEPT !.src = <<list>>] ELSE rules[i]]

\* The loop that changes the sources counts them with the $i that counts the rules, so
\* that it may come to the number again, with the list of sources in place of the text.
Turn(s, rule, id) ==
    IF s.i # id THEN [i |-> s.i + 1, srclist |-> s.srclist, rules |-> s.rules]
    ELSE [i |-> Len(s.srclist) + 1, srclist |-> <<Garbage>>,
          rules |-> [s.rules EXCEPT ![id + 1] = [rule EXCEPT !.src = s.srclist]]]
ModifySrc(rules, id, list) ==
    LET turn[k \in 0..Len(rules)] ==
          IF k = 0 THEN [i |-> 0, srclist |-> list, rules |-> rules]
          ELSE Turn(turn[k - 1], rules[k], id)
    IN  turn[Len(rules)].rules

\* unset(); what is written has no gap.
Unset(rules, id) == IF id + 1 \in DOMAIN rules THEN RemoveAt(rules, id + 1) ELSE rules

\* The form has the whole rule; a number that is not there any more makes a new one.
Replace(rules, id, rule) == IF id + 1 \in DOMAIN rules THEN [rules EXCEPT ![id + 1] = rule]
                            ELSE Append(rules, rule)

EditRules(j, rules) ==
    CASE j.kind = "same" -> rules
      [] j.kind = "act" -> ModifyAct(rules, j.id)
      [] j.kind = "iface" -> ModifyIf(rules, j.id)
      [] j.kind = "src" -> ModifySrc(rules, j.id, j.list)
      [] j.kind = "edit" -> Replace(rules, j.id, [j.rule EXCEPT !.act = ToAct])
      [] j.kind = "delete" -> Unset(rules, j.id)
      [] j.kind = "add" -> Append(rules, Added)

\* Whoever edits the rules has sorted them before.
Apply(j, c) ==
    CASE j.kind = "ipsec" -> [c EXCEPT !.ipsec = ToValue]
      [] j.kind = "lan" -> [c EXCEPT !.lan = ToValue]
      [] OTHER -> [c EXCEPT !.rules = EditRules(j, FilterRulesSort(@))]

\* pfctl takes these rules; it takes all of them or leaves everything as it is.
Accepted(c) == \A i \in DOMAIN c.rules : Garbage \notin Range(c.rules[i].src)
-----------------------------------------------------------------------------
(* The processes. *)

\* A user runs `show rules', or opens the page, and picks a rule by its number.
Look(p) == /\ pc[p] = "idle" /\ jobs < MaxJobs
           /\ view[rcbootup] # NoConfig
           /\ \E n \in Picks :
                /\ n + 1 \in DOMAIN current.rules
                /\ LET rule == FilterRulesSort(current.rules)[n + 1]
                   IN  \/ \E k \in Shown \ {"src"} :
                            job' = [job EXCEPT ![p] = [kind |-> k, id |-> n, rule |-> rule]]
                       \/ \E l \in Lists : job' = [job EXCEPT ![p] =
                            [kind |-> "src", id |-> n, rule |-> rule, list |-> l]]
           /\ missed' = [missed EXCEPT ![p] = FALSE]
           /\ jobs' = jobs + 1
           /\ To(p, "looked")
           /\ UNCHANGED <<regVars, setting, booting, wan, solo, crossed>>

\* A job that needs no look.
Call(p) == /\ pc[p] = "idle"
           /\ view[rcbootup] # NoConfig
           /\ \E k \in Kinds \ Shown :
                /\ job' = [job EXCEPT ![p] = [kind |-> k, cur |-> NoFile]]
                /\ jobs < IF k = "newwan" THEN MaxRuns ELSE MaxJobs
           /\ missed' = [missed EXCEPT ![p] = FALSE]
           /\ jobs' = jobs + 1
           /\ To(p, "looked")
           /\ UNCHANGED <<regVars, setting, booting, wan, solo, crossed>>

\* The process starts: config.inc is included.
Load(p) == /\ pc[p] = "looked"
           /\ RegLoad(p)
           /\ missed' = [missed EXCEPT ![p] = @ /\ job[p].kind \in Shown]
           /\ solo' = [q \in Requests |-> q = p /\ \A r \in Procs \ {p} : ~Under(r)]
           /\ To(p, "loaded")
           /\ UNCHANGED <<setting, booting, wan, job, crossed, jobs>>

Leave(p) == /\ RegForget(p)
            /\ job' = [job EXCEPT ![p] = NoJob]
            /\ missed' = [missed EXCEPT ![p] = FALSE]
            /\ solo' = [solo EXCEPT ![p] = FALSE]
            /\ To(p, "idle")

\* An empty line at a prompt; the pages give up if pfctl would not parse the rules.
Quit(p) == /\ pc[p] = "loaded"
           /\ job[p].kind \in {"lan"} \cup ByPage
           /\ Leave(p)
           /\ UNCHANGED <<setting, booting, wan, crossed, jobs>>

\* The copy is edited, and write_config() called; only the pages let pfctl look before.
Ask(p) == /\ pc[p] = "loaded" /\ job[p].kind # "newwan"
          /\ LET c == Apply(job[p], view[p])
             IN  /\ job[p].kind \in {"edit", "add"} => Accepted(c)
                 /\ RegAskFor(p, c)
          /\ To(p, "asked")
          /\ UNCHANGED <<setting, booting, wan, job, history, jobs>>

\* Nobody is between the lock and the unlock of write_config().
Unlocked == \A p \in Requests : pc[p] # "stored"

\* write_config() takes the lock and replaces config.xml ...
Store(p) == /\ pc[p] = "asked" /\ Unlocked
            /\ RegStore(p)
            /\ missed' = [q \in Requests |->
                            missed[q] \/ (q # p /\ pc[q] \in {"looked", "loaded", "asked"})]
            /\ crossed' = (crossed \/ \E q \in Procs \ {p} : Under(q))
            /\ To(p, "stored")
            /\ UNCHANGED <<setting, booting, wan, job, solo, jobs>>

\* ... and gets to the unlock with $config read again.
Reread(p) == /\ pc[p] = "stored"
             /\ RegLoad(p)
             /\ To(p, "saved")
             /\ UNCHANGED <<setting, booting, wan, job, history, jobs>>

\* interfaces_lan_configure() without its calls of the others.
AffectsOwn(k) == CASE k \in Locked -> {"rules"}
                   [] k = "ipsec" -> {"rules", "ipsec"}
                   [] k = "lan" -> {"lan"}

\* What the job configures by the process's $config: the tunnels are in the rules, and a
\* new address of the LAN is in both.
Affects(k) == CASE k \in Locked -> {"rules"}
                [] k = "ipsec" -> {"rules", "ipsec"}
                [] k = "lan" -> {"rules", "ipsec", "lan"}

\* What has failed is not noticed by the caller, who goes on.
Set(areas, c) == \E lost \in SUBSET (areas \cap MayFail) :
    LET taken == {a \in areas \ lost : a = "rules" => Accepted(c)}
    IN  /\ inforce' = [a \in Areas |-> IF a \in taken THEN c[a] ELSE inforce[a]]
        /\ failed' = (failed \ areas) \cup lost
        /\ tunnels' = IF "ipsec" \in taken THEN addr ELSE tunnels

\* Between its comparison and its record, rc.newwanip is to set what it will record.
Rebinding(p) == pc[p] \in {"rebind", "record"}

\* The tunnels get set for an address that nobody records.
Unrecorded(areas) == "ipsec" \in areas /\ addr # wanip /\ \A p \in Requests : ~Rebinding(p)

\* filter_configure(), vpn_ipsec_configure(), interfaces_lan_configure().
Configure(p) == /\ pc[p] = "saved"
                /\ job[p].kind \in Locked => Unlocked
                /\ Set(Affects(job[p].kind), view[p])
                /\ amiss' = (amiss \/ Unrecorded(Affects(job[p].kind)))
                /\ To(p, "end")
                /\ UNCHANGED <<regVars, booting, addr, wanip, dns, moves, job, history, jobs>>

End(p) == /\ pc[p] = "end"
          /\ Leave(p)
          /\ UNCHANGED <<setting, booting, wan, crossed, jobs>>

\* rc.bootup loads the configuration and configures filter and LAN by it; then it lets
\* requests in.
BootLoad == /\ view[rcbootup] = NoConfig
            /\ RegLoad(rcbootup)
            /\ Set({"rules", "lan"}, current)
            /\ UNCHANGED <<booting, wan, pc, job, history, jobs>>

\* The tunnels left to the requests.
BootEndEarly == /\ booting /\ view[rcbootup] # NoConfig
                /\ booting' = FALSE
                /\ UNCHANGED <<regVars, setting, wan, pc, job, history, jobs>>

\* It gets to the tunnels, still by what it loaded, and ends.
BootEnd == /\ booting /\ view[rcbootup] # NoConfig
           /\ Set(Affects("ipsec"), view[rcbootup])
           /\ amiss' = (amiss \/ Unrecorded(Affects("ipsec")))
           /\ booting' = FALSE
           /\ UNCHANGED <<regVars, addr, wanip, dns, moves, pc, job, history, jobs>>

\* All but config.xml is in ramdisks.
PowerLoss == /\ RegPowerLoss
             /\ booting' = TRUE
             /\ inforce' = [a \in Areas |-> Nothing] /\ failed' = {}
             /\ wanip' = NoFile /\ tunnels' = NoFile /\ dns' = NoFile
             /\ pc' = [p \in Requests |-> "idle"]
             /\ job' = [p \in Requests |-> NoJob]
             /\ missed' = [p \in Requests |-> FALSE] /\ solo' = [p \in Requests |-> FALSE]
             /\ crossed' = FALSE /\ amiss' = FALSE
             /\ UNCHANGED <<addr, moves, jobs>>
-----------------------------------------------------------------------------
(* rc.newwanip, which dhclient runs at changes of the address and at renewals. *)

\* The DHCP server gives another address, or the earlier one again.
Move == /\ moves < MaxMoves
        /\ \E a \in Addrs \ {addr} : addr' = a
        /\ moves' = moves + 1
        /\ amiss' = (amiss \/ \E p \in Requests : Rebinding(p))
        /\ UNCHANGED <<regVars, setting, booting, wanip, dns, pc, job, history, jobs>>

\* A recorded address taken for the present one.
CompareAny(p) == /\ pc[p] = "loaded" /\ job[p].kind = "newwan"
                 /\ ~booting
                 /\ job' = [job EXCEPT ![p].cur = addr]
                 /\ To(p, IF wanip # NoFile THEN "end" ELSE "rebind")
                 /\ amiss' = IF wanip # NoFile THEN amiss ELSE \E q \in Requests : Rebinding(q)
                 /\ UNCHANGED <<regVars, setting, booting, addr, wanip, dns, moves, history, jobs>>

\* It waits for the end of the boot, and compares the address with the recorded one.  What
\* was amiss it is about to put right, if it is alone.
Compare(p) == /\ pc[p] = "loaded" /\ job[p].kind = "newwan"
              /\ ~booting
              /\ job' = [job EXCEPT ![p].cur = addr]
              /\ To(p, IF wanip = addr THEN "end" ELSE "rebind")
              /\ amiss' = IF wanip = addr THEN amiss ELSE \E q \in Requests : Rebinding(q)
              /\ UNCHANGED <<regVars, setting, booting, addr, wanip, dns, moves, history, jobs>>

\* Tunnels and DNS are set for the address; the functions look it up themselves.
Rebind(p) == /\ pc[p] = "rebind"
             /\ Set(Affects("ipsec"), view[p])
             /\ dns' = addr
             /\ amiss' = (amiss \/ "ipsec" \in failed')
             /\ To(p, "record")
             /\ UNCHANGED <<regVars, booting, addr, wanip, moves, job, history, jobs>>

Record(p) == /\ pc[p] = "record"
             /\ wanip' = job[p].cur
             /\ To(p, "end")
             /\ UNCHANGED <<regVars, setting, booting, addr, dns, amiss, moves,
                            job, history, jobs>>
-----------------------------------------------------------------------------
Next == \/ \E p \in Requests : \/ Look(p) \/ Call(p) \/ Load(p) \/ Quit(p) \/ Ask(p) \/ Store(p)
                               \/ Reread(p) \/ Configure(p) \/ End(p)
                               \/ Compare(p) \/ Rebind(p) \/ Record(p)
        \/ BootLoad \/ BootEnd \/ PowerLoss \/ Move

Spec == Init /\ [][Next]_vars
-----------------------------------------------------------------------------
(* Correctness. *)

\* What the user asked for, said of the rule that was shown and not of its number.
Asked(j, c) ==
    LET Changed(f) == [i \in DOMAIN c.rules |->
                         IF c.rules[i].name = j.rule.name THEN f ELSE c.rules[i]]
        Place == CHOOSE i \in DOMAIN c.rules : c.rules[i].name = j.rule.name
    IN  CASE j.kind \in {"act", "edit"} ->
               [c EXCEPT !.rules = Changed([j.rule EXCEPT !.act = ToAct])]
          [] j.kind = "iface" -> [c EXCEPT !.rules = Changed([j.rule EXCEPT !.if = ToIf])]
          [] j.kind = "src" -> [c EXCEPT !.rules = Changed([j.rule EXCEPT !.src = j.list])]
          [] j.kind = "delete" -> [c EXCEPT !.rules = RemoveAt(@, Place)]
          [] j.kind = "add" -> [c EXCEPT !.rules = Append(@, Added)]
          [] j.kind = "ipsec" -> [c EXCEPT !.ipsec = ToValue]
          [] j.kind = "lan" -> [c EXCEPT !.lan = ToValue]
          [] OTHER -> c

\* The loop of nssh.php comes to the number again.
Rematches(j, c) == /\ j.kind = "src"
                   /\ j.id > Len(j.list) /\ 2 * j.id - Len(j.list) < Len(c.rules)
Distinct(rules) == \A i, k \in DOMAIN rules : rules[i].name = rules[k].name => i = k

\* A store changes the stored configuration by what its user asked for, and nothing else
\* of it, the order of the rules included (filter_rules_sort() has been at them), unless
\* somebody has stored since the user looked (or, without a look, since the process
\* loaded), or the list of sources sends the loop round again.
EditsExact ==
    [][\A p \in Requests : Store(p) /\ ~missed[p] /\ Distinct(current.rules)
                           /\ ~Rematches(job[p], current) =>
                             current' = Asked(job[p], current)]_vars

\* It is configured as it is stored, as far as configuring it did not fail, or cannot work.
AsStored(a) == \/ inforce[a] = current[a]
               \/ a \in failed
               \/ a = "rules" /\ ~Accepted(current)

\* A process that nothing ran beside leaves what it has to configure as it is stored,
\* whatever the processes before it have left: the rules in any case, with the tunnels
\* what goes into them, and with the LAN everything.
LoneConfigures == \A p \in Requests :
    pc[p] = "end" /\ solo[p] /\ job[p].kind # "newwan" =>
        /\ AsStored("rules")
        /\ job[p].kind \in {"ipsec", "lan"} => AsStored("ipsec")
        /\ job[p].kind = "lan" => AsStored("lan")

\* At rest everything is configured as it is stored, unless some process has stored while
\* another was between its load and its end.
InForceAtRest == (\A p \in Procs : ~Under(p)) /\ ~crossed => \A a \in Areas : AsStored(a)

\* Where rc.newwanip finds nothing to do, tunnels and DNS are set for the address, though
\* it may have gone away and come back: unless, since rc.newwanip last began to set them
\* and was alone in it, they were set for an address that went unrecorded, the address
\* changed before it was recorded, or the tunnels could not be set.
NothingToDo ==
    [][\A p \in Requests : Compare(p) /\ pc'[p] = "end" /\ ~amiss =>
                             tunnels = addr /\ dns = addr]_vars
=============================================================================
