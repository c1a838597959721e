------------------------------ MODULE NsshCtl ------------------------------
(***************************************************************************)
(* The service commands of the nssh shell (ctl.c) and its persistence.     *)
(* Every service has a rules file in the ramdisk, and empty files beside   *)
(* it (.enabled, .local, .other) that record which commands were given.    *)
(* write-config turns all of them into commands (conf.c), in a text in the *)
(* ramdisk that save.sh copies to the flash; at boot `nssh -i' executes    *)
(* the saved text line by line (cmdrc) and so makes the files again and    *)
(* starts the services.                                                    *)
(*                                                                         *)
(* Sessions run side by side; only editors exclude each other, by flock(). *)
(* What the lines of a file say is abstracted to how nssh and the service  *)
(* take them; the generation of pf.conf from the rules is in PfRules.      *)
(***************************************************************************)
EXTENDS Naturals, Sequences, SequencesExt

CONSTANTS Sessions,   \* nssh processes with a user
          Daemons,    \* the services, in the order of conf()
          Dns,        \* the one that is a symbolic link to a file
          Reloads,    \* doreload: enabling reads no file, a reload does (pf, ipsec)
          Fileless,   \* enabling reads no file, and there is nothing to reload (ftp-proxy)
          Edited,     \* services with an edit command
          Added,      \* services with an add command, which asks for no lock (pf)
          Lines,      \* what a line of a rules file may be
          Blank,      \* lines cmdrc() passes over: empty, or two words like `load r' (rules)
          Long,       \* lines that do not fit into the 256 bytes of cmdrc()
          Bad,        \* lines that the service refuses
          Spoilt,     \* a line that lost its end, or found something at it
          Texts,      \* what an editor may leave in a file
          MaxGiven,   \* bound: commands given by all sessions
          NoFile, NoDaemon, NoText

Services == {Daemons[i] : i \in DOMAIN Daemons}
Daemon == Services \ {Dns}
Controls == {"local-control", "dhcp-control"}

ASSUME NsshAssumption == /\ Daemons \in Seq(Services)
                         /\ \A i, j \in DOMAIN Daemons : Daemons[i] = Daemons[j] => i = j
                         /\ Dns \in Services
                         /\ Reloads \subseteq Daemon
                         /\ Fileless \subseteq Daemon \ Reloads
                         /\ Edited \subseteq Services \ Added
                         /\ Added \subseteq Reloads
                         /\ Blank \cup Long \cup Bad \cup {Spoilt} \subseteq Lines
                         /\ Spoilt \notin Blank \cup Long
                         /\ NoFile \notin [lines : Seq(Lines), ended : BOOLEAN]
                         /\ Texts \subseteq [lines : Seq(Lines), ended : BOOLEAN]
                         /\ NoDaemon \notin Services
                         /\ MaxGiven \in Nat

VARIABLES rules,      \* the rules files in /var/run
          flags,      \* the flag files beside them
          up,         \* the services that run
          loaded,     \* the rules they work by
          link,       \* where resolv.conf.symlink points to
          nsshrc,     \* /var/run/nsshrc
          nsshconf,   \* /conf/nssh.conf, on the flash
          mnt,        \* how /conf is mounted
          pc, op,     \* where each session is, and in which command
          on,         \* the service its command is about
          out,        \* the text in its buffer
          boot,       \* how far `nssh -i' has got
          handler,    \* the service whose rules it is reading
          quiet,      \* history: nothing else has gone on beside the session's command
          dnsMixed,   \* history: two commands about the DNS link have overlapped
          given,      \* how many commands have been given
          kept,       \* history: the files that a save which ran alone has saved
          locked,     \* the services whose <file>.lock somebody holds by flock()
          seen        \* history: the file as each editor has read or written it

disk == <<rules, flags, link>>
service == <<up, loaded>>
flash == <<nsshrc, nsshconf, mnt, kept>>
session == <<pc, op, on, out, quiet, dnsMixed>>
booting == <<boot, handler, given>>
editing == <<locked, seen>>
vars == <<disk, service, flash, session, booting, editing>>

File == [lines : Seq(Lines), ended : BOOLEAN]
Entry == ({"rules"} \X Services) \cup ({"enable"} \X Daemon) \cup ({"reload"} \X Reloads)
            \cup (Controls \X {Dns}) \cup ({"line"} \X Lines)

TypeOK == /\ rules \in [Services -> File \cup {NoFile}]
          /\ flags \in [Services -> SUBSET ({"enable"} \cup Controls)]
          /\ up \subseteq Daemon
          /\ loaded \in [Services -> File \cup {NoFile}]
          /\ link \in Controls \cup {"none"}
          /\ nsshrc \in Seq(Entry)
          /\ nsshconf \in Seq(Entry)
          /\ mnt \in {"ro", "rw"}
          /\ pc \in [Sessions -> {"idle", "edit", "flag", "unlink", "link", "unflag", "conf",
                                  "close", "mount", "open", "copy", "remount"}]
          /\ op \in [Sessions -> {"none", "edit", "enable", "disable", "save", "show"} \cup Controls]
          /\ on \in [Sessions -> Services \cup {NoDaemon}]
          /\ \A s \in Sessions : pc[s] \in {"edit", "flag", "conf"} => on[s] # NoDaemon
          /\ out \in [Sessions -> Seq(Entry)]
          /\ boot \in 0..(Len(nsshconf) + 1)
          /\ handler \in Services \cup {NoDaemon}
          /\ given \in 0..MaxGiven
          /\ quiet \in [Sessions -> BOOLEAN]
          /\ dnsMixed \in BOOLEAN
          /\ kept = NoText \/ kept \in [rules : [Services -> File \cup {NoFile}],
                                        flags : [Services -> SUBSET ({"enable"} \cup Controls)]]
          /\ locked \subseteq Services
          /\ seen \in [Sessions -> File \cup {NoFile}]

\* boot = 0 once a session has done anything; Len(nsshconf) + 1 before that.
Booted == boot = 0 \/ boot > Len(nsshconf)
Idle(s) == pc[s] = "idle"

Reset == /\ rules' = [d \in Services |-> NoFile]
         /\ flags' = [d \in Services |-> {}]
         /\ up' = {}
         /\ loaded' = [d \in Services |-> NoFile]
         /\ link' = "none"
         /\ nsshrc' = <<>>
         /\ mnt' = "ro"
         /\ pc' = [s \in Sessions |-> "idle"]
         /\ op' = [s \in Sessions |-> "none"]
         /\ on' = [s \in Sessions |-> NoDaemon]
         /\ out' = [s \in Sessions |-> <<>>]
         /\ boot' = 1
         /\ handler' = NoDaemon
         /\ quiet' = [s \in Sessions |-> TRUE]
         /\ dnsMixed' = FALSE
         /\ locked' = {}
         /\ seen' = [s \in Sessions |-> NoFile]

Init == /\ rules = [d \in Services |-> NoFile]
        /\ flags = [d \in Services |-> {}]
        /\ up = {}
        /\ loaded = [d \in Services |-> NoFile]
        /\ link = "none"
        /\ nsshrc = <<>>
        /\ nsshconf = <<>>
        /\ mnt = "ro"
        /\ pc = [s \in Sessions |-> "idle"]
        /\ op = [s \in Sessions |-> "none"]
        /\ on = [s \in Sessions |-> NoDaemon]
        /\ out = [s \in Sessions |-> <<>>]
        /\ boot = 1
        /\ handler = NoDaemon
        /\ quiet = [s \in Sessions |-> TRUE]
        /\ dnsMixed = FALSE
        /\ given = 0
        /\ kept = NoText
        /\ locked = {}
        /\ seen = [s \in Sessions |-> NoFile]
-----------------------------------------------------------------------------
(* What the commands do.  They are given by sessions and by `nssh -i'. *)

Accepted(f) == f # NoFile /\ \A i \in DOMAIN f.lines : f.lines[i] \notin Bad

\* A daemon reads its file as it starts and stops at an error in it; a second one
\* does not get its sockets.
Enable(d) == IF d \in Reloads \cup Fileless THEN up' = up \cup {d} /\ UNCHANGED loaded
             ELSE IF d \in up \/ ~Accepted(rules[d]) THEN UNCHANGED service
             ELSE up' = up \cup {d} /\ loaded' = [loaded EXCEPT ![d] = rules[d]]

Disable(d) == /\ up' = up \ {d}
              /\ loaded' = IF d \in Reloads THEN loaded ELSE [loaded EXCEPT ![d] = NoFile]

Reload(d) == /\ loaded' = IF Accepted(rules[d]) /\ (d \in Reloads \/ d \in up)
                          THEN [loaded EXCEPT ![d] = rules[d]] ELSE loaded
             /\ UNCHANGED up

\* rmtemp() left out: the command gets a flag of its own.
FlaggedAlways(f, o) == f \cup {o}

\* flag_x() once the command is done, whether it could do it or not.
Flagged(f, o) == IF o = "disable" THEN f \ {"enable"} ELSE f \cup {o}

Opposite(o) == Controls \ {o}

\* The file opened with "w".
WrittenAnew(f, l, end) == [lines |-> <<l>>, ended |-> end]

\* rule_writeline(): a file that does not end in a newline has its last line continued.
Written(f, l, end) ==
    IF f = NoFile THEN [lines |-> <<l>>, ended |-> end]
    ELSE IF f.ended THEN [lines |-> Append(f.lines, l), ended |-> end]
    ELSE [lines |-> Append(Front(f.lines), Spoilt), ended |-> end]
-----------------------------------------------------------------------------
(* A session.  Nobody logs in before the boot has ended. *)

\* A second command about the link has begun.
Mixes(o) == o \in Controls /\ \E t \in Sessions : op[t] \in Controls

Begin(s, o, d, to) == /\ Idle(s) /\ Booted
                      /\ given < MaxGiven
                      /\ given' = given + 1
                      /\ pc' = [pc EXCEPT ![s] = to]
                      /\ op' = [op EXCEPT ![s] = o]
                      /\ on' = [on EXCEPT ![s] = d]
                      /\ quiet' = [t \in Sessions |->
                                     IF t = s THEN \A u \in Sessions \ {s} : Idle(u) ELSE Idle(t)]
                      /\ dnsMixed' = (dnsMixed \/ Mixes(o))
                      /\ boot' = 0
                      /\ UNCHANGED <<out, handler>>

Go(s, to) == /\ pc' = [pc EXCEPT ![s] = to]
             /\ UNCHANGED <<op, on, out, quiet, dnsMixed, booting>>

End(s) == /\ pc' = [pc EXCEPT ![s] = "idle"]
          /\ op' = [op EXCEPT ![s] = "none"]
          /\ on' = [on EXCEPT ![s] = NoDaemon]
          /\ out' = [out EXCEPT ![s] = <<>>]
          /\ quiet' = [quiet EXCEPT ![s] = TRUE]
          /\ UNCHANGED <<dnsMixed, booting>>

\* A command done in one step: it is seen by the commands it falls into.
AtOnce(s) == /\ Idle(s) /\ Booted
                /\ given < MaxGiven
                /\ given' = given + 1
                /\ boot' = 0
                /\ quiet' = [t \in Sessions |-> Idle(t)]
                /\ UNCHANGED <<pc, op, on, out, dnsMixed, handler>>

\* The command, and then the flag.
CtlCommand(s) == \E d \in Daemon :
                   /\ \/ Begin(s, "enable", d, "flag") /\ Enable(d)
                      \/ Begin(s, "disable", d, "flag") /\ Disable(d)
                   /\ UNCHANGED <<disk, flash>>

CtlFlag(s) == /\ pc[s] = "flag"
              /\ flags' = [flags EXCEPT ![on[s]] = Flagged(@, op[s])]
              /\ End(s)
              /\ UNCHANGED <<rules, link, service, flash>>

CtlReload(s) == /\ \E d \in Daemon \ Fileless : AtOnce(s) /\ Reload(d)
                /\ UNCHANGED <<disk, flash>>

\* nspf adds a rule, whatever it says, and loads the rules.
AddRule(s) == /\ \E d \in Added, l \in Lines :
                   /\ AtOnce(s)
                   /\ rules' = [rules EXCEPT ![d] = Written(@, l, TRUE)]
                   /\ loaded' = IF Accepted(rules'[d]) THEN [loaded EXCEPT ![d] = rules'[d]]
                                ELSE loaded
              /\ UNCHANGED <<flags, link, up, flash>>

\* ctl_symlink() and flag_x(), step by step.
DnsUnlink(s) == /\ \E o \in Controls : Begin(s, o, Dns, "link")
                /\ link' = "none"
                /\ UNCHANGED <<rules, flags, service, flash>>

\* symlink() fails if there is a link, and nobody looks.
DnsLink(s) == /\ pc[s] = "link"
              /\ link' = IF link = "none" THEN op[s] ELSE link
              /\ Go(s, "unflag")
              /\ UNCHANGED <<rules, flags, service, flash>>

\* The flag of the other control stays.
DnsUnflagNot(s) == /\ pc[s] = "unflag"
                   /\ Go(s, "flag")
                   /\ UNCHANGED <<disk, service, flash>>

DnsUnflag(s) == /\ pc[s] = "unflag"
                /\ flags' = [flags EXCEPT ![Dns] = @ \ Opposite(op[s])]
                /\ Go(s, "flag")
                /\ UNCHANGED <<rules, link, service, flash>>

\* The editor reads the file.
Opens(s, d) == /\ Begin(s, "edit", d, "edit")
               /\ seen' = [seen EXCEPT ![s] = rules[d]]

\* call_editor() going on without the lock.
EditUnlocked(s) == /\ \E d \in Edited : Opens(s, d) /\ locked' = locked \cup {d}
                   /\ UNCHANGED <<disk, service, flash>>

\* acq_lock() does not wait: while another session holds the lock there is nothing to do.
Edit(s) == /\ \E d \in Edited \ locked : Opens(s, d) /\ locked' = locked \cup {d}
           /\ UNCHANGED <<disk, service, flash>>

\* The editor may be told to write as often as the user likes.
EditSave(s) == /\ pc[s] = "edit"
               /\ \E f \in Texts : /\ rules' = [rules EXCEPT ![on[s]] = f]
                                   /\ seen' = [seen EXCEPT ![s] = f]
               /\ UNCHANGED <<flags, link, service, flash, session, booting, locked>>

\* The file is tested, with no consequence, and rls_lock() ends the command.
EditEnd(s) == /\ pc[s] = "edit"
              /\ locked' = locked \ {on[s]}
              /\ seen' = [seen EXCEPT ![s] = NoFile]
              /\ End(s)
              /\ UNCHANGED <<disk, service, flash>>
-----------------------------------------------------------------------------
(* write-config and show running-config. *)

\* conf_ctl(): each line after a blank, and a "!" on a line of its own unless the file
\* has left the last line open.
Printed(f) == [i \in DOMAIN f.lines |->
                 <<"line", IF i = Len(f.lines) /\ ~f.ended THEN Spoilt ELSE f.lines[i]>>]

\* The rules of a service, and a command by its flag.
RulesOf(d, f) == IF f = NoFile THEN <<>> ELSE <<<<"rules", d>>>> \o Printed(f)
Command(o, d, when) == IF when THEN <<<<o, d>>>> ELSE <<>>

\* The commands first, and the rules after them.
SectionFlagsFirst(d, f, flagged) ==
    Command("enable", d, "enable" \in flagged) \o RulesOf(d, f)
 \o Command("local-control", d, "local-control" \in flagged)
 \o Command("dhcp-control", d, "dhcp-control" \in flagged)
 \o Command("reload", d, f # NoFile /\ d \in Reloads)

\* What is written of a service with file f and these flags.
Section(d, f, flagged) ==
    RulesOf(d, f) \o Command("enable", d, "enable" \in flagged)
 \o Command("local-control", d, "local-control" \in flagged)
 \o Command("dhcp-control", d, "dhcp-control" \in flagged)
 \o Command("reload", d, f # NoFile /\ d \in Reloads)

\* Both write the text to the same file, which opening it empties.
Conf(s) == /\ \E o \in {"save", "show"} : Begin(s, o, Daemons[1], "conf")
           /\ nsshrc' = <<>>
           /\ UNCHANGED <<disk, service, nsshconf, mnt, kept>>

ConfCtl(s) == /\ pc[s] = "conf"
              /\ out' = [out EXCEPT ![s] = @ \o Section(on[s], rules[on[s]], flags[on[s]])]
              /\ LET i == CHOOSE i \in DOMAIN Daemons : Daemons[i] = on[s]
                 IN  /\ on' = [on EXCEPT ![s] = IF i = Len(Daemons) THEN NoDaemon ELSE Daemons[i + 1]]
                     /\ pc' = [pc EXCEPT ![s] = IF i = Len(Daemons) THEN "close" ELSE "conf"]
              /\ UNCHANGED <<disk, service, flash, op, quiet, dnsMixed, booting>>

\* The buffer goes to the start of the file, over what another session has put there.
Over(text, file) == text \o SubSeq(file, Len(text) + 1, Len(file))

Close(s) == /\ pc[s] = "close"
            /\ nsshrc' = Over(out[s], nsshrc)
            /\ IF op[s] = "show" THEN End(s)
               ELSE /\ pc' = [pc EXCEPT ![s] = "mount"]
                    /\ out' = [out EXCEPT ![s] = <<>>]
                    /\ UNCHANGED <<op, on, quiet, dnsMixed, booting>>
            /\ UNCHANGED <<disk, service, nsshconf, mnt, kept>>

\* umount -f takes the files away from a copy under way.
Interrupt(s, to) == pc' = [t \in Sessions |-> IF t = s THEN to
                                              ELSE IF pc[t] = "copy" THEN "remount" ELSE pc[t]]

SaveMount(s) == /\ pc[s] = "mount"
                /\ mnt' = "rw"
                /\ Interrupt(s, "open")
                /\ UNCHANGED <<disk, service, nsshrc, nsshconf, kept>>
                /\ UNCHANGED <<op, on, out, quiet, dnsMixed, booting>>

\* cp empties its target as it opens it.
SaveOpen(s) == /\ pc[s] = "open"
               /\ IF mnt = "ro" THEN Go(s, "remount") /\ UNCHANGED <<nsshconf, kept>>
                  ELSE Go(s, "copy") /\ nsshconf' = <<>> /\ kept' = NoText
               /\ UNCHANGED <<disk, service, nsshrc, mnt>>

SaveCopy(s) == /\ pc[s] = "copy"
               /\ nsshconf' = Over(nsshrc, nsshconf)
               /\ kept' = IF quiet[s] THEN [rules |-> rules, flags |-> flags] ELSE NoText
               /\ Go(s, "remount")
               /\ UNCHANGED <<disk, service, nsshrc, mnt>>

SaveRemount(s) == /\ pc[s] = "remount"
                  /\ mnt' = "ro"
                  /\ Interrupt(s, "idle")
                  /\ op' = [op EXCEPT ![s] = "none"]
                  /\ on' = [on EXCEPT ![s] = NoDaemon]
                  /\ quiet' = [quiet EXCEPT ![s] = TRUE]
                  /\ UNCHANGED <<disk, service, nsshrc, nsshconf, kept, out, dnsMixed, booting>>
-----------------------------------------------------------------------------
(* The reboot, by command or by a power failure, and `nssh -i'. *)

Reboot == Reset /\ UNCHANGED <<nsshconf, given, kept>>

At == nsshconf[boot]

\* A line of the rules of a service, and what follows a line cut at 255 bytes: the
\* rest of it is taken for a command, which is none, and no service has the floor.
BootLine == /\ At[1] = "line"
            /\ IF handler = NoDaemon \/ At[2] \in Blank THEN UNCHANGED <<rules, handler>>
               ELSE IF At[2] \in Long
               THEN /\ rules' = [rules EXCEPT ![handler] = Written(@, Spoilt, FALSE)]
                    /\ handler' = NoDaemon
               ELSE /\ rules' = [rules EXCEPT ![handler] = Written(@, At[2], TRUE)]
                    /\ UNCHANGED handler
            /\ UNCHANGED <<flags, link, service>>

BootCommand == LET d == At[2]
                   o == At[1]
               IN  /\ o # "line"
                   /\ handler' = d
                   /\ CASE o = "enable" -> Enable(d) /\ UNCHANGED link
                        [] o = "reload" -> Reload(d) /\ UNCHANGED link
                        [] o \in Controls -> link' = o /\ UNCHANGED service
                        [] o = "rules" -> UNCHANGED <<link, service>>
                   /\ flags' = [flags EXCEPT ![d] =
                                  CASE o = "enable" -> @ \cup {o}
                                    [] o \in Controls -> (@ \ Opposite(o)) \cup {o}
                                    [] OTHER -> @]
                   /\ UNCHANGED rules

Boot == /\ boot \in 1..Len(nsshconf)
        /\ boot' = boot + 1
        /\ BootLine \/ BootCommand
        /\ UNCHANGED <<flash, session, given, editing>>
-----------------------------------------------------------------------------
Step(s) == \/ /\ \/ CtlCommand(s) \/ CtlFlag(s) \/ CtlReload(s) \/ AddRule(s)
                 \/ DnsUnlink(s) \/ DnsLink(s) \/ DnsUnflag(s)
                 \/ Conf(s) \/ ConfCtl(s) \/ Close(s)
                 \/ SaveMount(s) \/ SaveOpen(s) \/ SaveCopy(s) \/ SaveRemount(s)
              /\ UNCHANGED editing
           \/ Edit(s) \/ EditSave(s) \/ EditEnd(s)

Next == Boot \/ Reboot \/ \E s \in Sessions : Step(s)

Spec == Init /\ [][Next]_vars
-----------------------------------------------------------------------------
(* Correctness. *)

\* No editor writes over what it has not read: while it is open, its file is as the editor
\* itself has read or written it, whatever other editors, rules added or boots have done
\* meanwhile (acq_lock() and rls_lock(), and no add command for what can be edited).
NoEditLost == \A s \in Sessions : pc[s] = "edit" => rules[on[s]] = seen[s]

\* A file whose lines nssh takes as they are.  A file without lines is not made again.
Plain(f) == \/ f = NoFile
            \/ /\ f.ended /\ f.lines # <<>>
               /\ \A i \in DOMAIN f.lines : f.lines[i] \notin Blank \cup Long
Fresh == boot > Len(nsshconf) /\ kept # NoText

\* What write-config saved is there again after a boot, whatever has happened since and
\* however often the boot itself was cut short, if nothing went on beside the save:
\* each rules file nssh takes as it is, whatever the other files hold, and the flags.
BootRestores == Fresh => \A d \in Services :
                  /\ Plain(kept.rules[d]) => rules[d] = kept.rules[d]
                  /\ kept.flags[d] = Controls \/ flags[d] = kept.flags[d]

\* The services that were enabled run after the boot, all by their complete rules,
\* and no other runs; a service that refuses its file does not, though it is enabled.
BootServes == Fresh => \A d \in Daemon :
                /\ d \in up <=> /\ "enable" \in flags[d]
                                /\ d \in Reloads \cup Fileless \/ Accepted(rules[d])
                /\ d \in Fileless \/
                   loaded[d] = IF Accepted(rules[d]) /\ (d \in up \/ d \in Reloads)
                               THEN rules[d] ELSE NoFile

\* The DNS link and the flags that a boot would set it by agree between commands,
\* as long as two commands about it have not overlapped.
DnsAgrees == (~dnsMixed /\ \A s \in Sessions : op[s] \notin Controls) =>
               flags[Dns] = IF link = "none" THEN {} ELSE {link}
=============================================================================
