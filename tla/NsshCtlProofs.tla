---------------------------- MODULE NsshCtlProofs ----------------------------
(***************************************************************************)
(* For every number of sessions and services, and whatever the files say:  *)
(* that no editor's work is lost, that the DNS link and its flags agree,   *)
(* and that a boot brings back what was saved.                             *)
(***************************************************************************)
EXTENDS NsshCtl, SequenceTheorems, TLAPS

Pcs == {"idle", "edit", "flag", "unlink", "link", "unflag", "conf", "close", "mount", "open",
        "copy", "remount"}
Ops == {"none", "edit", "enable", "disable", "save", "show"} \cup Controls

\* The flags that commands of a service can set.
FlagsOf(d) == IF d = Dns THEN Controls ELSE {"enable"}

DiskOK == /\ rules \in [Services -> File \cup {NoFile}]
          /\ flags \in [Services -> SUBSET ({"enable"} \cup Controls)]
          /\ \A d \in Services : flags[d] \subseteq FlagsOf(d)
          /\ link \in Controls \cup {"none"}

ServiceOK == up \subseteq Daemon /\ loaded \in [Services -> File \cup {NoFile}]

Keeps == [rules : [Services -> File \cup {NoFile}],
          flags : [Services -> SUBSET ({"enable"} \cup Controls)]]

FlashOK == /\ nsshrc \in Seq(Entry) /\ nsshconf \in Seq(Entry)
           /\ mnt \in {"ro", "rw"}
           /\ kept = NoText \/ (kept \in Keeps /\ \A d \in Services : kept.flags[d] \subseteq FlagsOf(d))

\* What a session at a place of a command has to do with.
Fits(l, o, d, text) ==
    /\ l \in Pcs /\ o \in Ops /\ d \in Services \cup {NoDaemon} /\ text \in Seq(Entry)
    /\ l = "idle" <=> o = "none"
    /\ l = "edit" => o = "edit" /\ d \in Services
    /\ l \in {"link", "unflag"} => o \in Controls /\ d = Dns
    /\ l = "flag" => /\ d \in Services
                     /\ IF d = Dns THEN o \in Controls ELSE o \in {"enable", "disable"}
    /\ l \in {"conf", "close"} => o \in {"save", "show"}
    /\ l = "conf" => d \in Services
    /\ l \in {"mount", "open", "copy", "remount"} => o = "save"
    /\ l \notin {"conf", "close"} => text = <<>>
    /\ l # "unlink"

SessionOK == /\ pc \in [Sessions -> Pcs] /\ op \in [Sessions -> Ops]
             /\ on \in [Sessions -> Services \cup {NoDaemon}]
             /\ out \in [Sessions -> Seq(Entry)]
             /\ quiet \in [Sessions -> BOOLEAN] /\ dnsMixed \in BOOLEAN
             /\ \A s \in Sessions : Fits(pc[s], op[s], on[s], out[s])

BootOK == /\ boot \in 0..(Len(nsshconf) + 1)
          /\ handler \in Services \cup {NoDaemon}
          /\ given \in 0..MaxGiven
          /\ boot # 0 => \A s \in Sessions : pc[s] = "idle"

TypeInv == DiskOK /\ ServiceOK /\ FlashOK /\ SessionOK /\ BootOK

EditType == locked \subseteq Services /\ seen \in [Sessions -> File \cup {NoFile}]

LEMMA TypeInvGives == TypeInv /\ EditType => TypeOK
<1> SUFFICES ASSUME TypeInv, EditType PROVE TypeOK
  OBVIOUS
<1>1. \A s \in Sessions : pc[s] \in {"edit", "flag", "conf"} => on[s] # NoDaemon
  <2>1. NoDaemon \notin Services
    BY NsshAssumption
  <2>q. QED
    BY <2>1 DEF TypeInv, SessionOK, Fits
<1>2. kept = NoText \/ kept \in [rules : [Services -> File \cup {NoFile}],
                                 flags : [Services -> SUBSET ({"enable"} \cup Controls)]]
  BY DEF TypeInv, FlashOK, Keeps
<1>q. QED
  BY <1>1, <1>2, Zenon DEF TypeOK, EditType, TypeInv, DiskOK, ServiceOK, FlashOK, SessionOK, BootOK, Pcs, Ops

LEMMA Constants ==
  /\ Dns \in Services /\ Daemon \subseteq Services /\ Dns \notin Daemon /\ Reloads \subseteq Daemon
  /\ Added \subseteq Reloads /\ Edited \subseteq Services /\ Edited \cap Added = {}
  /\ Fileless \subseteq Daemon /\ Fileless \cap Reloads = {}
  /\ Len(Daemons) \in Nat /\ DOMAIN Daemons = 1..Len(Daemons) /\ 1 \in DOMAIN Daemons
  /\ \A i \in DOMAIN Daemons : Daemons[i] \in Services
  /\ \A d \in Services : \E i \in DOMAIN Daemons : d = Daemons[i]
  /\ \A i, j \in DOMAIN Daemons : Daemons[i] = Daemons[j] => i = j
<1>1. Daemons \in Seq(Services) /\ Dns \in Services
  BY NsshAssumption
<1>2. Len(Daemons) \in Nat /\ DOMAIN Daemons = 1..Len(Daemons)
  BY <1>1
<1>3. 1 \in DOMAIN Daemons
  BY <1>1, <1>2 DEF Services
<1>q. QED
  BY <1>1, <1>2, <1>3, NsshAssumption DEF Services, Daemon

\* One session goes on, and the others stay where they are.
LEMMA SessionMove ==
  ASSUME SessionOK, NEW s \in Sessions,
         pc' = [pc EXCEPT ![s] = pc'[s]], op' = [op EXCEPT ![s] = op'[s]],
         on' = [on EXCEPT ![s] = on'[s]], out' = [out EXCEPT ![s] = out'[s]],
         Fits(pc'[s], op'[s], on'[s], out'[s]),
         quiet' \in [Sessions -> BOOLEAN], dnsMixed' \in BOOLEAN
  PROVE  SessionOK'
<1>1. /\ pc' \in [Sessions -> Pcs] /\ op' \in [Sessions -> Ops]
      /\ on' \in [Sessions -> Services \cup {NoDaemon}]
      /\ out' \in [Sessions -> Seq(Entry)]
  BY DEF SessionOK, Fits
<1>2. \A t \in Sessions \ {s} : pc'[t] = pc[t] /\ op'[t] = op[t] /\ on'[t] = on[t] /\ out'[t] = out[t]
  BY DEF SessionOK
<1>3. \A t \in Sessions : Fits(pc'[t], op'[t], on'[t], out'[t])
  BY <1>2 DEF SessionOK
<1>q. QED
  BY <1>1, <1>3 DEF SessionOK

LEMMA BeginType ==
  ASSUME TypeInv, NEW s \in Sessions, NEW o, NEW d, NEW to, Begin(s, o, d, to), Fits(to, o, d, <<>>)
  PROVE  SessionOK' /\ boot' = 0 /\ handler' = handler /\ given' \in 0..MaxGiven
<1>1. /\ pc' = [pc EXCEPT ![s] = to] /\ op' = [op EXCEPT ![s] = o] /\ on' = [on EXCEPT ![s] = d]
      /\ out' = out /\ boot' = 0 /\ handler' = handler
      /\ given < MaxGiven /\ given' = given + 1 /\ pc[s] = "idle"
  BY DEF Begin, Idle
<1>2. quiet' \in [Sessions -> BOOLEAN] /\ dnsMixed' \in BOOLEAN
  BY DEF Begin, TypeInv, SessionOK, Idle, Mixes
<1>3. out[s] = <<>> /\ out' = [out EXCEPT ![s] = out[s]]
  BY <1>1 DEF TypeInv, SessionOK, Fits
<1>4. pc'[s] = to /\ op'[s] = o /\ on'[s] = d /\ out'[s] = <<>>
  BY <1>1, <1>3 DEF TypeInv, SessionOK
<1>5. SessionOK'
  BY <1>1, <1>2, <1>3, <1>4, SessionMove DEF TypeInv
<1>6. given' \in 0..MaxGiven
  BY <1>1, NsshAssumption DEF TypeInv, BootOK
<1>q. QED
  BY <1>1, <1>5, <1>6

LEMMA AtOnceType ==
  ASSUME TypeInv, NEW s \in Sessions, AtOnce(s)
  PROVE  SessionOK' /\ boot' = 0 /\ handler' = handler /\ given' \in 0..MaxGiven
<1>1. UNCHANGED <<pc, op, on, out, dnsMixed, handler>> /\ boot' = 0
  BY DEF AtOnce
<1>2. quiet' \in [Sessions -> BOOLEAN]
  BY DEF AtOnce, Idle
<1>3. given' \in 0..MaxGiven
  BY NsshAssumption DEF TypeInv, BootOK, AtOnce
<1>q. QED
  BY <1>1, <1>2, <1>3 DEF TypeInv, SessionOK

LEMMA GoType ==
  ASSUME TypeInv, NEW s \in Sessions, NEW to, Go(s, to), Fits(to, op[s], on[s], out[s])
  PROVE  SessionOK'
<1>1. pc' = [pc EXCEPT ![s] = to] /\ UNCHANGED <<op, on, out, quiet, dnsMixed>>
  BY DEF Go
<1>2. pc'[s] = to /\ op' = [op EXCEPT ![s] = op[s]] /\ on' = [on EXCEPT ![s] = on[s]]
      /\ out' = [out EXCEPT ![s] = out[s]]
  BY <1>1 DEF TypeInv, SessionOK
<1>q. QED
  BY <1>1, <1>2, SessionMove DEF TypeInv, SessionOK

LEMMA EndType ==
  ASSUME TypeInv, NEW s \in Sessions, End(s)
  PROVE  SessionOK'
<1>1. /\ pc' = [pc EXCEPT ![s] = "idle"] /\ op' = [op EXCEPT ![s] = "none"]
      /\ on' = [on EXCEPT ![s] = NoDaemon] /\ out' = [out EXCEPT ![s] = <<>>]
      /\ dnsMixed' = dnsMixed
  BY DEF End
<1>2. quiet' \in [Sessions -> BOOLEAN]
  BY DEF End, TypeInv, SessionOK
<1>3. pc'[s] = "idle" /\ op'[s] = "none" /\ on'[s] = NoDaemon /\ out'[s] = <<>>
  BY <1>1 DEF TypeInv, SessionOK
<1>4. <<>> \in Seq(Entry)
  OBVIOUS
<1>5. Fits("idle", "none", NoDaemon, <<>>)
  BY <1>4 DEF Fits, Pcs, Ops, Controls
<1>q. QED
  BY <1>1, <1>2, <1>3, <1>5, SessionMove DEF TypeInv, SessionOK
-----------------------------------------------------------------------------
(* What the commands do to the services and the files. *)

LEMMA ServiceType ==
  ASSUME DiskOK, ServiceOK, NEW d \in Services, (Enable(d) /\ d \in Daemon) \/ Disable(d) \/ Reload(d)
  PROVE  ServiceOK'
<1>1. up \subseteq Daemon /\ loaded \in [Services -> File \cup {NoFile}] /\ rules[d] \in File \cup {NoFile}
  BY DEF DiskOK, ServiceOK
<1>2. CASE Enable(d) /\ d \in Daemon
  BY <1>1, <1>2 DEF Enable, ServiceOK, service
<1>3. CASE Disable(d)
  BY <1>1, <1>3 DEF Disable, ServiceOK
<1>4. CASE Reload(d)
  BY <1>1, <1>4 DEF Reload, ServiceOK
<1>q. QED
  BY <1>2, <1>3, <1>4

LEMMA WrittenType ==
  ASSUME NEW f \in File \cup {NoFile}, NEW l \in Lines, NEW end \in BOOLEAN
  PROVE  Written(f, l, end) \in File
<1>1. CASE f = NoFile
  BY <1>1 DEF Written, File
<1>2. CASE f # NoFile /\ f.ended
  <2>1. Append(f.lines, l) \in Seq(Lines)
    BY <1>2 DEF File
  <2>q. QED
    BY <1>2, <2>1 DEF Written, File
<1>3. CASE f # NoFile /\ ~f.ended
  <2>1. f.lines \in Seq(Lines) /\ Spoilt \in Lines
    BY <1>3, NsshAssumption DEF File
  <2>2. Front(f.lines) \in Seq(Lines)
    <3>1. CASE f.lines = <<>>
      <4>1. Front(f.lines) = <<>>
        BY <3>1 DEF Front
      <4>2. <<>> \in Seq(Lines)
        OBVIOUS
      <4>q. QED
        BY <4>1, <4>2
    <3>2. CASE f.lines # <<>>
      BY <2>1, <3>2 DEF Front
    <3>q. QED
      BY <3>1, <3>2
  <2>3. Append(Front(f.lines), Spoilt) \in Seq(Lines)
    BY <2>1, <2>2
  <2>q. QED
    BY <1>3, <2>3 DEF Written, File
<1>q. QED
  BY <1>1, <1>2, <1>3

LEMMA FlaggedType ==
  ASSUME NEW d \in Services, NEW o, NEW f \in SUBSET FlagsOf(d),
         IF d = Dns THEN o \in Controls ELSE o \in {"enable", "disable"}
  PROVE  Flagged(f, o) \subseteq FlagsOf(d)
BY DEF Flagged, FlagsOf, Controls

LEMMA EntryHas ==
  /\ \A d \in Services : <<"rules", d>> \in Entry
  /\ \A d \in Daemon : <<"enable", d>> \in Entry
  /\ \A d \in Reloads : <<"reload", d>> \in Entry
  /\ \A o \in Controls : <<o, Dns>> \in Entry
  /\ \A l \in Lines : <<"line", l>> \in Entry
BY DEF Entry

LEMMA CommandType ==
  ASSUME NEW o, NEW d, NEW when, when => <<o, d>> \in Entry
  PROVE  Command(o, d, when) \in Seq(Entry)
BY DEF Command

LEMMA RulesType ==
  ASSUME NEW d \in Services, NEW f \in File \cup {NoFile}
  PROVE  RulesOf(d, f) \in Seq(Entry)
<1>1. CASE f = NoFile
  BY <1>1 DEF RulesOf
<1>2. CASE f # NoFile
  <2>1. f.lines \in Seq(Lines) /\ Spoilt \in Lines
    BY <1>2, NsshAssumption DEF File
  <2>2. Printed(f) \in Seq(Entry)
    <3>1. \A i \in 1..Len(f.lines) :
            <<"line", IF i = Len(f.lines) /\ ~f.ended THEN Spoilt ELSE f.lines[i]>> \in Entry
      BY <2>1, EntryHas
    <3>2. Printed(f) \in [1..Len(f.lines) -> Entry] /\ Len(f.lines) \in Nat
      BY <2>1, <3>1 DEF Printed
    <3>q. QED
      BY <3>2
  <2>3. <<<<"rules", d>>>> \in Seq(Entry)
    BY EntryHas
  <2>q. QED
    BY <1>2, <2>2, <2>3 DEF RulesOf
<1>q. QED
  BY <1>1, <1>2

LEMMA SectionType ==
  ASSUME NEW d \in Services, NEW f \in File \cup {NoFile}, NEW flagged \in SUBSET FlagsOf(d)
  PROVE  Section(d, f, flagged) \in Seq(Entry)
<1> DEFINE r == RulesOf(d, f)
           e == Command("enable", d, "enable" \in flagged)
           c == Command("local-control", d, "local-control" \in flagged)
           h == Command("dhcp-control", d, "dhcp-control" \in flagged)
           l == Command("reload", d, f # NoFile /\ d \in Reloads)
<1>1. r \in Seq(Entry)
  BY RulesType
<1>2. /\ "enable" \in flagged => d \in Daemon
      /\ "local-control" \in flagged => d = Dns
      /\ "dhcp-control" \in flagged => d = Dns
  BY DEF FlagsOf, Daemon, Controls
<1>3. e \in Seq(Entry) /\ l \in Seq(Entry)
  BY <1>2, EntryHas, CommandType
<1>4. c \in Seq(Entry) /\ h \in Seq(Entry)
  BY <1>2, EntryHas, CommandType DEF Controls
<1> HIDE DEF r, e, c, h, l
<1>5. r \o e \in Seq(Entry)
  BY <1>1, <1>3
<1>6. (r \o e) \o c \in Seq(Entry)
  BY <1>4, <1>5
<1>7. ((r \o e) \o c) \o h \in Seq(Entry)
  BY <1>4, <1>6
<1>8. (((r \o e) \o c) \o h) \o l \in Seq(Entry)
  BY <1>3, <1>7
<1>q. QED
  BY <1>8 DEF Section, r, e, c, h, l

LEMMA OverType ==
  ASSUME NEW text \in Seq(Entry), NEW file \in Seq(Entry)
  PROVE  Over(text, file) \in Seq(Entry) /\ (file = <<>> => Over(text, file) = text)
<1> DEFINE rest == SubSeq(file, Len(text) + 1, Len(file))
<1>1. rest \in Seq(Entry)
  <2>1. CASE Len(text) + 1 > Len(file)
    <3>1. rest = <<>>
      BY <2>1
    <3>q. QED
      BY <3>1
  <2>2. CASE Len(text) + 1 <= Len(file)
    BY <2>2
  <2>q. QED
    BY <2>1, <2>2
<1>2. file = <<>> => rest = <<>>
  BY DEF rest
<1> HIDE DEF rest
<1>3. text \o rest \in Seq(Entry) /\ (rest = <<>> => text \o rest = text)
  BY <1>1
<1>q. QED
  BY <1>2, <1>3 DEF Over, rest
-----------------------------------------------------------------------------
(* Types. *)

\* Nobody goes on before the boot has ended.
LEMMA NotIdle == ASSUME TypeInv, NEW s \in Sessions, pc[s] # "idle" PROVE boot = 0
BY DEF TypeInv, BootOK

\* What is left of the type once a step is known not to concern the boot.
LEMMA BootLeft ==
  ASSUME TypeInv, nsshconf' \in Seq(Entry), given' \in 0..MaxGiven, handler' = handler,
         boot' = 0
  PROVE  BootOK'
BY DEF TypeInv, BootOK

LEMMA CtlType ==
  ASSUME TypeInv, NEW s \in Sessions,
         CtlCommand(s) \/ CtlFlag(s) \/ CtlReload(s) \/ AddRule(s)
  PROVE  TypeInv'
<1> USE DEF TypeInv
<1>0. <<>> \in Seq(Entry)
  OBVIOUS
<1>1. CASE CtlCommand(s)
  <2>1. PICK d \in Daemon, o \in {"enable", "disable"} :
               Begin(s, o, d, "flag") /\ (Enable(d) \/ Disable(d))
    BY <1>1 DEF CtlCommand
  <2>2. UNCHANGED <<disk, flash>>
    BY <1>1 DEF CtlCommand
  <2>3. d \in Services /\ Fits("flag", o, d, <<>>)
    BY <1>0, <2>1, Constants DEF Fits, Pcs, Ops
  <2>4. SessionOK' /\ boot' = 0 /\ handler' = handler /\ given' \in 0..MaxGiven
    BY <2>1, <2>3, BeginType
  <2>5. ServiceOK'
    BY <2>1, <2>3, ServiceType
  <2>6. DiskOK' /\ FlashOK' /\ nsshconf' \in Seq(Entry)
    BY <2>2 DEF DiskOK, FlashOK, disk, flash
  <2>q. QED
    BY <2>4, <2>5, <2>6, BootLeft
<1>2. CASE CtlFlag(s)
  <2>1. /\ pc[s] = "flag" /\ flags' = [flags EXCEPT ![on[s]] = Flagged(@, op[s])] /\ End(s)
        /\ UNCHANGED <<rules, link, service, flash>>
    BY <1>2 DEF CtlFlag
  <2>2. /\ on[s] \in Services
        /\ IF on[s] = Dns THEN op[s] \in Controls ELSE op[s] \in {"enable", "disable"}
    BY <2>1 DEF SessionOK, Fits
  <2>3. PICK F : F = Flagged(flags[on[s]], op[s])
    OBVIOUS
  <2>4. F \subseteq FlagsOf(on[s])
    BY <2>2, <2>3, FlaggedType DEF DiskOK
  <2>5. flags' = [flags EXCEPT ![on[s]] = F]
    BY <2>1, <2>2, <2>3 DEF DiskOK
  <2>6. F \subseteq {"enable"} \cup Controls
    BY <2>4 DEF FlagsOf
  <2>7. DiskOK'
    BY <2>1, <2>2, <2>4, <2>5, <2>6 DEF DiskOK
  <2>8. ServiceOK' /\ FlashOK' /\ nsshconf' \in Seq(Entry)
    BY <2>1 DEF ServiceOK, FlashOK, service, flash
  <2>9. boot' = 0 /\ handler' = handler /\ given' \in 0..MaxGiven
    BY <2>1, NotIdle DEF End, booting, BootOK
  <2>q. QED
    BY <2>1, <2>7, <2>8, <2>9, EndType, BootLeft
<1>3. CASE CtlReload(s)
  <2>1. PICK d \in Daemon \ Fileless : AtOnce(s) /\ Reload(d)
    BY <1>3 DEF CtlReload
  <2>2. UNCHANGED <<disk, flash>>
    BY <1>3 DEF CtlReload
  <2>3. SessionOK' /\ boot' = 0 /\ handler' = handler /\ given' \in 0..MaxGiven
    BY <2>1, AtOnceType
  <2>4. ServiceOK'
    BY <2>1, ServiceType, Constants
  <2>5. DiskOK' /\ FlashOK' /\ nsshconf' \in Seq(Entry)
    BY <2>2 DEF DiskOK, FlashOK, disk, flash
  <2>q. QED
    BY <2>3, <2>4, <2>5, BootLeft
<1>4. CASE AddRule(s)
  <2>1. PICK d \in Added, l \in Lines :
               /\ AtOnce(s)
               /\ rules' = [rules EXCEPT ![d] = Written(@, l, TRUE)]
               /\ loaded' = IF Accepted(rules'[d]) THEN [loaded EXCEPT ![d] = rules'[d]] ELSE loaded
    BY <1>4 DEF AddRule
  <2>2. UNCHANGED <<flags, link, up, flash>>
    BY <1>4 DEF AddRule
  <2>3. SessionOK' /\ boot' = 0 /\ handler' = handler /\ given' \in 0..MaxGiven
    BY <2>1, AtOnceType
  <2>4. PICK f \in File : rules' = [rules EXCEPT ![d] = f]
    BY <2>1, WrittenType, Constants DEF DiskOK
  <2>5. rules'[d] = f /\ d \in Services
    BY <2>4, Constants DEF DiskOK
  <2>6. DiskOK'
    BY <2>2, <2>4, <2>5 DEF DiskOK
  <2>7. ServiceOK'
    BY <2>1, <2>2, <2>5 DEF ServiceOK
  <2>8. FlashOK' /\ nsshconf' \in Seq(Entry)
    BY <2>2 DEF FlashOK, flash
  <2>q. QED
    BY <2>3, <2>6, <2>7, <2>8, BootLeft
<1>q. QED
  BY <1>1, <1>2, <1>3, <1>4

LEMMA DnsType ==
  ASSUME TypeInv, NEW s \in Sessions, DnsUnlink(s) \/ DnsLink(s) \/ DnsUnflag(s)
  PROVE  TypeInv'
<1> USE DEF TypeInv
<1>0. <<>> \in Seq(Entry)
  OBVIOUS
<1>1. CASE DnsUnlink(s)
  <2>1. PICK o \in Controls : Begin(s, o, Dns, "link")
    BY <1>1 DEF DnsUnlink
  <2>2. link' = "none" /\ UNCHANGED <<rules, flags, service, flash>>
    BY <1>1 DEF DnsUnlink
  <2>3. Fits("link", o, Dns, <<>>)
    BY <1>0, <2>1, Constants DEF Fits, Pcs, Ops, Controls
  <2>4. SessionOK' /\ boot' = 0 /\ handler' = handler /\ given' \in 0..MaxGiven
    BY <2>1, <2>3, BeginType
  <2>5. DiskOK' /\ ServiceOK' /\ FlashOK' /\ nsshconf' \in Seq(Entry)
    BY <2>2 DEF DiskOK, ServiceOK, FlashOK, service, flash
  <2>q. QED
    BY <2>4, <2>5, BootLeft
<1>2. CASE DnsLink(s)
  <2>1. /\ pc[s] = "link" /\ link' = (IF link = "none" THEN op[s] ELSE link) /\ Go(s, "unflag")
        /\ UNCHANGED <<rules, flags, service, flash>>
    BY <1>2 DEF DnsLink
  <2>2. op[s] \in Controls /\ on[s] = Dns /\ out[s] = <<>>
    BY <2>1 DEF SessionOK, Fits
  <2>3. SessionOK'
    <3>1. Fits("unflag", op[s], on[s], out[s])
      BY <1>0, <2>2, Constants DEF Fits, Pcs, Ops, Controls
    <3>q. QED
      BY <2>1, <3>1, GoType
  <2>4. DiskOK' /\ ServiceOK' /\ FlashOK' /\ nsshconf' \in Seq(Entry)
    BY <2>1, <2>2 DEF DiskOK, ServiceOK, FlashOK, service, flash
  <2>5. boot' = 0 /\ handler' = handler /\ given' \in 0..MaxGiven
    BY <2>1, NotIdle DEF Go, booting, BootOK
  <2>q. QED
    BY <2>3, <2>4, <2>5, BootLeft
<1>3. CASE DnsUnflag(s)
  <2>1. /\ pc[s] = "unflag" /\ flags' = [flags EXCEPT ![Dns] = @ \ Opposite(op[s])] /\ Go(s, "flag")
        /\ UNCHANGED <<rules, link, service, flash>>
    BY <1>3 DEF DnsUnflag
  <2>2. op[s] \in Controls /\ on[s] = Dns /\ out[s] = <<>>
    BY <2>1 DEF SessionOK, Fits
  <2>3. SessionOK'
    <3>1. Fits("flag", op[s], on[s], out[s])
      BY <1>0, <2>2, Constants DEF Fits, Pcs, Ops, Controls
    <3>q. QED
      BY <2>1, <3>1, GoType
  <2>4. PICK F : F = flags[Dns] \ Opposite(op[s])
    OBVIOUS
  <2>5. F \subseteq FlagsOf(Dns) /\ F \subseteq {"enable"} \cup Controls /\ Dns \in Services
    BY <2>4, Constants DEF DiskOK, FlagsOf
  <2>6. flags' = [flags EXCEPT ![Dns] = F]
    BY <2>1, <2>4, <2>5 DEF DiskOK
  <2>7. DiskOK'
    BY <2>1, <2>5, <2>6 DEF DiskOK
  <2>8. ServiceOK' /\ FlashOK' /\ nsshconf' \in Seq(Entry)
    BY <2>1 DEF ServiceOK, FlashOK, service, flash
  <2>9. boot' = 0 /\ handler' = handler /\ given' \in 0..MaxGiven
    BY <2>1, NotIdle DEF Go, booting, BootOK
  <2>q. QED
    BY <2>3, <2>7, <2>8, <2>9, BootLeft
<1>q. QED
  BY <1>1, <1>2, <1>3

LEMMA EditStepType ==
  ASSUME TypeInv, NEW s \in Sessions, Edit(s) \/ EditSave(s) \/ EditEnd(s)
  PROVE  TypeInv'
<1> USE DEF TypeInv
<1>1. CASE Edit(s)
  <2>1. PICK d \in Edited : Begin(s, "edit", d, "edit")
    BY <1>1 DEF Edit, Opens
  <2>2. UNCHANGED <<disk, service, flash>>
    BY <1>1 DEF Edit
  <2>3. Fits("edit", "edit", d, <<>>)
    <3>1. <<>> \in Seq(Entry)
      OBVIOUS
    <3>q. QED
      BY <2>1, <3>1, NsshAssumption DEF Fits, Pcs, Ops
  <2>4. SessionOK' /\ boot' = 0 /\ handler' = handler /\ given' \in 0..MaxGiven
    BY <2>1, <2>3, BeginType
  <2>5. DiskOK' /\ ServiceOK' /\ FlashOK' /\ nsshconf' \in Seq(Entry)
    BY <2>2 DEF DiskOK, ServiceOK, FlashOK, disk, service, flash
  <2>q. QED
    BY <2>4, <2>5, BootLeft
<1>2. CASE EditSave(s)
  <2>1. /\ \E f \in Texts : rules' = [rules EXCEPT ![on[s]] = f]
        /\ UNCHANGED <<flags, link, service, flash, session, booting>>
    BY <1>2 DEF EditSave
  <2>2. Texts \subseteq File
    BY NsshAssumption DEF File
  <2>3. DiskOK'
    BY <2>1, <2>2 DEF DiskOK
  <2>4. ServiceOK' /\ FlashOK' /\ SessionOK' /\ BootOK'
    BY <2>1 DEF ServiceOK, FlashOK, SessionOK, BootOK, service, flash, session, booting
  <2>q. QED
    BY <2>3, <2>4
<1>3. CASE EditEnd(s)
  <2>1. pc[s] = "edit" /\ End(s) /\ UNCHANGED <<disk, service, flash>>
    BY <1>3 DEF EditEnd
  <2>2. DiskOK' /\ ServiceOK' /\ FlashOK' /\ nsshconf' \in Seq(Entry)
    BY <2>1 DEF DiskOK, ServiceOK, FlashOK, disk, service, flash
  <2>3. boot' = 0 /\ handler' = handler /\ given' \in 0..MaxGiven
    BY <2>1, NotIdle DEF End, booting, BootOK
  <2>q. QED
    BY <2>1, <2>2, <2>3, EndType, BootLeft
<1>q. QED
  BY <1>1, <1>2, <1>3

LEMMA ConfType ==
  ASSUME TypeInv, NEW s \in Sessions, Conf(s) \/ ConfCtl(s) \/ Close(s)
  PROVE  TypeInv'
<1> USE DEF TypeInv
<1>0. <<>> \in Seq(Entry)
  OBVIOUS
<1>1. CASE Conf(s)
  <2>1. PICK o \in {"save", "show"} : Begin(s, o, Daemons[1], "conf")
    BY <1>1 DEF Conf
  <2>2. nsshrc' = <<>> /\ UNCHANGED <<disk, service, nsshconf, mnt, kept>>
    BY <1>1 DEF Conf
  <2>3. Fits("conf", o, Daemons[1], <<>>)
    BY <1>0, <2>1, Constants DEF Fits, Pcs, Ops
  <2>4. SessionOK' /\ boot' = 0 /\ handler' = handler /\ given' \in 0..MaxGiven
    BY <2>1, <2>3, BeginType
  <2>5. DiskOK' /\ ServiceOK'
    BY <2>2 DEF DiskOK, ServiceOK, disk, service
  <2>6. FlashOK' /\ nsshconf' \in Seq(Entry)
    BY <1>0, <2>2 DEF FlashOK
  <2>q. QED
    BY <2>4, <2>5, <2>6, BootLeft
<1>2. CASE ConfCtl(s)
  <2>1. /\ pc[s] = "conf"
        /\ out' = [out EXCEPT ![s] = @ \o Section(on[s], rules[on[s]], flags[on[s]])]
        /\ UNCHANGED <<disk, service, flash, op, quiet, dnsMixed, booting>>
    BY <1>2 DEF ConfCtl
  <2>2. PICK i \in DOMAIN Daemons :
            /\ Daemons[i] = on[s]
            /\ on' = [on EXCEPT ![s] = IF i = Len(Daemons) THEN NoDaemon ELSE Daemons[i + 1]]
            /\ pc' = [pc EXCEPT ![s] = IF i = Len(Daemons) THEN "close" ELSE "conf"]
    <3>1. on[s] \in Services
      BY <2>1 DEF SessionOK, Fits
    <3>2. \E i \in DOMAIN Daemons : Daemons[i] = on[s]
      BY <3>1, Constants
    <3>q. QED
      BY <1>2, <3>2 DEF ConfCtl
  <2>3. PICK text \in Seq(Entry) : out' = [out EXCEPT ![s] = text]
    <3>1. on[s] \in Services /\ op[s] \in {"save", "show"} /\ out[s] \in Seq(Entry)
      BY <2>1 DEF SessionOK, Fits
    <3>2. Section(on[s], rules[on[s]], flags[on[s]]) \in Seq(Entry)
      BY <3>1, SectionType DEF DiskOK
    <3>3. PICK more \in Seq(Entry) : more = Section(on[s], rules[on[s]], flags[on[s]])
      BY <3>2
    <3>4. out[s] \o more \in Seq(Entry)
      BY <3>1
    <3>5. out' = [out EXCEPT ![s] = out[s] \o more]
      BY <2>1, <3>3 DEF SessionOK
    <3>q. QED
      BY <3>4, <3>5
  <2>4. PICK l, d : /\ l = (IF i = Len(Daemons) THEN "close" ELSE "conf")
                    /\ d = (IF i = Len(Daemons) THEN NoDaemon ELSE Daemons[i + 1])
    OBVIOUS
  <2>5. (l = "close" /\ d = NoDaemon) \/ (l = "conf" /\ d \in Services)
    <3>1. CASE i = Len(Daemons)
      BY <2>4, <3>1
    <3>2. CASE i # Len(Daemons)
      <4>1. i + 1 \in DOMAIN Daemons
        BY <3>2, Constants
      <4>2. Daemons[i + 1] \in Services
        BY <4>1, Constants
      <4>q. QED
        BY <2>4, <3>2, <4>2
    <3>q. QED
      BY <3>1, <3>2
  <2>6. on' = [on EXCEPT ![s] = d] /\ pc' = [pc EXCEPT ![s] = l] /\ op[s] \in {"save", "show"}
    BY <2>1, <2>2, <2>4 DEF SessionOK, Fits
  <2>7. Fits(l, op[s], d, text)
    BY <2>5, <2>6 DEF Fits, Pcs, Ops, Controls
  <2>8. SessionOK'
    <3>1. pc'[s] = l /\ on'[s] = d /\ out'[s] = text /\ op'[s] = op[s]
      BY <2>1, <2>3, <2>6 DEF SessionOK
    <3>2. op' = [op EXCEPT ![s] = op[s]] /\ quiet' \in [Sessions -> BOOLEAN] /\ dnsMixed' \in BOOLEAN
      BY <2>1 DEF SessionOK
    <3>q. QED
      BY <2>3, <2>6, <2>7, <3>1, <3>2, SessionMove
  <2>9. DiskOK' /\ ServiceOK' /\ FlashOK' /\ BootOK'
    <3>1. boot = 0
      BY <2>1, NotIdle
    <3>q. QED
      BY <2>1, <3>1 DEF DiskOK, ServiceOK, FlashOK, BootOK, disk, service, flash, booting
  <2>q. QED
    BY <2>8, <2>9
<1>3. CASE Close(s)
  <2>1. /\ pc[s] = "close" /\ nsshrc' = Over(out[s], nsshrc)
        /\ UNCHANGED <<disk, service, nsshconf, mnt, kept>>
    BY <1>3 DEF Close
  <2>2. out[s] \in Seq(Entry) /\ op[s] \in {"save", "show"}
    BY <2>1 DEF SessionOK, Fits
  <2>3. nsshrc' \in Seq(Entry)
    BY <2>1, <2>2, OverType DEF FlashOK
  <2>4. DiskOK' /\ ServiceOK' /\ FlashOK' /\ nsshconf' \in Seq(Entry)
    BY <2>1, <2>3 DEF DiskOK, ServiceOK, FlashOK, disk, service
  <2>5. SessionOK' /\ UNCHANGED booting
    <3>1. CASE op[s] = "show"
      BY <1>3, <3>1, EndType DEF Close, End
    <3>2. CASE op[s] # "show"
      <4>1. /\ pc' = [pc EXCEPT ![s] = "mount"] /\ out' = [out EXCEPT ![s] = <<>>]
            /\ UNCHANGED <<op, on, quiet, dnsMixed, booting>>
        BY <1>3, <3>2 DEF Close
      <4>2. /\ pc'[s] = "mount" /\ out'[s] = <<>> /\ op'[s] = "save" /\ on'[s] = on[s]
            /\ op' = [op EXCEPT ![s] = op[s]] /\ on' = [on EXCEPT ![s] = on[s]]
        BY <2>2, <3>2, <4>1 DEF SessionOK
      <4>3. Fits("mount", "save", on[s], <<>>)
        BY <1>0 DEF Fits, Pcs, Ops, Controls, SessionOK
      <4>q. QED
        BY <2>2, <3>2, <4>1, <4>2, <4>3, SessionMove DEF SessionOK
    <3>q. QED
      BY <3>1, <3>2
  <2>6. BootOK'
    BY <2>1, <2>4, <2>5, NotIdle, BootLeft DEF booting, BootOK
  <2>q. QED
    BY <2>4, <2>5, <2>6
<1>q. QED
  BY <1>1, <1>2, <1>3

LEMMA InterruptType ==
  ASSUME TypeInv, NEW s \in Sessions, NEW to, NEW o, NEW d, Interrupt(s, to),
         op' = [op EXCEPT ![s] = o], on' = [on EXCEPT ![s] = d], out' = out,
         quiet' \in [Sessions -> BOOLEAN], dnsMixed' = dnsMixed, Fits(to, o, d, out[s])
  PROVE  SessionOK'
<1>1. \A t \in Sessions : pc'[t] = IF t = s THEN to ELSE IF pc[t] = "copy" THEN "remount" ELSE pc[t]
  BY DEF Interrupt
<1>2. to \in Pcs /\ o \in Ops /\ d \in Services \cup {NoDaemon} /\ "remount" \in Pcs
  BY DEF Fits, Pcs
<1>3. pc' \in [Sessions -> Pcs]
  BY <1>2 DEF Interrupt, TypeInv, SessionOK
<1>4. \A t \in Sessions : Fits(pc'[t], op'[t], on'[t], out'[t])
  <2>1. ASSUME NEW t \in Sessions, t # s PROVE Fits(pc'[t], op'[t], on'[t], out'[t])
    <3>1. op'[t] = op[t] /\ on'[t] = on[t] /\ out'[t] = out[t] /\ Fits(pc[t], op[t], on[t], out[t])
      BY <2>1 DEF TypeInv, SessionOK
    <3>2. pc'[t] = IF pc[t] = "copy" THEN "remount" ELSE pc[t]
      BY <1>1, <2>1
    <3>q. QED
      BY <3>1, <3>2 DEF Fits, Pcs, Controls
  <2>2. pc'[s] = to /\ op'[s] = o /\ on'[s] = d /\ out'[s] = out[s]
    BY <1>1 DEF TypeInv, SessionOK
  <2>q. QED
    BY <2>1, <2>2
<1>5. /\ op' \in [Sessions -> Ops] /\ on' \in [Sessions -> Services \cup {NoDaemon}]
      /\ out' \in [Sessions -> Seq(Entry)] /\ dnsMixed' \in BOOLEAN
  BY <1>2 DEF TypeInv, SessionOK
<1>q. QED
  BY <1>3, <1>4, <1>5 DEF SessionOK

LEMMA SaveType ==
  ASSUME TypeInv, NEW s \in Sessions, SaveMount(s) \/ SaveOpen(s) \/ SaveCopy(s) \/ SaveRemount(s)
  PROVE  TypeInv'
<1> USE DEF TypeInv
<1>0. <<>> \in Seq(Entry)
  OBVIOUS
<1>t. /\ pc[s] \in {"mount", "open", "copy", "remount"} /\ UNCHANGED <<disk, service, nsshrc, booting>>
      /\ op[s] = "save" /\ out[s] = <<>> /\ on[s] \in Services \cup {NoDaemon}
  <2>1. pc[s] \in {"mount", "open", "copy", "remount"} /\ UNCHANGED <<disk, service, nsshrc, booting>>
    BY DEF SaveMount, SaveOpen, SaveCopy, SaveRemount, Go
  <2>q. QED
    BY <2>1 DEF SessionOK, Fits
<1>g. boot = 0 /\ boot' = 0 /\ handler' = handler /\ given' \in 0..MaxGiven
  BY <1>t, NotIdle DEF booting, BootOK
<1>f. \A l \in {"open", "copy", "remount"} : Fits(l, op[s], on[s], out[s])
  BY <1>0, <1>t DEF Fits, Pcs, Ops, Controls
<1>1. DiskOK' /\ ServiceOK'
  BY <1>t DEF DiskOK, ServiceOK, disk, service
<1>2. FlashOK' /\ nsshconf' \in Seq(Entry)
  <2>1. CASE SaveMount(s) \/ SaveRemount(s)
    BY <1>t, <2>1 DEF SaveMount, SaveRemount, FlashOK
  <2>2. CASE SaveOpen(s)
    <3>1. mnt' = mnt /\ ((nsshconf' = nsshconf /\ kept' = kept) \/ (nsshconf' = <<>> /\ kept' = NoText))
      BY <2>2 DEF SaveOpen
    <3>q. QED
      BY <1>0, <1>t, <3>1 DEF FlashOK
  <2>3. CASE SaveCopy(s)
    <3>1. nsshconf' \in Seq(Entry) /\ mnt' = mnt
      BY <2>3, OverType DEF SaveCopy, FlashOK
    <3>2. [rules |-> rules, flags |-> flags] \in Keeps
      BY DEF DiskOK, Keeps
    <3>3. kept' = NoText \/ kept' = [rules |-> rules, flags |-> flags]
      BY <2>3, Zenon DEF SaveCopy
    <3>4. kept' = NoText \/ (kept' \in Keeps /\ \A d \in Services : kept'.flags[d] \subseteq FlagsOf(d))
      <4>1. PICK k : k = [rules |-> rules, flags |-> flags]
        OBVIOUS
      <4>2. k \in Keeps /\ \A d \in Services : k.flags[d] \subseteq FlagsOf(d)
        BY <3>2, <4>1 DEF DiskOK
      <4>q. QED
        BY <3>3, <4>1, <4>2
    <3>q. QED
      BY <1>t, <3>1, <3>4 DEF FlashOK
  <2>q. QED
    BY <2>1, <2>2, <2>3
<1>3. SessionOK'
  <2>1. CASE SaveMount(s)
    <3>1. Interrupt(s, "open") /\ UNCHANGED <<op, on, out, quiet, dnsMixed>>
      BY <2>1 DEF SaveMount
    <3>2. op' = [op EXCEPT ![s] = op[s]] /\ on' = [on EXCEPT ![s] = on[s]] /\ quiet' \in [Sessions -> BOOLEAN]
      BY <3>1 DEF SessionOK
    <3>q. QED
      BY <1>f, <3>1, <3>2, InterruptType
  <2>2. CASE SaveOpen(s)
    BY <1>f, <2>2, GoType DEF SaveOpen
  <2>3. CASE SaveCopy(s)
    BY <1>f, <2>3, GoType DEF SaveCopy
  <2>4. CASE SaveRemount(s)
    <3>1. /\ Interrupt(s, "idle") /\ op' = [op EXCEPT ![s] = "none"] /\ on' = [on EXCEPT ![s] = NoDaemon]
          /\ UNCHANGED <<out, dnsMixed>>
      BY <2>4 DEF SaveRemount
    <3>2. quiet' \in [Sessions -> BOOLEAN]
      BY <2>4 DEF SaveRemount, SessionOK
    <3>3. Fits("idle", "none", NoDaemon, out[s])
      BY <1>0, <1>t DEF Fits, Pcs, Ops, Controls
    <3>q. QED
      BY <3>1, <3>2, <3>3, InterruptType
  <2>q. QED
    BY <2>1, <2>2, <2>3, <2>4
<1>4. BootOK'
  BY <1>2, <1>g, BootLeft
<1>q. QED
  BY <1>1, <1>2, <1>3, <1>4

LEMMA AtType ==
  ASSUME TypeInv, boot \in 1..Len(nsshconf)
  PROVE  /\ At \in Entry
         /\ At[1] = "line" => At[2] \in Lines
         /\ At[1] # "line" => /\ At[2] \in Services
                              /\ At[1] = "enable" => At[2] \in Daemon
                              /\ At[1] = "reload" => At[2] \in Reloads
                              /\ At[1] \in Controls => At[2] = Dns
                              /\ At[1] \in {"rules", "enable", "reload"} \cup Controls
<1>1. At \in Entry
  BY DEF At, TypeInv, FlashOK
<1>2. Daemon \subseteq Services /\ Reloads \subseteq Daemon /\ Dns \in Services
  BY Constants
<1>q. QED
  BY <1>1, <1>2 DEF Entry, Controls

LEMMA BootStepType == ASSUME TypeInv, Boot PROVE TypeInv'
<1> USE DEF TypeInv
<1>1. /\ boot \in 1..Len(nsshconf) /\ boot' = boot + 1
      /\ UNCHANGED <<flash, session, given>>
  BY DEF Boot
<1>2. FlashOK' /\ SessionOK'
  BY <1>1 DEF FlashOK, SessionOK, flash, session
<1>3. boot' \in 0..(Len(nsshconf') + 1) /\ given' \in 0..MaxGiven /\ \A s \in Sessions : pc'[s] = "idle"
  BY <1>1 DEF BootOK, flash, session, FlashOK
<1>4. CASE BootLine
  <2>1. At[2] \in Lines /\ UNCHANGED <<flags, link, service>>
    BY <1>1, <1>4, AtType DEF BootLine
  <2>2. \/ UNCHANGED <<rules, handler>>
        \/ /\ handler \in Services /\ handler' \in {handler, NoDaemon}
           /\ \E f \in File : rules' = [rules EXCEPT ![handler] = f]
    <3>1. CASE handler = NoDaemon \/ At[2] \in Blank
      BY <1>4, <3>1 DEF BootLine
    <3>2. CASE ~(handler = NoDaemon \/ At[2] \in Blank)
      <4>1. handler \in Services /\ rules[handler] \in File \cup {NoFile}
        BY <3>2 DEF BootOK, DiskOK
      <4>2. \A l \in Lines, end \in BOOLEAN : Written(rules[handler], l, end) \in File
        BY <4>1, WrittenType
      <4>3. Spoilt \in Lines
        BY NsshAssumption
      <4>q. QED
        BY <1>4, <2>1, <3>2, <4>1, <4>2, <4>3 DEF BootLine
    <3>q. QED
      BY <3>1, <3>2
  <2>3. DiskOK' /\ handler' \in Services \cup {NoDaemon}
    BY <2>1, <2>2 DEF DiskOK, BootOK
  <2>4. ServiceOK'
    BY <2>1 DEF ServiceOK, service
  <2>q. QED
    BY <1>2, <1>3, <2>3, <2>4 DEF BootOK
<1>5. CASE BootCommand
  <2>1. PICK o, d : o = At[1] /\ d = At[2]
    OBVIOUS
  <2>2. /\ d \in Services /\ o \in {"rules", "enable", "reload"} \cup Controls
        /\ o = "enable" => d \in Daemon
        /\ o \in Controls => d = Dns
    BY <1>1, <1>5, <2>1, AtType DEF BootCommand
  <2>3. /\ handler' = d /\ rules' = rules
        /\ flags' = [flags EXCEPT ![d] = CASE o = "enable" -> @ \cup {o}
                                           [] o \in Controls -> (@ \ Opposite(o)) \cup {o}
                                           [] OTHER -> @]
    BY <1>5, <2>1 DEF BootCommand
  <2>4. /\ o = "enable" => Enable(d) /\ link' = link
        /\ o = "reload" => Reload(d) /\ link' = link
        /\ o \in Controls => link' = o /\ UNCHANGED service
        /\ o = "rules" => UNCHANGED <<link, service>>
    BY <1>5, <2>1, <2>2 DEF BootCommand, Controls
  <2>5. ServiceOK'
    BY <2>2, <2>4, ServiceType DEF ServiceOK, service
  <2>6. PICK F : F = CASE o = "enable" -> flags[d] \cup {o}
                       [] o \in Controls -> (flags[d] \ Opposite(o)) \cup {o}
                       [] OTHER -> flags[d]
    OBVIOUS
  <2>7. F \subseteq FlagsOf(d) /\ F \subseteq {"enable"} \cup Controls
    <3>1. flags[d] \subseteq FlagsOf(d) /\ flags[d] \subseteq {"enable"} \cup Controls
      BY <2>2 DEF DiskOK
    <3>2. o = "enable" => "enable" \in FlagsOf(d)
      BY <2>2 DEF FlagsOf, Daemon
    <3>3. o \in Controls => o \in FlagsOf(d)
      BY <2>2 DEF FlagsOf
    <3>4. \A x \in F : x \in flags[d] \/ (x = o /\ (o = "enable" \/ o \in Controls))
      BY <2>6
    <3>q. QED
      BY <3>1, <3>2, <3>3, <3>4
  <2>8. flags' = [flags EXCEPT ![d] = F]
    BY <2>2, <2>3, <2>6 DEF DiskOK
  <2>9. link' \in Controls \cup {"none"}
    BY <2>2, <2>4 DEF DiskOK
  <2>10. DiskOK'
    BY <2>2, <2>3, <2>7, <2>8, <2>9 DEF DiskOK
  <2>q. QED
    BY <1>2, <1>3, <2>2, <2>3, <2>5, <2>10 DEF BootOK
<1>q. QED
  BY <1>4, <1>5 DEF Boot

LEMMA ResetType == ASSUME TypeInv, Reboot PROVE TypeInv'
<1> USE DEF TypeInv
<1>0. <<>> \in Seq(Entry)
  OBVIOUS
<1>1. DiskOK' /\ ServiceOK'
  BY DEF Reboot, Reset, DiskOK, ServiceOK
<1>2. FlashOK'
  BY <1>0 DEF Reboot, Reset, FlashOK
<1>3. SessionOK'
  <2>1. quiet' \in [Sessions -> BOOLEAN] /\ dnsMixed' \in BOOLEAN
    BY DEF Reboot, Reset
  <2>2. Fits("idle", "none", NoDaemon, <<>>)
    BY <1>0 DEF Fits, Pcs, Ops, Controls
  <2>3. \A s \in Sessions : pc'[s] = "idle" /\ op'[s] = "none" /\ on'[s] = NoDaemon /\ out'[s] = <<>>
    BY DEF Reboot, Reset
  <2>4. /\ pc' \in [Sessions -> Pcs] /\ op' \in [Sessions -> Ops]
        /\ on' \in [Sessions -> Services \cup {NoDaemon}] /\ out' \in [Sessions -> Seq(Entry)]
    BY <2>2 DEF Reboot, Reset, Fits
  <2>q. QED
    BY <2>1, <2>2, <2>3, <2>4 DEF SessionOK
<1>4. BootOK'
  BY DEF Reboot, Reset, BootOK, FlashOK
<1>q. QED
  BY <1>1, <1>2, <1>3, <1>4

LEMMA TypeInit == Init => TypeInv
<1> SUFFICES ASSUME Init PROVE TypeInv
  OBVIOUS
<1>0. <<>> \in Seq(Entry)
  OBVIOUS
<1>1. DiskOK /\ ServiceOK
  BY DEF Init, DiskOK, ServiceOK
<1>2. FlashOK
  BY <1>0 DEF Init, FlashOK
<1>3. SessionOK
  <2>1. quiet \in [Sessions -> BOOLEAN] /\ dnsMixed \in BOOLEAN
    BY DEF Init
  <2>2. Fits("idle", "none", NoDaemon, <<>>)
    BY <1>0 DEF Fits, Pcs, Ops, Controls
  <2>3. \A s \in Sessions : pc[s] = "idle" /\ op[s] = "none" /\ on[s] = NoDaemon /\ out[s] = <<>>
    BY DEF Init
  <2>4. /\ pc \in [Sessions -> Pcs] /\ op \in [Sessions -> Ops]
        /\ on \in [Sessions -> Services \cup {NoDaemon}] /\ out \in [Sessions -> Seq(Entry)]
    BY <2>2 DEF Init, Fits
  <2>q. QED
    BY <2>1, <2>2, <2>3, <2>4 DEF SessionOK
<1>4. BootOK
  BY NsshAssumption DEF Init, BootOK
<1>q. QED
  BY <1>1, <1>2, <1>3, <1>4 DEF TypeInv

LEMMA TypeStep == TypeInv /\ [Next]_vars => TypeInv'
<1> SUFFICES ASSUME TypeInv, [Next]_vars PROVE TypeInv'
  OBVIOUS
<1>1. CASE UNCHANGED vars
  BY <1>1 DEF vars, disk, service, flash, session, booting, TypeInv, DiskOK, ServiceOK, FlashOK,
              SessionOK, BootOK
<1>2. ASSUME NEW s \in Sessions, Step(s) PROVE TypeInv'
  BY <1>2, CtlType, DnsType, EditStepType, ConfType, SaveType DEF Step
<1>q. QED
  BY <1>1, <1>2, BootStepType, ResetType DEF Next
-----------------------------------------------------------------------------
(* Editors. *)

\* A session that is in a command is there alone among those that go on.
LEMMA OnlyStep ==
  ASSUME TypeInv, NEW s \in Sessions, Step(s), NEW t \in Sessions, t # s
  PROVE  /\ pc'[t] = pc[t] \/ (pc[t] = "copy" /\ pc'[t] = "remount")
         /\ op'[t] = op[t] /\ on'[t] = on[t] /\ out'[t] = out[t]
<1>t. /\ DOMAIN pc = Sessions /\ DOMAIN op = Sessions /\ DOMAIN on = Sessions /\ DOMAIN out = Sessions
  BY DEF TypeInv, SessionOK
<1>1. CASE CtlCommand(s) \/ DnsUnlink(s) \/ Edit(s) \/ Conf(s)
  <2>1. \E o, d, to : Begin(s, o, d, to)
    BY <1>1 DEF CtlCommand, DnsUnlink, Edit, Opens, Conf
  <2>q. QED
    BY <1>t, <2>1 DEF Begin
<1>2. CASE CtlFlag(s) \/ EditEnd(s)
  BY <1>t, <1>2 DEF CtlFlag, EditEnd, End
<1>3. CASE CtlReload(s) \/ AddRule(s)
  <2>1. AtOnce(s)
    BY <1>3 DEF CtlReload, AddRule
  <2>q. QED
    BY <2>1 DEF AtOnce
<1>4. CASE DnsLink(s) \/ DnsUnflag(s) \/ SaveOpen(s) \/ SaveCopy(s)
  <2>1. \E to : Go(s, to)
    BY <1>4 DEF DnsLink, DnsUnflag, SaveOpen, SaveCopy
  <2>q. QED
    BY <1>t, <2>1 DEF Go
<1>5. CASE EditSave(s)
  BY <1>5 DEF EditSave, session
<1>6. CASE ConfCtl(s)
  BY <1>t, <1>6 DEF ConfCtl
<1>7. CASE Close(s)
  BY <1>t, <1>7 DEF Close, End
<1>8. CASE SaveMount(s) \/ SaveRemount(s)
  BY <1>t, <1>8 DEF SaveMount, SaveRemount, Interrupt
<1>q. QED
  BY <1>1, <1>2, <1>3, <1>4, <1>5, <1>6, <1>7, <1>8 DEF Step

\* Who has an editor has begun one, or had it.
LEMMA OnlyEdit ==
  ASSUME TypeInv, NEW s \in Sessions, Step(s), pc'[s] = "edit"
  PROVE  Edit(s) \/ (pc[s] = "edit" /\ UNCHANGED <<pc, on>>)
<1>t. s \in DOMAIN pc
  BY DEF TypeInv, SessionOK
<1>1. CASE CtlCommand(s) \/ DnsUnlink(s) \/ Conf(s)
  <2>1. \E o, d, to : Begin(s, o, d, to) /\ to # "edit"
    BY <1>1 DEF CtlCommand, DnsUnlink, Conf
  <2>q. QED
    BY <1>t, <2>1 DEF Begin
<1>2. CASE CtlFlag(s) \/ EditEnd(s)
  BY <1>t, <1>2 DEF CtlFlag, EditEnd, End
<1>3. CASE CtlReload(s) \/ AddRule(s)
  <2>1. AtOnce(s)
    BY <1>3 DEF CtlReload, AddRule
  <2>q. QED
    BY <2>1 DEF AtOnce, Idle
<1>4. CASE DnsLink(s) \/ DnsUnflag(s) \/ SaveOpen(s) \/ SaveCopy(s)
  <2>1. \E to \in {"unflag", "flag", "remount", "copy"} : Go(s, to)
    BY <1>4 DEF DnsLink, DnsUnflag, SaveOpen, SaveCopy
  <2>q. QED
    BY <1>t, <2>1 DEF Go
<1>5. CASE EditSave(s)
  BY <1>5 DEF EditSave, session
<1>6. CASE ConfCtl(s) \/ Close(s)
  BY <1>t, <1>6 DEF ConfCtl, Close, End
<1>8. CASE SaveMount(s) \/ SaveRemount(s)
  BY <1>t, <1>8 DEF SaveMount, SaveRemount, Interrupt
<1>q. QED
  BY <1>1, <1>2, <1>3, <1>4, <1>5, <1>6, <1>8 DEF Step

\* The rules files change by an added rule, by an editor and at the boot.
LEMMA OnlyRules ==
  ASSUME NEW s \in Sessions, Step(s), ~AddRule(s), ~EditSave(s)
  PROVE  rules' = rules
<1>1. CASE CtlCommand(s) \/ CtlFlag(s) \/ CtlReload(s)
  BY <1>1 DEF CtlCommand, CtlFlag, CtlReload, disk
<1>2. CASE DnsUnlink(s) \/ DnsLink(s) \/ DnsUnflag(s)
  BY <1>2 DEF DnsUnlink, DnsLink, DnsUnflag
<1>3. CASE Conf(s) \/ ConfCtl(s) \/ Close(s)
  BY <1>3 DEF Conf, ConfCtl, Close, disk
<1>4. CASE SaveMount(s) \/ SaveOpen(s) \/ SaveCopy(s) \/ SaveRemount(s)
  BY <1>4 DEF SaveMount, SaveOpen, SaveCopy, SaveRemount, disk
<1>5. CASE Edit(s) \/ EditEnd(s)
  BY <1>5 DEF Edit, EditEnd, disk
<1>q. QED
  BY <1>1, <1>2, <1>3, <1>4, <1>5 DEF Step

\* Whoever has an editor has the lock of its file, nobody else has one on it, and the file
\* is as this editor knows it.
HasLock == \A s \in Sessions : pc[s] = "edit" => on[s] \in Edited \cap locked
OneEditor == \A s, t \in Sessions : pc[s] = "edit" /\ pc[t] = "edit" /\ on[s] = on[t] => s = t
EditInv == EditType /\ HasLock /\ OneEditor /\ NoEditLost

LEMMA EditInit == Init => EditInv
BY DEF Init, EditInv, EditType, HasLock, OneEditor, NoEditLost

LEMMA EditOpens == ASSUME TypeInv, EditInv, NEW u \in Sessions, Step(u), Edit(u) PROVE EditInv'
<1>1. PICK d \in Edited \ locked : Opens(u, d) /\ locked' = locked \cup {d}
  BY DEF Edit
<1>2. rules' = rules /\ d \in Services
  BY <1>1, Constants DEF Edit, disk
<1>3. seen' = [seen EXCEPT ![u] = rules[d]] /\ on'[u] = d /\ pc'[u] = "edit"
  BY <1>1 DEF Opens, Begin, TypeInv, SessionOK
<1>4. \A v \in Sessions \ {u} : pc'[v] = "edit" => pc[v] = "edit" /\ on'[v] = on[v]
  BY OnlyStep
<1>5. EditType'
  BY <1>1, <1>2, <1>3 DEF EditInv, EditType, TypeInv, DiskOK
<1>6. HasLock'
  BY <1>1, <1>3, <1>4 DEF EditInv, HasLock
<1>7. \A v \in Sessions \ {u} : pc'[v] = "edit" => on'[v] # d
  BY <1>1, <1>4 DEF EditInv, HasLock
<1>8. OneEditor'
  BY <1>3, <1>4, <1>7 DEF EditInv, OneEditor
<1>9. NoEditLost'
  BY <1>2, <1>3, <1>4 DEF EditInv, EditType, NoEditLost
<1>q. QED
  BY <1>5, <1>6, <1>8, <1>9 DEF EditInv

LEMMA EditSaves == ASSUME TypeInv, EditInv, NEW u \in Sessions, EditSave(u) PROVE EditInv'
<1>1. PICK f \in Texts : rules' = [rules EXCEPT ![on[u]] = f] /\ seen' = [seen EXCEPT ![u] = f]
  BY DEF EditSave
<1>2. pc[u] = "edit" /\ pc' = pc /\ on' = on /\ locked' = locked
  BY DEF EditSave, session
<1>3. f \in File
  BY <1>1, NsshAssumption DEF File
<1>4. EditType'
  BY <1>1, <1>2, <1>3 DEF EditInv, EditType
<1>5. HasLock' /\ OneEditor'
  BY <1>2 DEF EditInv, HasLock, OneEditor
<1>6. \A v \in Sessions \ {u} : pc[v] = "edit" => on[v] # on[u]
  BY <1>2 DEF EditInv, OneEditor
<1>7. on[u] \in Services
  BY <1>2, Constants DEF EditInv, HasLock
<1>8. NoEditLost'
  BY <1>1, <1>2, <1>6, <1>7 DEF EditInv, EditType, NoEditLost, TypeInv, DiskOK
<1>q. QED
  BY <1>4, <1>5, <1>8 DEF EditInv

LEMMA EditEnds == ASSUME TypeInv, EditInv, NEW u \in Sessions, Step(u), EditEnd(u) PROVE EditInv'
<1>1. /\ pc[u] = "edit" /\ locked' = locked \ {on[u]} /\ seen' = [seen EXCEPT ![u] = NoFile]
      /\ rules' = rules
  BY DEF EditEnd, disk
<1>2. pc'[u] = "idle"
  BY DEF EditEnd, End, TypeInv, SessionOK
<1>3. \A v \in Sessions \ {u} : pc'[v] = "edit" => pc[v] = "edit" /\ on'[v] = on[v]
  BY OnlyStep
<1>4. \A v \in Sessions \ {u} : pc[v] = "edit" => on[v] # on[u]
  BY <1>1 DEF EditInv, OneEditor
<1>5. EditType'
  BY <1>1 DEF EditInv, EditType
<1>6. HasLock'
  BY <1>1, <1>2, <1>3, <1>4 DEF EditInv, HasLock
<1>7. OneEditor'
  BY <1>2, <1>3 DEF EditInv, OneEditor
<1>8. NoEditLost'
  BY <1>1, <1>2, <1>3 DEF EditInv, EditType, NoEditLost
<1>q. QED
  BY <1>5, <1>6, <1>7, <1>8 DEF EditInv

LEMMA EditElse ==
  ASSUME TypeInv, EditInv, NEW u \in Sessions, Step(u), ~Edit(u), ~EditSave(u), ~EditEnd(u)
  PROVE  EditInv'
<1>1. seen' = seen /\ locked' = locked
  BY DEF Step, editing
<1>2. \A v \in Sessions \ {u} : pc'[v] = "edit" => pc[v] = "edit" /\ on'[v] = on[v]
  BY OnlyStep
<1>3. pc'[u] = "edit" => pc[u] = "edit" /\ on'[u] = on[u]
  BY OnlyEdit
<1>4. \A v \in Sessions : pc'[v] = "edit" => pc[v] = "edit" /\ on'[v] = on[v]
  BY <1>2, <1>3
<1>5. EditType' /\ HasLock' /\ OneEditor'
  BY <1>1, <1>4 DEF EditInv, EditType, HasLock, OneEditor
<1>6. \A d \in Edited : rules'[d] = rules[d]
  <2>1. CASE AddRule(u)
    <3>1. PICK c \in Added, l \in Lines : rules' = [rules EXCEPT ![c] = Written(@, l, TRUE)]
      BY <2>1 DEF AddRule
    <3>2. \A d \in Edited : d \in Services /\ d # c
      BY <3>1, Constants
    <3>q. QED
      BY <3>1, <3>2 DEF TypeInv, DiskOK
  <2>2. CASE ~AddRule(u)
    BY <2>2, OnlyRules
  <2>q. QED
    BY <2>1, <2>2
<1>7. NoEditLost'
  BY <1>1, <1>4, <1>6 DEF EditInv, HasLock, NoEditLost
<1>q. QED
  BY <1>5, <1>7 DEF EditInv

LEMMA EditInvStep == TypeInv /\ EditInv /\ [Next]_vars => EditInv'
<1> SUFFICES ASSUME TypeInv, EditInv, [Next]_vars PROVE EditInv'
  OBVIOUS
<1> USE DEF EditInv, EditType, HasLock, OneEditor, NoEditLost
<1>1. CASE UNCHANGED vars
  BY <1>1 DEF vars, disk, session, editing
<1>2. CASE Boot
  <2>1. UNCHANGED <<session, editing>> /\ \A s \in Sessions : pc[s] = "idle"
    BY <1>2 DEF Boot, TypeInv, BootOK
  <2>q. QED
    BY <2>1 DEF session, editing
<1>3. CASE Reboot
  BY <1>3 DEF Reboot, Reset
<1>4. ASSUME NEW u \in Sessions, Step(u) PROVE EditInv'
  BY <1>4, EditOpens, EditSaves, EditEnds, EditElse
<1>q. QED
  BY <1>1, <1>2, <1>3, <1>4 DEF Next

\* Every variable has its type, and no command that the boot could not take is ever saved.
THEOREM NsshTypeCorrect == Spec => []TypeOK
<1>1. EditInv => EditType
  BY DEF EditInv
<1>q. QED
  BY <1>1, TypeInit, TypeStep, EditInit, EditInvStep, TypeInvGives, PTL DEF Spec

\* What an editor writes over is what it has itself read or written: no session loses what
\* another one has put into a rules file.
THEOREM NothingEditedIsLost == Spec => []NoEditLost
<1>1. EditInv => NoEditLost
  BY DEF EditInv
<1>q. QED
  BY <1>1, TypeInit, TypeStep, EditInit, EditInvStep, PTL DEF Spec
-----------------------------------------------------------------------------
(* The DNS link and its flags. *)

One(F) == F = {} \/ \E c \in Controls : F = {c}

DnsInv == ~dnsMixed =>
    /\ \A s, t \in Sessions : op[s] \in Controls /\ op[t] \in Controls => s = t
    /\ \A s \in Sessions :
         /\ pc[s] = "link" => link = "none" /\ One(flags[Dns])
         /\ pc[s] = "unflag" => link = op[s] /\ One(flags[Dns])
         /\ pc[s] = "flag" /\ on[s] = Dns => link = op[s] /\ flags[Dns] \subseteq {op[s]}
    /\ (\A s \in Sessions : op[s] \notin Controls) =>
           flags[Dns] = IF link = "none" THEN {} ELSE {link}

\* Where a session is in a command about the link.
LEMMA DnsPlaces ==
  ASSUME TypeInv, NEW s \in Sessions
  PROVE  op[s] \in Controls <=> pc[s] \in {"link", "unflag"} \/ (pc[s] = "flag" /\ on[s] = Dns)
<1>1. Fits(pc[s], op[s], on[s], out[s])
  BY DEF TypeInv, SessionOK
<1>q. QED
  BY <1>1 DEF Fits, Pcs, Controls

\* The other commands.
LEMMA DnsFrame ==
  ASSUME TypeInv, NEW s \in Sessions, Step(s), ~DnsUnlink(s), ~DnsLink(s), ~DnsUnflag(s),
         ~(CtlFlag(s) /\ on[s] = Dns)
  PROVE  /\ op[s] \notin Controls /\ op'[s] \notin Controls
         /\ link' = link /\ flags'[Dns] = flags[Dns] /\ (~dnsMixed' => ~dnsMixed)
<1>t. /\ s \in DOMAIN op /\ DOMAIN flags = Services /\ Dns \in Services
  BY Constants DEF TypeInv, SessionOK, DiskOK
<1>c. "none" \notin Controls /\ {"edit", "enable", "disable", "save", "show"} \cap Controls = {}
  BY DEF Controls
<1>1. CASE CtlCommand(s) \/ Edit(s) \/ Conf(s)
  <2>1. PICK o \in {"edit", "enable", "disable", "save", "show"} : \E d, to : Begin(s, o, d, to)
    BY <1>1 DEF CtlCommand, Edit, Opens, Conf
  <2>2. /\ op' = [op EXCEPT ![s] = o] /\ (dnsMixed' <=> dnsMixed \/ Mixes(o)) /\ pc[s] = "idle"
    BY <2>1 DEF Begin, Idle
  <2>3. ~Mixes(o)
    BY <1>c DEF Mixes
  <2>4. link' = link /\ flags' = flags
    BY <1>1 DEF CtlCommand, Edit, Conf, disk
  <2>5. op[s] \notin Controls
    BY <2>2, DnsPlaces
  <2>6. ~dnsMixed' => ~dnsMixed
    BY <2>2, Zenon
  <2>q. QED
    BY <1>c, <1>t, <2>2, <2>4, <2>5, <2>6
<1>2. CASE CtlFlag(s) \/ EditEnd(s)
  <2>1. /\ op' = [op EXCEPT ![s] = "none"] /\ dnsMixed' = dnsMixed /\ link' = link
        /\ pc[s] = "edit" \/ (pc[s] = "flag" /\ on[s] # Dns)
    BY <1>2 DEF CtlFlag, EditEnd, End, disk
  <2>2. flags'[Dns] = flags[Dns]
    BY <1>2, <1>t DEF CtlFlag, EditEnd, disk
  <2>3. op[s] \notin Controls
    BY <2>1, DnsPlaces
  <2>q. QED
    BY <1>c, <1>t, <2>1, <2>2, <2>3
<1>3. CASE CtlReload(s) \/ AddRule(s)
  <2>1. AtOnce(s) /\ link' = link /\ flags' = flags
    BY <1>3 DEF CtlReload, AddRule, disk
  <2>2. pc[s] = "idle" /\ op' = op /\ dnsMixed' = dnsMixed
    BY <2>1 DEF AtOnce, Idle
  <2>3. op[s] \notin Controls
    BY <2>2, DnsPlaces
  <2>q. QED
    BY <2>1, <2>2, <2>3
<1>4. CASE EditSave(s) \/ ConfCtl(s) \/ SaveMount(s) \/ SaveOpen(s) \/ SaveCopy(s)
  <2>1. /\ pc[s] \in {"edit", "conf", "mount", "open", "copy"} /\ op' = op /\ dnsMixed' = dnsMixed
        /\ link' = link /\ flags' = flags
    BY <1>4 DEF EditSave, ConfCtl, SaveMount, SaveOpen, SaveCopy, Go, disk, session
  <2>2. op[s] \notin Controls
    BY <2>1, DnsPlaces
  <2>q. QED
    BY <2>1, <2>2
<1>5. CASE Close(s) \/ SaveRemount(s)
  <2>1. /\ pc[s] \in {"close", "remount"} /\ dnsMixed' = dnsMixed
        /\ op' = op \/ op' = [op EXCEPT ![s] = "none"]
        /\ link' = link /\ flags' = flags
    BY <1>5 DEF Close, SaveRemount, End, disk
  <2>2. op[s] \notin Controls
    BY <2>1, DnsPlaces
  <2>q. QED
    BY <1>c, <1>t, <2>1, <2>2
<1>q. QED
  BY <1>1, <1>2, <1>3, <1>4, <1>5 DEF Step

LEMMA DnsInvStep == TypeInv /\ DnsInv /\ [Next]_vars => DnsInv'
<1> SUFFICES ASSUME TypeInv, DnsInv, [Next]_vars PROVE DnsInv'
  OBVIOUS
<1> USE TypeStep
<1>t. /\ DOMAIN op = Sessions /\ DOMAIN pc = Sessions /\ DOMAIN on = Sessions
      /\ DOMAIN flags = Services /\ Dns \in Services /\ flags[Dns] \subseteq Controls
  BY Constants DEF TypeInv, SessionOK, DiskOK, FlagsOf
<1>p. TypeInv'
  OBVIOUS
<1>1. CASE UNCHANGED vars
  BY <1>1 DEF vars, disk, session, DnsInv
<1>2. CASE Reboot
  <2>1. /\ \A s \in Sessions : op'[s] = "none" /\ pc'[s] = "idle"
        /\ flags'[Dns] = {} /\ link' = "none"
    BY <1>2, <1>t DEF Reboot, Reset
  <2>q. QED
    BY <2>1 DEF DnsInv, Controls
<1>3. CASE Boot
  <2>1. /\ UNCHANGED <<pc, op, on, dnsMixed>> /\ boot \in 1..Len(nsshconf)
        /\ \A s \in Sessions : pc[s] = "idle"
    BY <1>3 DEF Boot, session, TypeInv, BootOK
  <2>2. \A s \in Sessions : op[s] = "none" /\ op[s] \notin Controls
    BY <2>1 DEF TypeInv, SessionOK, Fits, Controls
  <2>3. flags[Dns] = (IF link = "none" THEN {} ELSE {link}) =>
            flags'[Dns] = IF link' = "none" THEN {} ELSE {link'}
    <3>1. CASE BootLine
      BY <3>1 DEF BootLine
    <3>2. CASE BootCommand
      <4>1. PICK o, d : o = At[1] /\ d = At[2]
        OBVIOUS
      <4>2. /\ d \in Services /\ o \in {"rules", "enable", "reload"} \cup Controls
            /\ o = "enable" => d \in Daemon
            /\ o \in Controls => d = Dns
        BY <2>1, <3>2, <4>1, AtType DEF BootCommand
      <4>3. /\ flags' = [flags EXCEPT ![d] = CASE o = "enable" -> @ \cup {o}
                                               [] o \in Controls -> (@ \ Opposite(o)) \cup {o}
                                               [] OTHER -> @]
            /\ o \notin Controls => link' = link
            /\ o \in Controls => link' = o
        BY <3>2, <4>1, <4>2 DEF BootCommand, Controls
      <4>4. CASE o \in Controls
        <5>1. flags'[Dns] = (flags[Dns] \ Opposite(o)) \cup {o}
          BY <1>t, <4>2, <4>3, <4>4 DEF Controls
        <5>2. flags'[Dns] = {o} /\ link' = o /\ o # "none"
          BY <1>t, <4>3, <4>4, <5>1 DEF Opposite, Controls
        <5>q. QED
          BY <5>2
      <4>5. CASE o \notin Controls
        <5>1. o = "enable" => d # Dns
          BY <4>2, Constants
        <5>2. flags'[Dns] = flags[Dns]
          BY <1>t, <4>2, <4>3, <4>5, <5>1
        <5>q. QED
          BY <4>3, <4>5, <5>2
      <4>q. QED
        BY <4>4, <4>5
    <3>q. QED
      BY <1>3, <3>1, <3>2 DEF Boot
  <2>q. QED
    BY <2>1, <2>2, <2>3 DEF DnsInv
<1>4. ASSUME NEW s \in Sessions, Step(s) PROVE DnsInv'
  <2> SUFFICES ASSUME ~dnsMixed'
               PROVE  /\ \A t, u \in Sessions : op'[t] \in Controls /\ op'[u] \in Controls => t = u
                      /\ \A t \in Sessions :
                           /\ pc'[t] = "link" => link' = "none" /\ One(flags[Dns])'
                           /\ pc'[t] = "unflag" => link' = op'[t] /\ One(flags[Dns])'
                           /\ pc'[t] = "flag" /\ on'[t] = Dns => link' = op'[t] /\ flags'[Dns] \subseteq {op'[t]}
                      /\ (\A t \in Sessions : op'[t] \notin Controls) =>
                           flags'[Dns] = IF link' = "none" THEN {} ELSE {link'}
    BY DEF DnsInv
  <2> DEFINE Goal == /\ \A t, u \in Sessions : op'[t] \in Controls /\ op'[u] \in Controls => t = u
                     /\ \A t \in Sessions :
                          /\ pc'[t] = "link" => link' = "none" /\ One(flags[Dns])'
                          /\ pc'[t] = "unflag" => link' = op'[t] /\ One(flags[Dns])'
                          /\ pc'[t] = "flag" /\ on'[t] = Dns => link' = op'[t] /\ flags'[Dns] \subseteq {op'[t]}
                     /\ (\A t \in Sessions : op'[t] \notin Controls) =>
                          flags'[Dns] = IF link' = "none" THEN {} ELSE {link'}
  <2>o. \A t \in Sessions \ {s} : /\ pc'[t] = pc[t] \/ (pc[t] = "copy" /\ pc'[t] = "remount")
                                  /\ op'[t] = op[t] /\ on'[t] = on[t]
    BY <1>4, OnlyStep
  <2>p. \A t \in Sessions : op'[t] \in Controls <=>
           pc'[t] \in {"link", "unflag"} \/ (pc'[t] = "flag" /\ on'[t] = Dns)
    BY <1>p DEF TypeInv, SessionOK, Fits, Pcs, Controls
  <2>s. ASSUME ~dnsMixed
        PROVE  /\ \A t, u \in Sessions : op[t] \in Controls /\ op[u] \in Controls => t = u
               /\ \A t \in Sessions :
                    /\ pc[t] = "link" => link = "none" /\ One(flags[Dns])
                    /\ pc[t] = "unflag" => link = op[t] /\ One(flags[Dns])
                    /\ pc[t] = "flag" /\ on[t] = Dns => link = op[t] /\ flags[Dns] \subseteq {op[t]}
               /\ (\A t \in Sessions : op[t] \notin Controls) =>
                    flags[Dns] = IF link = "none" THEN {} ELSE {link}
    BY <2>s DEF DnsInv
  \* In its command about the link the session is alone.
  <2>a. ASSUME ~dnsMixed, op[s] \in Controls
        PROVE  \A t \in Sessions \ {s} : op'[t] \notin Controls
    BY <2>a, <2>o, <2>s
  <2>1. CASE DnsUnlink(s)
    <3>1. PICK o \in Controls : Begin(s, o, Dns, "link")
      BY <2>1 DEF DnsUnlink
    <3>2. /\ op' = [op EXCEPT ![s] = o] /\ pc' = [pc EXCEPT ![s] = "link"]
          /\ (dnsMixed' <=> dnsMixed \/ Mixes(o))
          /\ link' = "none" /\ flags' = flags
      BY <2>1, <3>1 DEF DnsUnlink, Begin
    <3>3. ~dnsMixed /\ ~Mixes(o)
      BY <3>2, Zenon
    <3>4. \A t \in Sessions : op[t] \notin Controls
      BY <3>1, <3>3 DEF Mixes
    <3>5. flags[Dns] = IF link = "none" THEN {} ELSE {link}
      BY <2>s, <3>3, <3>4
    <3>6. One(flags[Dns])
      BY <3>5 DEF One, TypeInv, DiskOK
    <3>7. op'[s] = o /\ pc'[s] = "link" /\ \A t \in Sessions \ {s} : op'[t] \notin Controls
      BY <1>t, <2>o, <3>2, <3>4
    <3>8. One(flags[Dns])'
      BY <3>2, <3>6 DEF One
    <3>q. QED
      BY <2>p, <3>1, <3>2, <3>7, <3>8
  <2>2. CASE DnsLink(s)
    <3>1. /\ pc[s] = "link" /\ link' = (IF link = "none" THEN op[s] ELSE link)
          /\ pc' = [pc EXCEPT ![s] = "unflag"] /\ UNCHANGED <<op, flags, dnsMixed>>
      BY <2>2 DEF DnsLink, Go
    <3>2. ~dnsMixed
      BY <3>1, Zenon
    <3>3. op[s] \in Controls
      BY <3>1, DnsPlaces
    <3>4. link' = op[s] /\ One(flags[Dns])
      BY <2>s, <3>1, <3>2
    <3>5. One(flags[Dns])'
      BY <3>1, <3>4 DEF One
    <3>6. pc'[s] = "unflag" /\ op'[s] = op[s] /\ \A t \in Sessions \ {s} : op'[t] \notin Controls
      BY <1>t, <2>a, <3>1, <3>2, <3>3
    <3>q. QED
      BY <2>p, <3>3, <3>4, <3>5, <3>6
  <2>3. CASE DnsUnflag(s)
    <3>1. /\ pc[s] = "unflag" /\ flags' = [flags EXCEPT ![Dns] = @ \ Opposite(op[s])]
          /\ pc' = [pc EXCEPT ![s] = "flag"] /\ UNCHANGED <<op, link, dnsMixed>>
      BY <2>3 DEF DnsUnflag, Go
    <3>2. ~dnsMixed
      BY <3>1, Zenon
    <3>3. op[s] \in Controls
      BY <3>1, DnsPlaces
    <3>4. link' = op[s]
      BY <2>s, <3>1, <3>2
    <3>5. flags'[Dns] \subseteq {op[s]}
      BY <1>t, <3>1 DEF Opposite
    <3>6. pc'[s] = "flag" /\ op'[s] = op[s] /\ \A t \in Sessions \ {s} : op'[t] \notin Controls
      BY <1>t, <2>a, <3>1, <3>2, <3>3
    <3>q. QED
      BY <2>p, <3>3, <3>4, <3>5, <3>6
  <2>4. CASE CtlFlag(s) /\ on[s] = Dns
    <3>1. /\ pc[s] = "flag" /\ flags' = [flags EXCEPT ![Dns] = Flagged(@, op[s])]
          /\ op' = [op EXCEPT ![s] = "none"] /\ UNCHANGED <<link, dnsMixed>>
      BY <2>4 DEF CtlFlag, End
    <3>2. ~dnsMixed
      BY <3>1, Zenon
    <3>3. op[s] \in Controls
      BY <2>4, <3>1, DnsPlaces
    <3>4. link' = op[s] /\ flags[Dns] \subseteq {op[s]}
      BY <2>4, <2>s, <3>1, <3>2
    <3>5. flags'[Dns] = {op[s]} /\ op[s] # "none"
      BY <1>t, <3>1, <3>3, <3>4 DEF Flagged, Controls
    <3>6. \A t \in Sessions : op'[t] \notin Controls
      <4>1. op'[s] = "none" /\ \A t \in Sessions \ {s} : op'[t] \notin Controls
        BY <1>t, <2>a, <3>1, <3>2, <3>3
      <4>q. QED
        BY <4>1 DEF Controls
    <3>q. QED
      BY <2>p, <3>4, <3>5, <3>6
  <2>5. CASE ~DnsUnlink(s) /\ ~DnsLink(s) /\ ~DnsUnflag(s) /\ ~(CtlFlag(s) /\ on[s] = Dns)
    <3>1. /\ op[s] \notin Controls /\ op'[s] \notin Controls
          /\ link' = link /\ flags'[Dns] = flags[Dns] /\ ~dnsMixed
      BY <1>4, <2>5, DnsFrame
    <3>2. \A t \in Sessions : op'[t] \in Controls <=> op[t] \in Controls
      BY <2>o, <3>1
    <3>3. \A t \in Sessions : op'[t] \in Controls => pc'[t] = pc[t] /\ op'[t] = op[t] /\ on'[t] = on[t]
      <4>1. \A t \in Sessions : op[t] \in Controls => pc[t] # "copy"
        BY DnsPlaces
      <4>q. QED
        BY <2>o, <3>1, <3>2, <4>1
    <3>4. One(flags[Dns])' <=> One(flags[Dns])
      BY <3>1 DEF One
    <3>5. /\ \A t, u \in Sessions : op'[t] \in Controls /\ op'[u] \in Controls => t = u
          /\ (\A t \in Sessions : op'[t] \notin Controls) =>
                 flags'[Dns] = IF link' = "none" THEN {} ELSE {link'}
      BY <2>s, <3>1, <3>2
    <3>6. ASSUME NEW t \in Sessions, op'[t] \in Controls
          PROVE  /\ pc'[t] = "link" => link' = "none" /\ One(flags[Dns])'
                 /\ pc'[t] = "unflag" => link' = op'[t] /\ One(flags[Dns])'
                 /\ pc'[t] = "flag" /\ on'[t] = Dns => link' = op'[t] /\ flags'[Dns] \subseteq {op'[t]}
      BY <2>s, <3>1, <3>3, <3>4, <3>6
    <3>q. QED
      BY <2>p, <3>5, <3>6
  <2>q. QED
    BY <2>1, <2>2, <2>3, <2>4, <2>5
<1>q. QED
  BY <1>1, <1>2, <1>3, <1>4 DEF Next

\* The DNS link and the flags it would be set by at a boot agree, unless two commands about it
\* have overlapped.
THEOREM DnsWillAgree == Spec => []DnsAgrees
<1>1. Init => DnsInv
  BY Constants DEF Init, DnsInv, Controls
<1>2. DnsInv => DnsAgrees
  BY DEF DnsInv, DnsAgrees
<1>q. QED
  BY TypeInit, TypeStep, DnsInvStep, <1>1, <1>2, PTL DEF Spec
-----------------------------------------------------------------------------
(* What write-config saves: the sections of the services, one after the other. *)

Sec(k, i) == Section(Daemons[i], k.rules[Daemons[i]], k.flags[Daemons[i]])

\* In the text stand the sections of the first m services, each from behind its place on.
Laid(text, at, k, m) ==
    /\ at \in [1..(m + 1) -> Nat] /\ at[1] = 0 /\ at[m + 1] = Len(text)
    /\ \A i \in 1..m : /\ at[i + 1] = at[i] + Len(Sec(k, i))
                       /\ \A j \in 1..Len(Sec(k, i)) : text[at[i] + j] = Sec(k, i)[j]
    /\ \A i, j \in 1..(m + 1) : i <= j => at[i] <= at[j]
    /\ \A e \in 1..Len(text) : \E i \in 1..m : at[i] < e /\ e <= at[i + 1]

HasText(text, k, m) == \E at : Laid(text, at, k, m)

Good(k) == k \in Keeps /\ \A d \in Services : k.flags[d] \subseteq FlagsOf(d)

LEMMA SecType ==
  ASSUME NEW k, Good(k), NEW i \in DOMAIN Daemons
  PROVE  Sec(k, i) \in Seq(Entry)
<1>1. Daemons[i] \in Services
  BY Constants
<1>2. k.rules[Daemons[i]] \in File \cup {NoFile} /\ k.flags[Daemons[i]] \in SUBSET FlagsOf(Daemons[i])
  BY <1>1 DEF Good, Keeps
<1>q. QED
  BY <1>1, <1>2, SectionType DEF Sec

LEMMA LaidNone == ASSUME NEW k PROVE HasText(<<>>, k, 0)
<1>1. Laid(<<>>, [i \in 1..1 |-> 0], k, 0)
  BY DEF Laid
<1>q. QED
  BY <1>1 DEF HasText

LEMMA LaidMore ==
  ASSUME NEW k, Good(k), NEW m \in Nat, m < Len(Daemons), NEW text \in Seq(Entry), HasText(text, k, m)
  PROVE  HasText(text \o Sec(k, m + 1), k, m + 1)
<1>0. \A i \in 1..(m + 1) : Sec(k, i) \in Seq(Entry) /\ Len(Sec(k, i)) \in Nat
  <2> SUFFICES ASSUME NEW i \in 1..(m + 1) PROVE Sec(k, i) \in Seq(Entry) /\ Len(Sec(k, i)) \in Nat
    OBVIOUS
  <2>1. Sec(k, i) \in Seq(Entry)
    BY SecType, Constants
  <2>q. QED
    BY <2>1
<1>1. PICK at : Laid(text, at, k, m)
  BY DEF HasText
<1>2. PICK sec \in Seq(Entry) : sec = Sec(k, m + 1)
  BY <1>0
<1>3. PICK new \in Seq(Entry) : new = text \o sec
  <2>1. text \o sec \in Seq(Entry)
    OBVIOUS
  <2>q. QED
    BY <2>1
<1>4. /\ Len(new) = Len(text) + Len(sec) /\ Len(text) \in Nat /\ Len(sec) \in Nat
      /\ \A j \in 1..Len(text) : new[j] = text[j]
      /\ \A j \in 1..Len(sec) : new[Len(text) + j] = sec[j]
  BY <1>3
<1>5. PICK at2 : at2 = [i \in 1..(m + 2) |-> IF i = m + 2 THEN Len(new) ELSE at[i]]
  OBVIOUS
<1>6. /\ at \in [1..(m + 1) -> Nat] /\ at[1] = 0 /\ at[m + 1] = Len(text)
      /\ \A i, j \in 1..(m + 1) : i <= j => at[i] <= at[j]
  BY <1>1 DEF Laid
<1>7. /\ \A i \in 1..(m + 1) : at2[i] = at[i] /\ at2[i] \in Nat /\ at2[i] <= Len(text)
      /\ at2[m + 2] = Len(new)
      /\ at2 \in [1..(m + 2) -> Nat]
  <2>1. \A i \in 1..(m + 1) : at2[i] = at[i]
    BY <1>5
  <2>2. \A i \in 1..(m + 1) : at[i] \in Nat /\ at[i] <= Len(text)
    BY <1>6
  <2>3. at2[m + 2] = Len(new) /\ Len(new) \in Nat
    BY <1>4, <1>5
  <2>4. at2 \in [1..(m + 2) -> Nat]
    BY <1>4, <1>5, <2>2
  <2>q. QED
    BY <2>1, <2>2, <2>3, <2>4
<1>8. ASSUME NEW i \in 1..(m + 1)
      PROVE  /\ at2[i + 1] = at2[i] + Len(Sec(k, i))
             /\ \A j \in 1..Len(Sec(k, i)) : new[at2[i] + j] = Sec(k, i)[j]
  <2>1. CASE i = m + 1
    <3>1. at2[i + 1] = Len(new) /\ at2[i] = Len(text) /\ Sec(k, i) = sec
      BY <1>2, <1>6, <1>7, <2>1
    <3>q. QED
      BY <1>4, <3>1
  <2>2. CASE i # m + 1
    <3>1. i \in 1..m /\ i \in 1..(m + 1) /\ i + 1 \in 1..(m + 1)
      BY <2>2
    <3>2. /\ at[i + 1] = at[i] + Len(Sec(k, i))
          /\ \A j \in 1..Len(Sec(k, i)) : text[at[i] + j] = Sec(k, i)[j]
      BY <1>1, <3>1 DEF Laid
    <3>3. at2[i] = at[i] /\ at2[i + 1] = at[i + 1] /\ at[i + 1] <= Len(text) /\ at[i] \in Nat
      BY <1>7, <3>1
    <3>4. ASSUME NEW j \in 1..Len(Sec(k, i)) PROVE new[at2[i] + j] = Sec(k, i)[j]
      <4>1. PICK len : len = Len(Sec(k, i))
        OBVIOUS
      <4>2. at[i + 1] \in Nat
        BY <1>6, <3>1
      <4>3. len \in Nat /\ at[i + 1] = at[i] + len /\ j \in 1..len
        BY <1>0, <3>2, <4>1
      <4>4. at[i] + j \in 1..Len(text)
        <5>1. PICK a \in Nat, b \in Nat : a = at[i] /\ b = at[i + 1]
          BY <3>3, <4>2
        <5>2. j \in Nat /\ 1 <= j /\ j <= len /\ b = a + len /\ b <= Len(text)
          BY <3>3, <4>3, <5>1
        <5>3. a + j \in Nat /\ 1 <= a + j /\ a + j <= Len(text)
          BY <4>3, <5>2, <1>4
        <5>q. QED
          BY <1>4, <5>1, <5>3
      <4>q. QED
        BY <1>4, <3>2, <3>3, <4>4
    <3>q. QED
      BY <3>2, <3>3, <3>4
  <2>q. QED
    BY <2>1, <2>2
<1>9. \A i, j \in 1..(m + 2) : i <= j => at2[i] <= at2[j]
  <2> SUFFICES ASSUME NEW i \in 1..(m + 2), NEW j \in 1..(m + 2), i <= j PROVE at2[i] <= at2[j]
    OBVIOUS
  <2>1. CASE j = m + 2
    <3>1. Len(text) <= Len(new) /\ Len(new) \in Nat
      BY <1>4
    <3>2. i = m + 2 \/ i \in 1..(m + 1)
      OBVIOUS
    <3>3. at2[i] <= Len(new)
      <4>1. CASE i = m + 2
        BY <1>7, <3>1, <4>1
      <4>2. CASE i \in 1..(m + 1)
        <5>1. at2[i] \in Nat /\ at2[i] <= Len(text)
          BY <1>7, <4>2
        <5>q. QED
          BY <1>4, <3>1, <5>1
      <4>q. QED
        BY <3>2, <4>1, <4>2
    <3>q. QED
      BY <1>7, <2>1, <3>3
  <2>2. CASE j # m + 2
    BY <1>6, <1>7, <2>2
  <2>q. QED
    BY <2>1, <2>2
<1>10. ASSUME NEW e \in 1..Len(new) PROVE \E i \in 1..(m + 1) : at2[i] < e /\ e <= at2[i + 1]
  <2>1. CASE e <= Len(text)
    <3>1. PICK i \in 1..m : at[i] < e /\ e <= at[i + 1]
      BY <1>1, <1>4, <2>1 DEF Laid
    <3>q. QED
      BY <1>7, <3>1
  <2>2. CASE e > Len(text)
    BY <1>4, <1>6, <1>7, <2>2
  <2>q. QED
    BY <1>4, <2>1, <2>2
<1>11. (m + 1) + 1 = m + 2 /\ at2[1] = 0
  BY <1>6, <1>7
<1>12. Laid(new, at2, k, m + 1)
  BY <1>7, <1>8, <1>9, <1>10, <1>11 DEF Laid
<1>q. QED
  BY <1>2, <1>3, <1>12 DEF HasText

Files == [rules |-> rules, flags |-> flags]

\* How far a session has got with its save, if nothing goes on beside it.
Saving(s) ==
    /\ \A t \in Sessions \ {s} : pc[t] = "idle"
    /\ pc[s] \in {"conf", "close"} => nsshrc = <<>>
    /\ pc[s] = "conf" => \A i \in DOMAIN Daemons : Daemons[i] = on[s] => HasText(out[s], Files, i - 1)
    /\ pc[s] = "close" => HasText(out[s], Files, Len(Daemons))
    /\ pc[s] \in {"mount", "open", "copy"} => HasText(nsshrc, Files, Len(Daemons))
    /\ pc[s] = "open" => mnt = "rw"
    /\ pc[s] = "copy" => nsshconf = <<>>

QuietInv == \A s \in Sessions : quiet[s] /\ pc[s] # "idle" => Saving(s)

LEMMA GoodFiles == ASSUME DiskOK PROVE Good(Files)
BY DEF DiskOK, Good, Keeps, Files

\* Another session's step makes a command loud; and so does its own, if it is not alone.
LEMMA QuietOthers ==
  ASSUME TypeInv, QuietInv, NEW s \in Sessions, Step(s), NEW t \in Sessions,
         quiet'[t], pc'[t] # "idle"
  PROVE  /\ t = s /\ \A u \in Sessions \ {s} : pc'[u] = "idle"
         /\ pc[s] = "idle" \/ (quiet[s] /\ Saving(s))
<1>t. /\ DOMAIN pc = Sessions /\ DOMAIN quiet = Sessions
  BY DEF TypeInv, SessionOK
<1>o. \A u \in Sessions \ {s} : pc'[u] = pc[u] \/ (pc[u] = "copy" /\ pc'[u] = "remount")
  BY OnlyStep
\* Once it has begun, it is quiet as long as it was.
<1>g. ASSUME pc[s] # "idle",
             quiet' = quiet \/ (quiet' = [quiet EXCEPT ![s] = TRUE] /\ pc'[s] = "idle")
      PROVE  t = s /\ (\A u \in Sessions \ {s} : pc'[u] = "idle") /\ quiet[s] /\ Saving(s)
  <2>1. quiet[t]
    <3>1. CASE quiet' = quiet
      BY <3>1, Zenon
    <3>2. CASE quiet' = [quiet EXCEPT ![s] = TRUE] /\ pc'[s] = "idle"
      <4>1. t # s
        BY <3>2
      <4>q. QED
        BY <1>t, <3>2, <4>1, Zenon
    <3>q. QED
      BY <1>g, <3>1, <3>2
  <2>2. t = s
    <3> SUFFICES ASSUME t # s PROVE FALSE
      OBVIOUS
    <3>1. pc[t] # "idle"
      BY <1>o
    <3>2. Saving(t)
      BY <2>1, <3>1, Zenon DEF QuietInv
    <3>q. QED
      BY <1>g, <3>2 DEF Saving
  <2>3. Saving(s)
    BY <1>g, <2>1, <2>2, Zenon DEF QuietInv
  <2>4. \A u \in Sessions \ {s} : pc'[u] = "idle"
    BY <1>o, <2>3 DEF Saving
  <2>q. QED
    BY <2>1, <2>2, <2>3, <2>4
<1>1. CASE CtlCommand(s) \/ DnsUnlink(s) \/ Edit(s) \/ Conf(s)
  <2>1. PICK o, d, to : Begin(s, o, d, to)
    BY <1>1 DEF CtlCommand, DnsUnlink, Edit, Opens, Conf
  <2>2. quiet'[t] <=> IF t = s THEN \A u \in Sessions \ {s} : pc[u] = "idle" ELSE pc[t] = "idle"
    BY <2>1, Zenon DEF Begin, Idle
  <2>3. t = s
    BY <1>t, <2>1, <2>2 DEF Begin
  <2>4. \A u \in Sessions \ {s} : pc'[u] = "idle"
    BY <1>o, <2>2, <2>3
  <2>q. QED
    BY <2>1, <2>3, <2>4 DEF Begin, Idle
<1>2. CASE CtlReload(s) \/ AddRule(s)
  <2>1. AtOnce(s)
    BY <1>2 DEF CtlReload, AddRule
  <2>2. quiet'[t] <=> pc[t] = "idle"
    BY <2>1, Zenon DEF AtOnce, Idle
  <2>q. QED
    BY <2>1, <2>2 DEF AtOnce
<1>3. CASE \/ CtlFlag(s) \/ DnsLink(s) \/ DnsUnflag(s) \/ EditSave(s) \/ EditEnd(s) \/ ConfCtl(s)
           \/ Close(s) \/ SaveMount(s) \/ SaveOpen(s) \/ SaveCopy(s) \/ SaveRemount(s)
  <2>1. pc[s] # "idle"
    BY <1>3 DEF CtlFlag, DnsLink, DnsUnflag, EditSave, EditEnd, ConfCtl, Close, SaveMount, SaveOpen,
                SaveCopy, SaveRemount
  <2>2. quiet' = quiet \/ (quiet' = [quiet EXCEPT ![s] = TRUE] /\ pc'[s] = "idle")
    <3>1. CASE CtlFlag(s) \/ EditEnd(s) \/ Close(s)
      BY <1>t, <3>1 DEF CtlFlag, EditEnd, Close, End
    <3>2. CASE SaveRemount(s)
      BY <1>t, <3>2 DEF SaveRemount, Interrupt
    <3>3. CASE \/ DnsLink(s) \/ DnsUnflag(s) \/ EditSave(s) \/ ConfCtl(s) \/ SaveMount(s)
               \/ SaveOpen(s) \/ SaveCopy(s)
      BY <3>3 DEF DnsLink, DnsUnflag, EditSave, ConfCtl, SaveMount, SaveOpen, SaveCopy, Go, session
    <3>q. QED
      BY <1>3, <3>1, <3>2, <3>3
  <2>q. QED
    BY <1>g, <2>1, <2>2
<1>q. QED
  BY <1>1, <1>2, <1>3 DEF Step

LEMMA QuietStep == TypeInv /\ QuietInv /\ [Next]_vars => QuietInv'
<1> SUFFICES ASSUME TypeInv, QuietInv, [Next]_vars,
                    NEW s \in Sessions, quiet'[s], pc'[s] # "idle"
             PROVE  Saving(s)'
  BY DEF QuietInv
<1>t. /\ DOMAIN pc = Sessions /\ DOMAIN on = Sessions /\ DOMAIN out = Sessions
  BY DEF TypeInv, SessionOK
<1>1. CASE UNCHANGED vars
  <2>1. UNCHANGED <<disk, flash, session>>
    BY <1>1 DEF vars
  <2>2. quiet[s] /\ pc[s] # "idle"
    BY <2>1, Zenon DEF session
  <2>3. Saving(s)
    BY <2>2, Zenon DEF QuietInv
  <2>4. Files' = Files
    BY <2>1 DEF Files, disk
  <2>q. QED
    BY <2>1, <2>3, <2>4 DEF Saving, HasText, flash, session
<1>2. CASE Boot \/ Reboot
  <2>1. CASE Boot
    BY <2>1 DEF Boot, session, TypeInv, BootOK
  <2>2. CASE Reboot
    BY <2>2 DEF Reboot, Reset
  <2>q. QED
    BY <1>2, <2>1, <2>2
<1>3. ASSUME NEW t \in Sessions, Step(t) PROVE Saving(s)'
  <2>1. /\ s = t /\ \A u \in Sessions \ {s} : pc'[u] = "idle"
        /\ pc[s] = "idle" \/ Saving(s)
    BY <1>3, QuietOthers
  <2>2. Step(s)
    BY <1>3, <2>1
  <2>3. CASE pc'[s] \notin {"conf", "close", "mount", "open", "copy"}
    BY <2>1, <2>3 DEF Saving
  <2>4. CASE Conf(s)
    <3>1. PICK o \in {"save", "show"} : Begin(s, o, Daemons[1], "conf")
      BY <2>4 DEF Conf
    <3>2. nsshrc' = <<>> /\ pc'[s] = "conf" /\ on'[s] = Daemons[1] /\ out' = out /\ pc[s] = "idle"
      BY <1>t, <2>4, <3>1 DEF Conf, Begin, Idle
    <3>3. out'[s] = <<>>
      BY <3>2 DEF TypeInv, SessionOK, Fits
    <3>4. HasText(<<>>, Files', 0)
      BY LaidNone
    <3>5. \A i \in DOMAIN Daemons : Daemons[i] = on'[s] => i - 1 = 0
      BY <3>2, Constants
    <3>6. \A i \in DOMAIN Daemons : Daemons[i] = on'[s] => HasText(out'[s], Files', i - 1)
      BY <3>3, <3>4, <3>5
    <3>q. QED
      BY <2>1, <3>2, <3>6 DEF Saving, HasText
  <2>5. CASE ConfCtl(s)
    <3>1. pc[s] = "conf" /\ UNCHANGED <<disk, flash>> /\ Saving(s)
      BY <2>1, <2>5 DEF ConfCtl
    <3>2. on[s] \in Services
      BY <3>1 DEF TypeInv, SessionOK, Fits
    <3>3. PICK i \in DOMAIN Daemons :
              /\ Daemons[i] = on[s]
              /\ on' = [on EXCEPT ![s] = IF i = Len(Daemons) THEN NoDaemon ELSE Daemons[i + 1]]
              /\ pc' = [pc EXCEPT ![s] = IF i = Len(Daemons) THEN "close" ELSE "conf"]
      <4>1. \E i \in DOMAIN Daemons : Daemons[i] = on[s]
        BY <3>2, Constants
      <4>q. QED
        BY <2>5, <4>1 DEF ConfCtl
    <3>4. out'[s] = out[s] \o Sec(Files, i)
      BY <1>t, <2>5, <3>3 DEF ConfCtl, Sec, Files
    <3>5. HasText(out[s], Files, i - 1) /\ out[s] \in Seq(Entry)
      BY <3>1, <3>3 DEF Saving, TypeInv, SessionOK
    <3>6. PICK m \in Nat : m = i - 1 /\ m + 1 = i /\ m < Len(Daemons)
      BY Constants
    <3>7. HasText(out'[s], Files, i)
      <4>1. HasText(out[s] \o Sec(Files, m + 1), Files, m + 1)
        BY <3>5, <3>6, GoodFiles, LaidMore DEF TypeInv
      <4>q. QED
        BY <3>4, <3>6, <4>1
    <3>8. Files' = Files /\ nsshrc' = <<>>
      BY <3>1 DEF Files, disk, flash, Saving
    <3>9. CASE i = Len(Daemons)
      <4>1. pc'[s] = "close"
        BY <1>t, <3>3, <3>9
      <4>2. HasText(out'[s], Files', Len(Daemons))
        BY <3>7, <3>8, <3>9
      <4>q. QED
        BY <2>1, <3>8, <4>1, <4>2 DEF Saving, HasText
    <3>10. CASE i # Len(Daemons)
      <4>1. pc'[s] = "conf" /\ on'[s] = Daemons[i + 1] /\ i + 1 \in DOMAIN Daemons
        BY <1>t, <3>3, <3>10, Constants
      <4>2. \A j \in DOMAIN Daemons : Daemons[j] = on'[s] => j - 1 = i
        BY <4>1, Constants
      <4>3. \A j \in DOMAIN Daemons : Daemons[j] = on'[s] => HasText(out'[s], Files', j - 1)
        BY <3>7, <3>8, <4>2
      <4>q. QED
        BY <2>1, <3>8, <4>1, <4>3 DEF Saving, HasText
    <3>q. QED
      BY <3>9, <3>10
  <2>6. CASE Close(s)
    <3>1. /\ pc[s] = "close" /\ nsshrc' = Over(out[s], nsshrc) /\ UNCHANGED <<disk, service, nsshconf, mnt, kept>>
          /\ Saving(s)
      BY <2>1, <2>6 DEF Close
    <3>2. pc'[s] = "mount"
      <4>1. op[s] = "show" => pc'[s] = "idle"
        BY <1>t, <2>6 DEF Close, End
      <4>q. QED
        BY <1>t, <2>6, <4>1 DEF Close
    <3>3. nsshrc = <<>> /\ HasText(out[s], Files, Len(Daemons)) /\ out[s] \in Seq(Entry) /\ nsshrc \in Seq(Entry)
      BY <3>1 DEF Saving, TypeInv, SessionOK, FlashOK
    <3>4. nsshrc' = out[s] /\ Files' = Files
      BY <3>1, <3>3, OverType DEF Files, disk
    <3>5. HasText(nsshrc', Files', Len(Daemons))
      BY <3>3, <3>4
    <3>q. QED
      BY <2>1, <3>2, <3>5 DEF Saving, HasText
  <2>7. CASE SaveMount(s) \/ SaveOpen(s)
    <3>1. /\ pc[s] \in {"mount", "open"} /\ UNCHANGED <<disk, nsshrc>> /\ Saving(s)
      BY <2>1, <2>7 DEF SaveMount, SaveOpen
    <3>2. HasText(nsshrc', Files', Len(Daemons))
      <4>1. Files' = Files /\ nsshrc' = nsshrc
        BY <3>1 DEF Files, disk
      <4>q. QED
        BY <3>1, <4>1 DEF Saving
    <3>3. CASE SaveMount(s)
      <4>1. pc'[s] = "open" /\ mnt' = "rw"
        BY <3>3 DEF SaveMount, Interrupt
      <4>q. QED
        BY <2>1, <3>2, <4>1 DEF Saving, HasText
    <3>4. CASE SaveOpen(s)
      <4>1. pc[s] = "open" /\ mnt = "rw"
        BY <3>1, <3>4 DEF SaveOpen, Saving
      <4>2. pc'[s] = "copy" /\ nsshconf' = <<>>
        BY <1>t, <3>4, <4>1 DEF SaveOpen, Go
      <4>q. QED
        BY <2>1, <3>2, <4>2 DEF Saving, HasText
    <3>q. QED
      BY <2>7, <3>3, <3>4
  <2>8. CASE ~(Conf(s) \/ ConfCtl(s) \/ Close(s) \/ SaveMount(s) \/ SaveOpen(s))
    <3>1. pc'[s] \notin {"conf", "close", "mount", "open", "copy"}
      <4>1. CASE CtlCommand(s) \/ DnsUnlink(s) \/ Edit(s)
        <5>1. \E o, d, to : Begin(s, o, d, to) /\ to \in {"flag", "link", "edit"}
          BY <4>1 DEF CtlCommand, DnsUnlink, Edit, Opens
        <5>q. QED
          BY <1>t, <5>1 DEF Begin
      <4>2. CASE CtlFlag(s) \/ EditEnd(s)
        BY <1>t, <4>2 DEF CtlFlag, EditEnd, End
      <4>3. CASE CtlReload(s) \/ AddRule(s)
        <5>1. AtOnce(s)
          BY <4>3 DEF CtlReload, AddRule
        <5>q. QED
          BY <5>1 DEF AtOnce, Idle
      <4>4. CASE DnsLink(s) \/ DnsUnflag(s) \/ SaveCopy(s)
        BY <1>t, <4>4 DEF DnsLink, DnsUnflag, SaveCopy, Go
      <4>5. CASE EditSave(s) \/ SaveRemount(s)
        BY <1>t, <4>5 DEF EditSave, SaveRemount, Interrupt, session
      <4>q. QED
        BY <2>2, <2>8, <4>1, <4>2, <4>3, <4>4, <4>5 DEF Step
    <3>q. QED
      BY <2>3, <3>1
  <2>q. QED
    BY <2>4, <2>5, <2>6, <2>7, <2>8
<1>q. QED
  BY <1>1, <1>2, <1>3 DEF Next
-----------------------------------------------------------------------------
(* What a section says. *)

\* The lines that the rules take.
Length(f) == IF f = NoFile THEN 0 ELSE Len(f.lines) + 1

LEMMA WithCommand ==
  ASSUME NEW text \in Seq(Entry), NEW c \in Entry
  PROVE  /\ text \o <<c>> \in Seq(Entry) /\ Len(text \o <<c>>) = Len(text) + 1
         /\ Len(text) + 1 \in Nat /\ (text \o <<c>>)[Len(text) + 1] = c
         /\ \A j \in 1..Len(text) : (text \o <<c>>)[j] = text[j]
OBVIOUS

LEMMA RulesShape ==
  ASSUME NEW d \in Services, NEW f \in File \cup {NoFile}
  PROVE  /\ Len(RulesOf(d, f)) = Length(f) /\ Length(f) \in Nat
         /\ f # NoFile => RulesOf(d, f)[1] = <<"rules", d>>
         /\ \A j \in 2..Length(f) : RulesOf(d, f)[j] = Printed(f)[j - 1]
<1>1. CASE f = NoFile
  BY <1>1 DEF RulesOf, Length
<1>2. CASE f # NoFile
  <2>1. RulesOf(d, f) \in Seq(Entry)
    BY RulesType
  <2>2. Printed(f) \in Seq(Entry) /\ Len(Printed(f)) = Len(f.lines) /\ Len(f.lines) \in Nat
    <3>1. f.lines \in Seq(Lines) /\ Spoilt \in Lines
      BY <1>2, NsshAssumption DEF File
    <3>2. \A i \in 1..Len(f.lines) :
            <<"line", IF i = Len(f.lines) /\ ~f.ended THEN Spoilt ELSE f.lines[i]>> \in Entry
      BY <3>1, EntryHas
    <3>3. Printed(f) \in [1..Len(f.lines) -> Entry] /\ Len(f.lines) \in Nat
      BY <3>1, <3>2 DEF Printed
    <3>q. QED
      BY <3>3
  <2>3. PICK p \in Seq(Entry), r \in Entry : p = Printed(f) /\ r = <<"rules", d>>
    BY <2>2, EntryHas
  <2>4. /\ Len(<<r>> \o p) = Len(p) + 1 /\ (<<r>> \o p)[1] = r
        /\ \A j \in 2..(Len(p) + 1) : (<<r>> \o p)[j] = p[j - 1]
    OBVIOUS
  <2>q. QED
    BY <1>2, <2>2, <2>3, <2>4 DEF RulesOf, Length
<1>q. QED
  BY <1>1, <1>2

\* The rules first, and then the commands.
LEMMA SectionShape ==
  ASSUME NEW d \in Services, NEW f \in File \cup {NoFile}, NEW flagged \in SUBSET FlagsOf(d),
         NEW sec, sec = Section(d, f, flagged)
  PROVE  /\ Len(sec) \in Nat /\ Length(f) \in Nat /\ Length(f) <= Len(sec)
         /\ f # NoFile => Length(f) > 0 /\ sec[1] = <<"rules", d>>
         /\ \A j \in 2..Length(f) : sec[j] = Printed(f)[j - 1]
         /\ d # Dns =>
              /\ Len(sec) = Length(f) + (IF "enable" \in flagged THEN 1 ELSE 0)
                                      + (IF f # NoFile /\ d \in Reloads THEN 1 ELSE 0)
              /\ "enable" \in flagged => sec[Length(f) + 1] = <<"enable", d>>
              /\ f # NoFile /\ d \in Reloads => sec[Len(sec)] = <<"reload", d>>
         /\ d = Dns =>
              /\ flagged = {} => Len(sec) = Length(f)
              /\ \A c \in Controls : flagged = {c} => /\ Len(sec) = Length(f) + 1
                                                      /\ sec[Length(f) + 1] = <<c, d>>
              /\ \A j \in (Length(f) + 1)..Len(sec) : \E c \in Controls : sec[j] = <<c, d>>
<1> DEFINE L == Length(f)
<1>a. /\ "enable" \in flagged => d # Dns /\ d \in Daemon
      /\ "local-control" \in flagged => d = Dns
      /\ "dhcp-control" \in flagged => d = Dns
      /\ d \in Reloads => d # Dns
  BY Constants DEF FlagsOf, Daemon, Controls
<1> DEFINE en == "enable" \in flagged
           lo == "local-control" \in flagged
           dh == "dhcp-control" \in flagged
           R == IF f = NoFile THEN {} ELSE Reloads
           re == d \in R
<1>c. /\ en => <<"enable", d>> \in Entry /\ d # Dns
      /\ lo => <<"local-control", d>> \in Entry /\ d = Dns
      /\ dh => <<"dhcp-control", d>> \in Entry /\ d = Dns
      /\ re => <<"reload", d>> \in Entry /\ d # Dns
  BY <1>a, EntryHas DEF Controls
<1>0. PICK s0 \in Seq(Entry) : s0 = RulesOf(d, f)
  BY RulesType
<1>1. /\ Len(s0) = L /\ L \in Nat /\ (f # NoFile => L > 0 /\ s0[1] = <<"rules", d>>)
      /\ \A j \in 2..L : s0[j] = Printed(f)[j - 1]
  <2>1. f # NoFile => L > 0
    BY DEF Length, File
  <2>q. QED
    BY <1>0, <2>1, RulesShape
<1> HIDE DEF L
<1>2. PICK s1 \in Seq(Entry) :
                /\ Len(s1) \in Nat
                /\ s1 = s0 \o Command("enable", d, en)
                /\ en => Len(s1) = Len(s0) + 1 /\ s1[Len(s0) + 1] = <<"enable", d>>
                /\ ~en => s1 = s0
                /\ \A j \in 1..Len(s0) : s1[j] = s0[j]
  <2>1. PICK more : more = s0 \o Command("enable", d, en)
    OBVIOUS
  <2>2. /\ "enable" \in flagged => <<"enable", d>> \in Entry /\ more = s0 \o <<<<"enable", d>>>>
        /\ "enable" \notin flagged => more = s0
    <3>1. s0 \o <<>> = s0
      OBVIOUS
    <3>q. QED
      BY <1>c, <2>1, <3>1 DEF Command
  <2>3. /\ more \in Seq(Entry) /\ Len(s0) \in Nat /\ Len(more) \in Nat
        /\ en => Len(more) = Len(s0) + 1 /\ more[Len(s0) + 1] = <<"enable", d>>
        /\ ~en => more = s0
        /\ \A j \in 1..Len(s0) : more[j] = s0[j]
    <3>0. Len(s0) \in Nat
      OBVIOUS
    <3>1. CASE en
      <4>1. PICK c \in Entry : c = <<"enable", d>>
        BY <2>2, <3>1
      <4>2. more = s0 \o <<c>>
        BY <2>2, <3>1, <4>1
      <4>q. QED
        BY <3>0, <3>1, <4>1, <4>2, WithCommand, Zenon
    <3>2. CASE ~en
      BY <2>2, <3>0, <3>2, Zenon
    <3>q. QED
      BY <3>1, <3>2, Zenon
  <2>q. QED
    BY <2>1, <2>3, Zenon
<1>3. PICK s2 \in Seq(Entry) :
                /\ Len(s2) \in Nat
                /\ s2 = s1 \o Command("local-control", d, lo)
                /\ lo => Len(s2) = Len(s1) + 1 /\ s2[Len(s1) + 1] = <<"local-control", d>>
                /\ ~lo => s2 = s1
                /\ \A j \in 1..Len(s1) : s2[j] = s1[j]
  <2>1. PICK more : more = s1 \o Command("local-control", d, lo)
    OBVIOUS
  <2>2. /\ "local-control" \in flagged => <<"local-control", d>> \in Entry /\ more = s1 \o <<<<"local-control", d>>>>
        /\ "local-control" \notin flagged => more = s1
    <3>1. s1 \o <<>> = s1
      OBVIOUS
    <3>q. QED
      BY <1>c, <2>1, <3>1 DEF Command
  <2>3. /\ more \in Seq(Entry) /\ Len(s1) \in Nat /\ Len(more) \in Nat
        /\ lo => Len(more) = Len(s1) + 1 /\ more[Len(s1) + 1] = <<"local-control", d>>
        /\ ~lo => more = s1
        /\ \A j \in 1..Len(s1) : more[j] = s1[j]
    <3>0. Len(s1) \in Nat
      OBVIOUS
    <3>1. CASE lo
      <4>1. PICK c \in Entry : c = <<"local-control", d>>
        BY <2>2, <3>1
      <4>2. more = s1 \o <<c>>
        BY <2>2, <3>1, <4>1
      <4>q. QED
        BY <3>0, <3>1, <4>1, <4>2, WithCommand, Zenon
    <3>2. CASE ~lo
      BY <2>2, <3>0, <3>2, Zenon
    <3>q. QED
      BY <3>1, <3>2, Zenon
  <2>q. QED
    BY <2>1, <2>3, Zenon
<1>4. PICK s3 \in Seq(Entry) :
                /\ Len(s3) \in Nat
                /\ s3 = s2 \o Command("dhcp-control", d, dh)
                /\ dh => Len(s3) = Len(s2) + 1 /\ s3[Len(s2) + 1] = <<"dhcp-control", d>>
                /\ ~dh => s3 = s2
                /\ \A j \in 1..Len(s2) : s3[j] = s2[j]
  <2>1. PICK more : more = s2 \o Command("dhcp-control", d, dh)
    OBVIOUS
  <2>2. /\ "dhcp-control" \in flagged => <<"dhcp-control", d>> \in Entry /\ more = s2 \o <<<<"dhcp-control", d>>>>
        /\ "dhcp-control" \notin flagged => more = s2
    <3>1. s2 \o <<>> = s2
      OBVIOUS
    <3>q. QED
      BY <1>c, <2>1, <3>1 DEF Command
  <2>3. /\ more \in Seq(Entry) /\ Len(s2) \in Nat /\ Len(more) \in Nat
        /\ dh => Len(more) = Len(s2) + 1 /\ more[Len(s2) + 1] = <<"dhcp-control", d>>
        /\ ~dh => more = s2
        /\ \A j \in 1..Len(s2) : more[j] = s2[j]
    <3>0. Len(s2) \in Nat
      OBVIOUS
    <3>1. CASE dh
      <4>1. PICK c \in Entry : c = <<"dhcp-control", d>>
        BY <2>2, <3>1
      <4>2. more = s2 \o <<c>>
        BY <2>2, <3>1, <4>1
      <4>q. QED
        BY <3>0, <3>1, <4>1, <4>2, WithCommand, Zenon
    <3>2. CASE ~dh
      BY <2>2, <3>0, <3>2, Zenon
    <3>q. QED
      BY <3>1, <3>2, Zenon
  <2>q. QED
    BY <2>1, <2>3, Zenon
<1>5. PICK s4 \in Seq(Entry) :
                /\ Len(s4) \in Nat
                /\ s4 = s3 \o Command("reload", d, re)
                /\ re => Len(s4) = Len(s3) + 1 /\ s4[Len(s3) + 1] = <<"reload", d>>
                /\ ~re => s4 = s3
                /\ \A j \in 1..Len(s3) : s4[j] = s3[j]
  <2>1. PICK more : more = s3 \o Command("reload", d, re)
    OBVIOUS
  <2>2. /\ d \in R => <<"reload", d>> \in Entry /\ more = s3 \o <<<<"reload", d>>>>
        /\ d \notin R => more = s3
    <3>1. s3 \o <<>> = s3
      OBVIOUS
    <3>q. QED
      BY <1>c, <2>1, <3>1 DEF Command
  <2>3. /\ more \in Seq(Entry) /\ Len(s3) \in Nat /\ Len(more) \in Nat
        /\ re => Len(more) = Len(s3) + 1 /\ more[Len(s3) + 1] = <<"reload", d>>
        /\ ~re => more = s3
        /\ \A j \in 1..Len(s3) : more[j] = s3[j]
    <3>0. Len(s3) \in Nat
      OBVIOUS
    <3>1. CASE re
      <4>1. PICK c \in Entry : c = <<"reload", d>>
        BY <2>2, <3>1
      <4>2. more = s3 \o <<c>>
        BY <2>2, <3>1, <4>1
      <4>q. QED
        BY <3>0, <3>1, <4>1, <4>2, WithCommand, Zenon
    <3>2. CASE ~re
      BY <2>2, <3>0, <3>2, Zenon
    <3>q. QED
      BY <3>1, <3>2, Zenon
  <2>q. QED
    BY <2>1, <2>3, Zenon
<1>6. sec = s4
  <2>1. Command("reload", d, f # NoFile /\ d \in Reloads) = Command("reload", d, re)
    BY DEF Command
  <2>q. QED
    BY <1>0, <1>2, <1>3, <1>4, <1>5, <2>1 DEF Section
<1>7. /\ L <= Len(s1) /\ Len(s1) <= Len(s2) /\ Len(s2) <= Len(s3) /\ Len(s3) <= Len(sec)
      /\ Len(sec) \in Nat
  <2>1. L <= Len(s1) /\ Len(s1) <= Len(s2)
    BY <1>1, <1>2, <1>3
  <2>2. Len(s2) <= Len(s3) /\ Len(s3) <= Len(sec) /\ Len(sec) \in Nat
    BY <1>3, <1>4, <1>5, <1>6
  <2>q. QED
    BY <2>1, <2>2
<1>k. /\ \A j \in 1..Len(s1) : sec[j] = s1[j]
      /\ \A j \in 1..Len(s2) : sec[j] = s2[j]
  <2>1. \A j \in 1..Len(s2) : sec[j] = s2[j]
    BY <1>3, <1>4, <1>5, <1>6, <1>7
  <2>2. \A j \in 1..Len(s1) : s2[j] = s1[j] /\ j \in 1..Len(s2)
    BY <1>2, <1>3, <1>7
  <2>q. QED
    BY <2>1, <2>2
<1>8. \A j \in 1..L : sec[j] = s0[j]
  <2>1. \A j \in 1..Len(s0) : s1[j] = s0[j] /\ j \in 1..Len(s1)
    BY <1>1, <1>2, <1>7
  <2>q. QED
    BY <1>1, <1>k, <2>1
<1>9. /\ f # NoFile => L > 0 /\ sec[1] = <<"rules", d>>
      /\ \A j \in 2..L : sec[j] = Printed(f)[j - 1]
  <2>1. \A j \in 2..L : j \in 1..L
    BY <1>1
  <2>2. L > 0 => 1 \in 1..L
    BY <1>1
  <2>q. QED
    BY <1>1, <1>8, <2>1, <2>2
<1>10. ASSUME d # Dns
       PROVE  /\ Len(sec) = L + (IF en THEN 1 ELSE 0) + (IF re THEN 1 ELSE 0)
              /\ en => sec[L + 1] = <<"enable", d>>
              /\ re => sec[Len(sec)] = <<"reload", d>>
  <2>1. s3 = s1
    BY <1>3, <1>4, <1>c, <1>10
  <2>2. Len(sec) = L + (IF en THEN 1 ELSE 0) + (IF re THEN 1 ELSE 0)
    <3>1. Len(s1) = L + (IF en THEN 1 ELSE 0)
      BY <1>1, <1>2
    <3>2. Len(sec) = Len(s1) + (IF re THEN 1 ELSE 0)
      BY <1>5, <1>6, <2>1
    <3>q. QED
      BY <3>1, <3>2
  <2>3. en => sec[L + 1] = <<"enable", d>>
    <3>1. en => L + 1 \in 1..Len(s1) /\ s1[L + 1] = <<"enable", d>>
      BY <1>1, <1>2
    <3>q. QED
      BY <1>k, <3>1
  <2>4. re => sec[Len(sec)] = <<"reload", d>>
    BY <1>5, <1>6
  <2>q. QED
    BY <2>2, <2>3, <2>4
<1>11. ASSUME d = Dns
       PROVE  /\ flagged = {} => Len(sec) = L
              /\ \A c \in Controls : flagged = {c} => Len(sec) = L + 1 /\ sec[L + 1] = <<c, d>>
              /\ \A j \in (L + 1)..Len(sec) : \E c \in Controls : sec[j] = <<c, d>>
  <2>1. s1 = s0 /\ sec = s3
    BY <1>2, <1>5, <1>6, <1>c, <1>11
  <2>2. lo => sec[L + 1] = <<"local-control", d>>
    <3>1. lo => L + 1 \in 1..Len(s2) /\ s2[L + 1] = <<"local-control", d>>
      BY <1>1, <1>3, <2>1
    <3>q. QED
      BY <1>k, <3>1
  <2>3. dh => sec[Len(sec)] = <<"dhcp-control", d>>
    BY <1>4, <2>1
  <2>4. /\ ~lo /\ ~dh => Len(sec) = L
        /\ (lo /\ ~dh) \/ (~lo /\ dh) => Len(sec) = L + 1
        /\ lo /\ dh => Len(sec) = L + 2
    BY <1>1, <1>3, <1>4, <2>1, SMTT(60)
  <2>5. flagged = {} => ~lo /\ ~dh
    OBVIOUS
  <2>6. \A c \in Controls : flagged = {c} => \/ c = "local-control" /\ lo /\ ~dh
                                             \/ c = "dhcp-control" /\ ~lo /\ dh
    BY DEF Controls
  <2>7. \A j \in (L + 1)..Len(sec) : (lo /\ j = L + 1) \/ (dh /\ j = Len(sec))
    BY <1>1, <1>7, <2>4
  <2>8. {"local-control", "dhcp-control"} = Controls
    BY DEF Controls
  <2>9. \A j \in (L + 1)..Len(sec) : \E c \in Controls : sec[j] = <<c, d>>
    BY <2>2, <2>3, <2>7, <2>8
  <2>q. QED
    BY <2>2, <2>3, <2>4, <2>5, <2>6, <2>9
<1>q. QED
  <2>1. L <= Len(sec)
    BY <1>1, <1>2, <1>3, <1>4, <1>7
  <2>2. d # Dns =>
              /\ Len(sec) = L + (IF "enable" \in flagged THEN 1 ELSE 0)
                                      + (IF f # NoFile /\ d \in Reloads THEN 1 ELSE 0)
              /\ "enable" \in flagged => sec[L + 1] = <<"enable", d>>
              /\ f # NoFile /\ d \in Reloads => sec[Len(sec)] = <<"reload", d>>
    BY <1>10
  <2>q. QED
    BY <1>1, <1>7, <1>9, <1>11, <2>1, <2>2 DEF L
-----------------------------------------------------------------------------
(* How the boot brings a service back, entry by entry of its section. *)

\* The rules file once q entries of the section are done, as far as they are rules.
Restored(f, q) == IF q <= 1 THEN NoFile ELSE [lines |-> SubSeq(f.lines, 1, q - 1), ended |-> TRUE]

RulesAt(d, f, q) == Plain(f) => /\ q <= Length(f) => rules[d] = Restored(f, q)
                                /\ q > Length(f) => rules[d] = f

\* No other service gets its lines.
HandlerAt(d, f, q) == q \in 1..(Length(f) - 1) => /\ handler \in {d, NoDaemon}
                                                  /\ Plain(f) => handler = d

FlagsAt(d, f, fl, q) == /\ q <= Length(f) => flags[d] = {}
                        /\ q > Length(f) => fl = Controls \/ flags[d] = fl

\* What the service runs by is what its file then is, plain or not.
ServiceAt(d, f, fl, q) ==
    /\ q <= Length(f) => d \notin up /\ loaded[d] = NoFile
    /\ q > Length(f) =>
         /\ d \in up <=> "enable" \in fl /\ (d \in Reloads \cup Fileless \/ Accepted(rules[d]))
         /\ d \in Fileless \/
            loaded[d] = IF IF d \in Reloads THEN Accepted(rules[d]) /\ q = Len(Section(d, f, fl))
                           ELSE d \in up
                        THEN rules[d] ELSE NoFile

Brought(d, f, fl, q) == /\ RulesAt(d, f, q) /\ HandlerAt(d, f, q) /\ FlagsAt(d, f, fl, q)
                        /\ d \in Daemon => ServiceAt(d, f, fl, q)

LEMMA RestoredAll ==
  ASSUME NEW f \in File \cup {NoFile}, Plain(f) PROVE Restored(f, Length(f)) = f
<1>1. CASE f = NoFile
  BY <1>1 DEF Restored, Length
<1>2. CASE f # NoFile
  <2>1. /\ f \in File /\ f.lines \in Seq(Lines) /\ f.lines # <<>> /\ f.ended = TRUE
        /\ f = [lines |-> f.lines, ended |-> f.ended]
    BY <1>2 DEF Plain, File
  <2>2. SubSeq(f.lines, 1, Len(f.lines)) = f.lines /\ Len(f.lines) \in Nat \ {0}
    BY <2>1, SubSeqFull
  <2>3. PICK n \in Nat \ {0} : n = Len(f.lines)
    BY <2>2
  <2>4. Length(f) = n + 1 /\ ~(n + 1 <= 1) /\ (n + 1) - 1 = n
    BY <1>2, <2>3 DEF Length
  <2>5. Restored(f, Length(f)) = [lines |-> SubSeq(f.lines, 1, n), ended |-> TRUE]
    BY <2>4 DEF Restored
  <2>q. QED
    BY <2>1, <2>2, <2>3, <2>5
<1>q. QED
  BY <1>1, <1>2

LEMMA WrittenMore ==
  ASSUME NEW f \in File, NEW j \in 2..(Len(f.lines) + 1)
  PROVE  Written(Restored(f, j - 1), f.lines[j - 1], TRUE) = Restored(f, j)
<1>1. PICK ls \in Seq(Lines) : ls = f.lines
  BY DEF File
<1>2. PICK k \in 1..Len(ls) : k = j - 1 /\ j = k + 1
  BY <1>1
<1>3. SubSeq(ls, 1, k) = SubSeq(ls, 1, k - 1) \o <<ls[k]>>
  BY <1>2, SubSeqRecursiveSecond
<1>4. Restored(f, j) = [lines |-> SubSeq(ls, 1, k), ended |-> TRUE]
  BY <1>1, <1>2 DEF Restored
<1>5. CASE k = 1
  <2>1. Restored(f, j - 1) = NoFile
    BY <1>2, <1>5 DEF Restored
  <2>2. SubSeq(ls, 1, k - 1) = <<>>
    BY <1>5, SubSeqEmpty
  <2>3. SubSeq(ls, 1, k) = <<ls[k]>>
    <3>1. PICK x \in Lines : x = ls[k]
      BY <1>2
    <3>2. <<>> \o <<x>> = <<x>>
      OBVIOUS
    <3>q. QED
      BY <1>3, <2>2, <3>1, <3>2
  <2>q. QED
    BY <1>1, <1>2, <1>4, <2>1, <2>3 DEF Written
<1>6. CASE k # 1
  <2>1. PICK m \in Nat : m = k - 1
    BY <1>2
  <2>2. PICK before \in Seq(Lines) : before = SubSeq(ls, 1, m)
    <3>1. SubSeq(ls, 1, m) \in Seq(Lines)
      BY <1>2, <2>1
    <3>q. QED
      BY <3>1
  <2>3. Restored(f, j - 1) = [lines |-> before, ended |-> TRUE]
    <3>1. j - 1 = k /\ ~(k <= 1) /\ k - 1 = m
      BY <1>2, <1>6, <2>1
    <3>2. Restored(f, k) = [lines |-> SubSeq(ls, 1, m), ended |-> TRUE]
      BY <1>1, <3>1, Zenon DEF Restored
    <3>q. QED
      BY <2>2, <3>1, <3>2, Zenon
  <2>4. Restored(f, j - 1) # NoFile
    <3>1. [lines |-> before, ended |-> TRUE] \in [lines : Seq(Lines), ended : BOOLEAN]
      OBVIOUS
    <3>q. QED
      BY <2>3, <3>1, NsshAssumption
  <2>5. PICK x \in Lines : x = ls[k]
    BY <1>2
  <2>6. Append(before, x) = before \o <<x>>
    OBVIOUS
  <2>7. Written(Restored(f, j - 1), x, TRUE) = [lines |-> Append(before, x), ended |-> TRUE]
    <3>1. PICK r : r = [lines |-> before, ended |-> TRUE]
      OBVIOUS
    <3>2. r.lines = before /\ r.ended /\ r # NoFile /\ r = Restored(f, j - 1)
      BY <2>3, <2>4, <3>1
    <3>3. Written(r, x, TRUE) = [lines |-> Append(r.lines, x), ended |-> TRUE]
      BY <3>2, Zenon DEF Written
    <3>q. QED
      BY <3>2, <3>3
  <2>q. QED
    BY <1>1, <1>2, <1>3, <1>4, <2>1, <2>2, <2>5, <2>6, <2>7
<1>q. QED
  BY <1>5, <1>6

\* What one step of the boot does for a command.
LEMMA BootDoes ==
  ASSUME TypeInv, Boot, NEW o, NEW d, At = <<o, d>>, o # "line"
  PROVE  /\ handler' = d /\ rules' = rules
         /\ \A c \in Services \ {d} : flags'[c] = flags[c]
         /\ o = "enable" => flags'[d] = flags[d] \cup {o}
         /\ o \in Controls => flags'[d] = (flags[d] \ Opposite(o)) \cup {o}
         /\ o \in {"rules", "reload"} => flags'[d] = flags[d]
         /\ o = "enable" => Enable(d)
         /\ o = "reload" => Reload(d)
         /\ o \in Controls \cup {"rules"} => UNCHANGED service
<1>1. BootCommand
  BY DEF Boot, BootLine
<1>2. boot \in 1..Len(nsshconf) /\ At[1] = o /\ At[2] = d
  BY DEF Boot
<1>3. d \in Services /\ o \in {"rules", "enable", "reload"} \cup Controls
  BY <1>2, AtType
<1>4. /\ handler' = d /\ rules' = rules
      /\ flags' = [flags EXCEPT ![d] = CASE o = "enable" -> @ \cup {o}
                                         [] o \in Controls -> (@ \ Opposite(o)) \cup {o}
                                         [] OTHER -> @]
  BY <1>1, <1>2 DEF BootCommand
<1>5. "enable" \notin Controls /\ "reload" \notin Controls /\ "rules" \notin Controls
  BY DEF Controls
<1>6. /\ o = "enable" => Enable(d)
      /\ o = "reload" => Reload(d)
      /\ o \in Controls \cup {"rules"} => UNCHANGED service
  BY <1>1, <1>2, <1>3, <1>5 DEF BootCommand
<1>7. flags \in [Services -> SUBSET ({"enable"} \cup Controls)]
  BY DEF TypeInv, DiskOK
<1>8. PICK F : F = (CASE o = "enable" -> flags[d] \cup {o}
                      [] o \in Controls -> (flags[d] \ Opposite(o)) \cup {o}
                      [] OTHER -> flags[d])
  OBVIOUS
<1>9. flags' = [flags EXCEPT ![d] = F]
  BY <1>3, <1>4, <1>7, <1>8
<1>10. F = IF o = "enable" THEN flags[d] \cup {o}
           ELSE IF o \in Controls THEN (flags[d] \ Opposite(o)) \cup {o} ELSE flags[d]
  BY <1>5, <1>8
<1>11. (\A c \in Services \ {d} : flags'[c] = flags[c]) /\ flags'[d] = F
  BY <1>3, <1>7, <1>9
<1>12. /\ o = "enable" => flags'[d] = flags[d] \cup {o}
       /\ o \in Controls => flags'[d] = (flags[d] \ Opposite(o)) \cup {o}
       /\ o \in {"rules", "reload"} => flags'[d] = flags[d]
  BY <1>5, <1>10, <1>11
<1>q. QED
  BY <1>4, <1>6, <1>11, <1>12, Zenon

\* A step of the boot about one service does nothing to the others.
Elsewhere(d) == \A c \in Services \ {d} :
    rules'[c] = rules[c] /\ flags'[c] = flags[c] /\ loaded'[c] = loaded[c] /\ (c \in up' <=> c \in up)

\* The entry of the boot is the one behind the first q of a section.
OnEntry(d, f, fl, q) == /\ q < Len(Section(d, f, fl)) /\ At = Section(d, f, fl)[q + 1]
                        /\ Brought(d, f, fl, q)

\* The line that gives the service the floor.
LEMMA BootStarts ==
  ASSUME TypeInv, Boot, NEW d \in Services, NEW f \in File \cup {NoFile}, NEW fl \in SUBSET FlagsOf(d),
         OnEntry(d, f, fl, 0), f # NoFile
  PROVE  Brought(d, f, fl, 1)' /\ Elsewhere(d)
<1>1. PICK L \in Nat : L = Length(f) /\ L > 0 /\ At = <<"rules", d>>
  BY SectionShape DEF OnEntry
<1>3. /\ handler' = d /\ rules' = rules /\ UNCHANGED service
      /\ \A c \in Services : flags'[c] = flags[c]
  <2>1. PICK o : o = "rules" /\ At = <<o, d>> /\ o # "line" /\ o \in {"rules", "reload"} /\ o \in Controls \cup {"rules"}
    BY <1>1
  <2>2. /\ handler' = d /\ rules' = rules /\ UNCHANGED service
        /\ flags'[d] = flags[d] /\ \A c \in Services \ {d} : flags'[c] = flags[c]
    BY <2>1, BootDoes
  <2>q. QED
    BY <2>2
<1>4. Elsewhere(d)
  BY <1>3 DEF Elsewhere, service
<1>5. RulesAt(d, f, 1)'
  <2>1. RulesAt(d, f, 0)
    BY DEF OnEntry, Brought
  <2>2. Restored(f, 0) = NoFile /\ Restored(f, 1) = NoFile
    BY DEF Restored
  <2>q. QED
    BY <1>1, <1>3, <2>1, <2>2 DEF RulesAt
<1>6. HandlerAt(d, f, 1)'
  BY <1>3 DEF HandlerAt
<1>7. FlagsAt(d, f, fl, 1)'
  BY <1>1, <1>3 DEF FlagsAt, OnEntry, Brought
<1>8. ASSUME d \in Daemon PROVE ServiceAt(d, f, fl, 1)'
  <2>1. d \notin up /\ loaded[d] = NoFile
    BY <1>1, <1>8 DEF OnEntry, Brought, ServiceAt
  <2>q. QED
    BY <1>1, <1>3, <2>1 DEF ServiceAt, service
<1>q. QED
  BY <1>4, <1>5, <1>6, <1>7, <1>8 DEF Brought

\* A line of its rules.
LEMMA BootReads ==
  ASSUME TypeInv, Boot, NEW d \in Services, NEW f \in File \cup {NoFile}, NEW fl \in SUBSET FlagsOf(d),
         NEW q \in Nat \ {0}, OnEntry(d, f, fl, q), q < Length(f)
  PROVE  Brought(d, f, fl, q + 1)' /\ Elsewhere(d)
<1>1. PICK L \in Nat : L = Length(f) /\ q < L
  BY SectionShape
<1>2. f # NoFile /\ f \in File /\ f.lines \in Seq(Lines) /\ L = Len(f.lines) + 1
  BY <1>1 DEF Length, File
<1>3. PICK x : At = <<"line", x>> /\ (Plain(f) => x = f.lines[q])
  <2>1. At = Printed(f)[(q + 1) - 1]
    BY <1>1, SectionShape DEF OnEntry
  <2>2. (q + 1) - 1 = q /\ q \in DOMAIN f.lines
    BY <1>1, <1>2
  <2>3. Printed(f)[q] = <<"line", IF q = Len(f.lines) /\ ~f.ended THEN Spoilt ELSE f.lines[q]>>
    BY <2>2 DEF Printed
  <2>4. Plain(f) => f.ended
    BY <1>2 DEF Plain
  <2>q. QED
    BY <2>1, <2>2, <2>3, <2>4
<1>4. BootLine /\ At[1] = "line" /\ At[2] = x
  BY <1>3 DEF Boot, BootCommand
<1>5. UNCHANGED <<flags, service>>
  BY <1>4 DEF BootLine
<1>6. handler \in {d, NoDaemon} /\ (Plain(f) => handler = d)
  BY <1>1 DEF OnEntry, Brought, HandlerAt
<1>7. rules \in [Services -> File \cup {NoFile}]
  BY DEF TypeInv, DiskOK
<1>8. /\ handler' \in {d, NoDaemon}
      /\ \A c \in Services \ {d} : rules'[c] = rules[c]
  <2>1. CASE handler = NoDaemon \/ At[2] \in Blank
    BY <1>4, <1>6, <2>1 DEF BootLine
  <2>2. CASE ~(handler = NoDaemon \/ At[2] \in Blank)
    <3>1. handler = d
      BY <1>6, <2>2
    <3>2. \E g : rules' = [rules EXCEPT ![d] = g] /\ handler' \in {d, NoDaemon}
      BY <1>4, <2>2, <3>1 DEF BootLine
    <3>q. QED
      BY <1>7, <3>2
  <2>q. QED
    BY <2>1, <2>2
<1>9. Elsewhere(d)
  BY <1>5, <1>8 DEF Elsewhere, service
<1>10. ASSUME Plain(f)
       PROVE  handler' = d /\ rules'[d] = Restored(f, q + 1)
  <2>1. x \notin Blank \cup Long
    BY <1>1, <1>2, <1>3, <1>10 DEF Plain
  <2>2. handler = d /\ handler # NoDaemon
    BY <1>6, <1>10, NsshAssumption
  <2>3. handler' = d /\ rules' = [rules EXCEPT ![d] = Written(rules[d], x, TRUE)]
    BY <1>4, <1>7, <2>1, <2>2 DEF BootLine
  <2>4. rules[d] = Restored(f, q)
    BY <1>1, <1>10 DEF OnEntry, Brought, RulesAt
  <2>5. PICK j \in 2..(Len(f.lines) + 1) : j = q + 1 /\ j - 1 = q
    BY <1>1, <1>2
  <2>6. Written(Restored(f, q), f.lines[q], TRUE) = Restored(f, q + 1)
    BY <1>2, <2>5, WrittenMore
  <2>q. QED
    BY <1>3, <1>7, <1>10, <2>3, <2>4, <2>6
<1>11. RulesAt(d, f, q + 1)'
  BY <1>1, <1>10 DEF RulesAt
<1>12. HandlerAt(d, f, q + 1)'
  BY <1>8, <1>10 DEF HandlerAt
<1>13. FlagsAt(d, f, fl, q + 1)'
  <2>1. flags[d] = {}
    BY <1>1 DEF OnEntry, Brought, FlagsAt
  <2>q. QED
    BY <1>1, <1>5, <2>1 DEF FlagsAt
<1>14. ASSUME d \in Daemon PROVE ServiceAt(d, f, fl, q + 1)'
  <2>1. d \notin up /\ loaded[d] = NoFile
    BY <1>1, <1>14 DEF OnEntry, Brought, ServiceAt
  <2>q. QED
    BY <1>1, <1>5, <2>1 DEF ServiceAt, service
<1>q. QED
  BY <1>9, <1>11, <1>12, <1>13, <1>14 DEF Brought

\* Behind the rules a plain file is complete.
LEMMA RulesComplete ==
  ASSUME NEW d, NEW f \in File \cup {NoFile}, NEW fl, NEW q \in Nat, Brought(d, f, fl, q), q >= Length(f)
  PROVE  Plain(f) => rules[d] = f
<1>1. PICK L \in Nat : L = Length(f)
  BY DEF Length, File
<1>q. QED
  BY <1>1, RestoredAll DEF Brought, RulesAt

LEMMA BootEnables ==
  ASSUME TypeInv, Boot, NEW d \in Daemon, NEW f \in File \cup {NoFile}, NEW fl \in SUBSET FlagsOf(d),
         NEW q \in Nat, OnEntry(d, f, fl, q), q = Length(f), "enable" \in fl
  PROVE  Brought(d, f, fl, q + 1)' /\ Elsewhere(d)
<1>0. d \in Services /\ d # Dns
  BY Constants
<1>1. PICK n \in Nat : /\ n = Len(Section(d, f, fl)) /\ n >= q + 1
                       /\ n = q + 1 => ~(f # NoFile /\ d \in Reloads)
  <2>1. /\ Len(Section(d, f, fl)) \in Nat
        /\ Len(Section(d, f, fl)) = q + 1 + (IF f # NoFile /\ d \in Reloads THEN 1 ELSE 0)
    BY <1>0, SectionShape
  <2>q. QED
    BY <2>1
<1>2. At = <<"enable", d>>
  BY <1>0, SectionShape DEF OnEntry
<1>3. /\ handler' = d /\ rules' = rules /\ Enable(d)
      /\ \A c \in Services : flags'[c] = IF c = d THEN flags[c] \cup {"enable"} ELSE flags[c]
  <2>1. PICK o : o = "enable" /\ At = <<o, d>> /\ o # "line"
    BY <1>2
  <2>2. /\ handler' = d /\ rules' = rules /\ Enable(d)
        /\ flags'[d] = flags[d] \cup {o} /\ \A c \in Services \ {d} : flags'[c] = flags[c]
    BY <2>1, BootDoes
  <2>q. QED
    BY <2>1, <2>2
<1>4. flags'[d] = fl
  <2>1. flags[d] = {}
    BY DEF OnEntry, Brought, FlagsAt
  <2>2. fl = {"enable"}
    BY <1>0 DEF FlagsOf
  <2>q. QED
    BY <1>0, <1>3, <2>1, <2>2
<1>5. Plain(f) => rules[d] = f
  <2>1. q >= Length(f)
    OBVIOUS
  <2>q. QED
    BY <2>1, RulesComplete DEF OnEntry
<1>6. d \notin up /\ loaded[d] = NoFile
  BY DEF OnEntry, Brought, ServiceAt
<1>7. loaded \in [Services -> File \cup {NoFile}] /\ up \subseteq Services
  BY Constants DEF TypeInv, ServiceOK
<1>8. /\ d \in Reloads \cup Fileless => up' = up \cup {d} /\ loaded' = loaded
      /\ d \notin Reloads \cup Fileless /\ ~Accepted(rules[d]) => up' = up /\ loaded' = loaded
      /\ d \notin Reloads \cup Fileless /\ Accepted(rules[d]) =>
           up' = up \cup {d} /\ loaded' = [loaded EXCEPT ![d] = rules[d]]
  BY <1>3, <1>6 DEF Enable, service
<1>9. Elsewhere(d)
  <2>1. \A c \in Services \ {d} : loaded'[c] = loaded[c] /\ (c \in up' <=> c \in up)
    BY <1>7, <1>8
  <2>q. QED
    BY <1>3, <2>1 DEF Elsewhere
<1>10. RulesAt(d, f, q + 1)' /\ HandlerAt(d, f, q + 1)' /\ FlagsAt(d, f, fl, q + 1)'
  BY <1>3, <1>4, <1>5 DEF RulesAt, HandlerAt, FlagsAt
<1>11. ServiceAt(d, f, fl, q + 1)'
  <2>1. d \in up' <=> (d \in Reloads \cup Fileless \/ Accepted(rules[d]))
    BY <1>6, <1>8
  <2>2. ASSUME d \in Reloads, Accepted(rules[d]), q + 1 = Len(Section(d, f, fl)) PROVE FALSE
    <3>1. f = NoFile
      BY <1>1, <2>2
    <3>2. rules[d] = NoFile
      BY <1>5, <3>1 DEF Plain
    <3>q. QED
      BY <2>2, <3>2 DEF Accepted
  <2>3. d \in Reloads => loaded'[d] = NoFile
    BY <1>6, <1>8
  <2>4. d \notin Reloads \cup Fileless => loaded'[d] = IF d \in up' THEN rules[d] ELSE NoFile
    BY <1>0, <1>6, <1>7, <1>8
  <2>5. Accepted(rules'[d]) <=> Accepted(rules[d])
    BY <1>3
  <2>6. q + 1 > Length(f)
    OBVIOUS
  <2>7. d \in Fileless \/
        loaded'[d] = IF IF d \in Reloads THEN Accepted(rules'[d]) /\ q + 1 = Len(Section(d, f, fl))
                        ELSE d \in up'
                     THEN rules'[d] ELSE NoFile
    BY <1>3, <2>2, <2>3, <2>4, <2>5
  <2>8. d \in up' <=> "enable" \in fl /\ (d \in Reloads \cup Fileless \/ Accepted(rules'[d]))
    BY <2>1, <2>5
  <2>9. ~(q + 1 <= Length(f))
    OBVIOUS
  <2>q. QED
    BY <2>7, <2>8, <2>9 DEF ServiceAt
<1>q. QED
  BY <1>9, <1>10, <1>11 DEF Brought

LEMMA BootReloads ==
  ASSUME TypeInv, Boot, NEW d \in Reloads, NEW f \in File, NEW fl \in SUBSET FlagsOf(d),
         NEW q \in Nat, OnEntry(d, f, fl, q), q + 1 = Len(Section(d, f, fl)), q >= Length(f)
  PROVE  Brought(d, f, fl, q + 1)' /\ Elsewhere(d)
<1>0. d \in Services /\ d # Dns /\ d \in Daemon
  BY Constants
<1>f. f # NoFile
  BY NsshAssumption DEF File
<1>1. q = Length(f) + (IF "enable" \in fl THEN 1 ELSE 0) /\ Length(f) \in Nat
  BY <1>0, <1>f, SectionShape
<1>2. At = <<"reload", d>>
  BY <1>0, <1>f, SectionShape DEF OnEntry
<1>3. /\ handler' = d /\ rules' = rules /\ Reload(d)
      /\ \A c \in Services : flags'[c] = flags[c]
  <2>1. PICK o : o = "reload" /\ At = <<o, d>> /\ o # "line" /\ o \in {"rules", "reload"}
    BY <1>2
  <2>2. /\ handler' = d /\ rules' = rules /\ Reload(d)
        /\ flags'[d] = flags[d] /\ \A c \in Services \ {d} : flags'[c] = flags[c]
    BY <2>1, BootDoes
  <2>q. QED
    BY <2>2
<1>4. flags[d] = fl
  <2>1. CASE "enable" \in fl
    <3>1. fl = Controls \/ flags[d] = fl
      BY <1>1, <2>1 DEF OnEntry, Brought, FlagsAt
    <3>2. fl # Controls
      BY <2>1 DEF Controls
    <3>q. QED
      BY <3>1, <3>2
  <2>2. CASE "enable" \notin fl
    <3>1. flags[d] = {}
      BY <1>1, <2>2 DEF OnEntry, Brought, FlagsAt
    <3>2. fl = {}
      BY <1>0, <2>2 DEF FlagsOf
    <3>q. QED
      BY <3>1, <3>2
  <2>q. QED
    BY <2>1, <2>2
<1>5. Plain(f) => rules[d] = f
  BY RulesComplete DEF OnEntry
<1>6. /\ d \in up <=> "enable" \in fl
      /\ loaded[d] = NoFile
  <2>1. ServiceAt(d, f, fl, q) /\ d \notin Fileless
    BY <1>0, Constants DEF OnEntry, Brought
  <2>4. q # Len(Section(d, f, fl)) /\ d \in Reloads
    BY <1>0, <1>1 DEF OnEntry
  <2>2. CASE "enable" \in fl
    BY <1>1, <2>1, <2>2, <2>4 DEF ServiceAt
  <2>3. CASE "enable" \notin fl
    BY <1>1, <2>1, <2>3 DEF ServiceAt
  <2>q. QED
    BY <2>2, <2>3
<1>7. loaded \in [Services -> File \cup {NoFile}]
  BY DEF TypeInv, ServiceOK
<1>8. up' = up /\ loaded' = IF Accepted(rules[d]) THEN [loaded EXCEPT ![d] = rules[d]] ELSE loaded
  BY <1>3 DEF Reload
<1>9. Elsewhere(d)
  <2>1. \A c \in Services \ {d} : loaded'[c] = loaded[c]
    BY <1>7, <1>8
  <2>q. QED
    BY <1>3, <1>8, <2>1 DEF Elsewhere
<1>10. RulesAt(d, f, q + 1)' /\ HandlerAt(d, f, q + 1)' /\ FlagsAt(d, f, fl, q + 1)'
  BY <1>0, <1>1, <1>3, <1>4, <1>5 DEF RulesAt, HandlerAt, FlagsAt
<1>11. ServiceAt(d, f, fl, q + 1)'
  <2>1. loaded'[d] = IF Accepted(rules[d]) THEN rules[d] ELSE NoFile
    BY <1>0, <1>6, <1>7, <1>8
  <2>2. rules'[d] = rules[d] /\ (d \in up' <=> "enable" \in fl) /\ ~(q + 1 <= Length(f))
    BY <1>1, <1>3, <1>6, <1>8
  <2>3. loaded'[d] = IF Accepted(rules'[d]) THEN rules'[d] ELSE NoFile
    BY <2>1, <2>2
  <2>q. QED
    BY <2>2, <2>3 DEF ServiceAt
<1>q. QED
  BY <1>9, <1>10, <1>11 DEF Brought

LEMMA BootControls ==
  ASSUME TypeInv, Boot, NEW f \in File \cup {NoFile}, NEW fl \in SUBSET FlagsOf(Dns),
         NEW q \in Nat, OnEntry(Dns, f, fl, q), q >= Length(f)
  PROVE  Brought(Dns, f, fl, q + 1)' /\ Elsewhere(Dns)
<1> DEFINE sec == Section(Dns, f, fl)
<1>0. Dns \in Services /\ Dns \notin Daemon
  BY Constants
<1>1. /\ fl = {} => Len(sec) = Length(f)
      /\ \A c \in Controls : fl = {c} => Len(sec) = Length(f) + 1 /\ sec[Length(f) + 1] = <<c, Dns>>
      /\ \A j \in (Length(f) + 1)..Len(sec) : \E c \in Controls : sec[j] = <<c, Dns>>
      /\ Len(sec) \in Nat /\ Length(f) \in Nat
  BY <1>0, SectionShape
<1>2. q < Len(sec) /\ At = sec[q + 1]
  BY DEF OnEntry
<1>3. PICK c \in Controls : At = <<c, Dns>>
  <2>1. q + 1 \in (Length(f) + 1)..Len(sec)
    BY <1>1, <1>2
  <2>q. QED
    BY <1>1, <1>2, <2>1
<1>4. /\ handler' = Dns /\ rules' = rules /\ UNCHANGED service
      /\ \A e \in Services : flags'[e] = IF e = Dns THEN (flags[e] \ Opposite(c)) \cup {c} ELSE flags[e]
  <2>1. c # "line" /\ c # "enable"
    BY DEF Controls
  <2>2. PICK o : o = c /\ At = <<o, Dns>> /\ o # "line" /\ o \in Controls /\ o \in Controls \cup {"rules"}
    BY <1>3, <2>1
  <2>3. /\ handler' = Dns /\ rules' = rules /\ UNCHANGED service
        /\ flags'[Dns] = (flags[Dns] \ Opposite(o)) \cup {o}
        /\ \A e \in Services \ {Dns} : flags'[e] = flags[e]
    BY <2>2, BootDoes
  <2>q. QED
    BY <2>2, <2>3
<1>5. fl = Controls \/ flags'[Dns] = fl
  <2> SUFFICES ASSUME fl # Controls PROVE flags'[Dns] = fl
    OBVIOUS
  <2>1. fl # {}
    BY <1>1, <1>2
  <2>2. PICK b \in Controls : fl = {b}
    BY <2>1 DEF FlagsOf, Controls
  <2>3. Len(sec) = Length(f) + 1 /\ sec[Length(f) + 1] = <<b, Dns>>
    BY <1>1, <2>2
  <2>4. q = Length(f)
    BY <1>1, <1>2, <2>3
  <2>5. c = b
    <3>1. <<c, Dns>> = <<b, Dns>>
      BY <1>2, <1>3, <2>3, <2>4
    <3>q. QED
      BY <3>1
  <2>6. flags[Dns] = {}
    BY <1>1, <2>4 DEF OnEntry, Brought, FlagsAt
  <2>q. QED
    BY <1>0, <1>4, <2>2, <2>5, <2>6
<1>6. Plain(f) => rules[Dns] = f
  BY RulesComplete DEF OnEntry
<1>7. RulesAt(Dns, f, q + 1)' /\ HandlerAt(Dns, f, q + 1)' /\ FlagsAt(Dns, f, fl, q + 1)'
  BY <1>1, <1>4, <1>5, <1>6 DEF RulesAt, HandlerAt, FlagsAt
<1>8. Elsewhere(Dns)
  BY <1>4 DEF Elsewhere, service
<1>q. QED
  BY <1>0, <1>7, <1>8 DEF Brought

LEMMA BootBrings ==
  ASSUME TypeInv, Boot, NEW d \in Services, NEW f \in File \cup {NoFile}, NEW fl \in SUBSET FlagsOf(d),
         NEW q \in Nat, OnEntry(d, f, fl, q)
  PROVE  Brought(d, f, fl, q + 1)' /\ Elsewhere(d)
<1>1. PICK L \in Nat, n \in Nat : L = Length(f) /\ n = Len(Section(d, f, fl)) /\ L <= n /\ q < n
  BY SectionShape DEF OnEntry
<1>2. CASE q < L
  <2>1. f # NoFile
    BY <1>1, <1>2 DEF Length
  <2>2. CASE q = 0
    <3>1. OnEntry(d, f, fl, 0)
      BY <2>2
    <3>2. Brought(d, f, fl, 1)' /\ Elsewhere(d)
      BY <2>1, <3>1, BootStarts
    <3>3. q + 1 = 1
      BY <2>2
    <3>q. QED
      BY <3>2, <3>3
  <2>3. CASE q # 0
    BY <1>1, <1>2, <2>3, BootReads
  <2>q. QED
    BY <2>2, <2>3
<1>3. CASE q >= L /\ d = Dns
  BY <1>1, <1>3, BootControls
<1>4. CASE q >= L /\ d # Dns
  <2>1. d \in Daemon
    BY <1>4 DEF Daemon
  <2>2. n = L + (IF "enable" \in fl THEN 1 ELSE 0) + (IF f # NoFile /\ d \in Reloads THEN 1 ELSE 0)
    BY <1>1, <1>4, SectionShape
  <2>3. CASE q = L /\ "enable" \in fl
    BY <1>1, <2>1, <2>3, BootEnables
  <2>4. CASE ~(q = L /\ "enable" \in fl)
    <3>1. q + 1 = n /\ f # NoFile /\ d \in Reloads
      BY <1>1, <1>4, <2>2, <2>4
    <3>2. f \in File /\ q + 1 = Len(Section(d, f, fl)) /\ q >= Length(f)
      BY <1>1, <1>4, <3>1
    <3>q. QED
      BY <3>1, <3>2, BootReloads
  <2>q. QED
    BY <2>3, <2>4
<1>q. QED
  BY <1>1, <1>2, <1>3, <1>4

\* A service is as it was while the boot is at the section of another one.
LEMMA BroughtStays ==
  ASSUME NEW d \in Services, NEW f \in File \cup {NoFile}, NEW fl, NEW q \in Nat, Brought(d, f, fl, q),
         q = 0 \/ q >= Length(f),
         rules'[d] = rules[d], flags'[d] = flags[d], loaded'[d] = loaded[d], d \in up' <=> d \in up
  PROVE  Brought(d, f, fl, q)'
<1>1. PICK L \in Nat : L = Length(f)
  BY DEF Length, File
<1>2. RulesAt(d, f, q)' /\ FlagsAt(d, f, fl, q)'
  BY DEF Brought, RulesAt, FlagsAt
<1>3. HandlerAt(d, f, q)'
  BY <1>1 DEF HandlerAt
<1>4. ASSUME d \in Daemon PROVE ServiceAt(d, f, fl, q)'
  <2>1. Accepted(rules'[d]) <=> Accepted(rules[d])
    OBVIOUS
  <2>q. QED
    BY <1>4, <2>1 DEF Brought, ServiceAt
<1>q. QED
  BY <1>2, <1>3, <1>4 DEF Brought

\* Behind its section it is as it was saved, and runs by its file.
LEMMA AllBrought ==
  ASSUME NEW d \in Services, NEW f \in File \cup {NoFile}, NEW fl \in SUBSET FlagsOf(d),
         Brought(d, f, fl, Len(Section(d, f, fl)))
  PROVE  /\ Plain(f) => rules[d] = f
         /\ fl = Controls \/ flags[d] = fl
         /\ d \in Daemon =>
              /\ d \in up <=> "enable" \in flags[d] /\ (d \in Reloads \cup Fileless \/ Accepted(rules[d]))
              /\ d \in Fileless \/
                 loaded[d] = IF Accepted(rules[d]) /\ (d \in up \/ d \in Reloads)
                             THEN rules[d] ELSE NoFile
<1>1. PICK L \in Nat, n \in Nat : L = Length(f) /\ n = Len(Section(d, f, fl)) /\ L <= n
  BY SectionShape
<1>s. /\ d # Dns => n = L + (IF "enable" \in fl THEN 1 ELSE 0)
                           + (IF f # NoFile /\ d \in Reloads THEN 1 ELSE 0)
      /\ d = Dns => \A c \in Controls : fl = {c} => n = L + 1
  BY <1>1, SectionShape
<1>2. Plain(f) => rules[d] = f
  BY <1>1, RulesComplete
<1>3. fl = Controls \/ flags[d] = fl
  <2>1. CASE n > L
    BY <1>1, <2>1 DEF Brought, FlagsAt
  <2>2. CASE n = L
    <3>1. flags[d] = {}
      BY <1>1, <2>2 DEF Brought, FlagsAt
    <3>2. CASE d = Dns
      <4>1. \A c \in Controls : fl # {c}
        BY <1>s, <2>2, <3>2
      <4>2. fl = {} \/ fl = Controls
        BY <3>2, <4>1 DEF FlagsOf, Controls
      <4>q. QED
        BY <3>1, <4>2
    <3>3. CASE d # Dns
      <4>1. "enable" \notin fl
        BY <1>s, <2>2, <3>3
      <4>q. QED
        BY <3>1, <3>3, <4>1 DEF FlagsOf
    <3>q. QED
      BY <3>2, <3>3
  <2>q. QED
    BY <1>1, <2>1, <2>2
<1>4. ASSUME d \in Daemon
      PROVE  /\ d \in up <=> "enable" \in flags[d] /\ (d \in Reloads \cup Fileless \/ Accepted(rules[d]))
             /\ d \in Fileless \/
                loaded[d] = IF Accepted(rules[d]) /\ (d \in up \/ d \in Reloads)
                            THEN rules[d] ELSE NoFile
  <2>1. d # Dns /\ flags[d] = fl
    <3>1. d # Dns
      BY <1>4, Constants
    <3>2. fl # Controls
      BY <3>1 DEF FlagsOf, Controls
    <3>q. QED
      BY <1>3, <3>1, <3>2
  <2>2. ServiceAt(d, f, fl, n)
    BY <1>1, <1>4 DEF Brought
  <2>3. CASE n > L
    BY <1>1, <2>1, <2>2, <2>3 DEF ServiceAt
  <2>4. CASE n = L
    <3>1. d \notin up /\ loaded[d] = NoFile
      BY <1>1, <2>2, <2>4 DEF ServiceAt
    <3>2. "enable" \notin fl /\ ~(f # NoFile /\ d \in Reloads)
      BY <1>s, <2>1, <2>4
    <3>3. d \in Reloads => rules[d] = NoFile
      BY <1>2, <3>2 DEF Plain
    <3>4. d \in Reloads => ~Accepted(rules[d])
      BY <3>3 DEF Accepted
    <3>q. QED
      BY <2>1, <3>1, <3>2, <3>4
  <2>q. QED
    BY <1>1, <2>3, <2>4
<1>q. QED
  BY <1>2, <1>3, <1>4

-----------------------------------------------------------------------------
(* The whole text. *)

\* With e entries of the text done, q of the ones of the i-th service are.
Reached(at, k, i, e, q) == \/ e = at[i] + q
                           \/ q = 0 /\ e <= at[i]
                           \/ q = Len(Sec(k, i)) /\ e >= at[i + 1]

Progress(at, k) == \A i \in DOMAIN Daemons : \A q \in 0..Len(Sec(k, i)) :
    Reached(at, k, i, boot - 1, q) =>
        Brought(Daemons[i], k.rules[Daemons[i]], k.flags[Daemons[i]], q)

\* The flash has what was saved, and the boot has brought back what it has read of it.
BootInv == kept # NoText => \E at : /\ Laid(nsshconf, at, kept, Len(Daemons))
                                    /\ boot # 0 => Progress(at, kept)

LEMMA Places ==
  ASSUME NEW a \in Nat, NEW l \in Nat, NEW z \in Nat, z = a + l, NEW b \in Nat \ {0}, NEW x \in Nat,
         x <= l, b = a + x \/ (x = 0 /\ b <= a) \/ (x = l /\ b >= z)
  PROVE  /\ \A q \in Nat : b = a + q + 1 /\ b <= z => x = q + 1
         /\ \A y \in Nat : z <= y /\ y < b => x = l /\ b - 1 >= z
         /\ \A y \in Nat : y <= a /\ b <= y => x = 0 /\ b - 1 <= a
OBVIOUS

\* An entry belongs to one service, and the others do not get on by it.
GetsOn(text, at, k, b) ==
    \E i \in DOMAIN Daemons, q \in Nat :
    /\ q < Len(Sec(k, i)) /\ text[b] = Sec(k, i)[q + 1] /\ Reached(at, k, i, b - 1, q)
    /\ \A j \in DOMAIN Daemons : \A r \in 0..Len(Sec(k, j)) : Reached(at, k, j, b, r) =>
         \/ j = i /\ r = q + 1
         \/ j # i /\ Reached(at, k, j, b - 1, r) /\ (r = 0 \/ r = Len(Sec(k, j)))

LEMMA OneGetsOn ==
  ASSUME NEW k, Good(k), NEW text \in Seq(Entry), NEW at, Laid(text, at, k, Len(Daemons)),
         NEW b \in 1..Len(text)
  PROVE  GetsOn(text, at, k, b)
<1>n. PICK n \in Nat : n = Len(Daemons) /\ DOMAIN Daemons = 1..n
  BY Constants
<1>l. \A i \in DOMAIN Daemons : Len(Sec(k, i)) \in Nat
  <2> SUFFICES ASSUME NEW i \in DOMAIN Daemons PROVE Len(Sec(k, i)) \in Nat
    OBVIOUS
  <2>1. Sec(k, i) \in Seq(Entry)
    BY SecType
  <2>q. QED
    BY <2>1
<1>a. /\ at \in [1..(n + 1) -> Nat]
      /\ \A i \in 1..n : /\ at[i + 1] = at[i] + Len(Sec(k, i))
                         /\ \A j \in 1..Len(Sec(k, i)) : text[at[i] + j] = Sec(k, i)[j]
      /\ \A i, j \in 1..(n + 1) : i <= j => at[i] <= at[j]
      /\ \A e \in 1..Len(text) : \E i \in 1..n : at[i] < e /\ e <= at[i + 1]
  BY <1>n DEF Laid
<1>1. PICK i \in 1..n : at[i] < b /\ b <= at[i + 1]
  BY <1>a
<1>2. PICK a \in Nat, z \in Nat, m \in Nat :
          a = at[i] /\ z = at[i + 1] /\ m = Len(Sec(k, i)) /\ z = a + m /\ a < b /\ b <= z
  <2>1. i \in DOMAIN Daemons /\ i \in 1..(n + 1) /\ i + 1 \in 1..(n + 1)
    BY <1>n
  <2>2. at[i] \in Nat /\ at[i + 1] \in Nat /\ Len(Sec(k, i)) \in Nat
    BY <1>a, <1>l, <2>1
  <2>q. QED
    BY <1>a, <1>1, <2>2
<1>3. b \in Nat \ {0}
  OBVIOUS
<1>4. PICK q \in Nat : b = a + q + 1 /\ q < m
  <2>1. b - a - 1 \in Nat /\ b = a + (b - a - 1) + 1 /\ b - a - 1 < m
    BY <1>2, <1>3, SMTT(60)
  <2>q. QED
    BY <2>1
<1>5. text[b] = Sec(k, i)[q + 1]
  <2>1. q + 1 \in 1..Len(Sec(k, i)) /\ b = at[i] + (q + 1)
    BY <1>2, <1>4, SMTT(60)
  <2>q. QED
    BY <1>a, <2>1
<1>6. Reached(at, k, i, b - 1, q)
  BY <1>2, <1>4, SMTT(60) DEF Reached
<1>7. ASSUME NEW r \in 0..Len(Sec(k, i)), Reached(at, k, i, b, r) PROVE r = q + 1
  <2>1. PICK x \in Nat : x = r /\ x <= m
    BY <1>2
  <2>2. b = a + x \/ (x = 0 /\ b <= a) \/ (x = m /\ b >= z)
    BY <1>2, <1>7, <2>1 DEF Reached
  <2>3. x = q + 1
    <3>1. z = a + m /\ b <= z
      BY <1>2
    <3>2. \A p \in Nat : b = a + p + 1 /\ b <= z => x = p + 1
      BY <1>3, <2>1, <2>2, <3>1, Places
    <3>q. QED
      BY <1>4, <3>1, <3>2
  <2>q. QED
    BY <2>1, <2>3
<1>8. ASSUME NEW j \in DOMAIN Daemons, j # i, NEW r \in 0..Len(Sec(k, j)), Reached(at, k, j, b, r)
      PROVE  Reached(at, k, j, b - 1, r) /\ (r = 0 \/ r = Len(Sec(k, j)))
  <2>1. PICK c \in Nat, y \in Nat, l \in Nat :
            c = at[j] /\ y = at[j + 1] /\ l = Len(Sec(k, j)) /\ y = c + l
    <3>1. j \in 1..n /\ j \in 1..(n + 1) /\ j + 1 \in 1..(n + 1)
      BY <1>n
    <3>2. at[j] \in Nat /\ at[j + 1] \in Nat /\ Len(Sec(k, j)) \in Nat
      BY <1>a, <1>l, <3>1
    <3>q. QED
      <4>1. at[j + 1] = at[j] + Len(Sec(k, j))
        BY <1>a, <3>1
      <4>q. QED
        BY <3>2, <4>1
  <2>2. PICK x \in Nat :
          x = r /\ x <= l /\ (b = c + x \/ (x = 0 /\ b <= c) \/ (x = l /\ b >= y))
    <3>1. PICK x \in Nat : x = r /\ x <= l
      BY <2>1
    <3>2. b = c + x \/ (x = 0 /\ b <= c) \/ (x = l /\ b >= y)
      BY <1>8, <2>1, <3>1 DEF Reached
    <3>q. QED
      BY <3>1, <3>2
  <2>3. CASE j < i
    <3>1. y <= a
      <4>1. j + 1 \in 1..(n + 1) /\ i \in 1..(n + 1) /\ j + 1 <= i
        BY <1>n, <2>3
      <4>q. QED
        BY <1>a, <1>2, <2>1, <4>1
    <3>2. x = l /\ b - 1 >= y
      <4>1. y = c + l
        BY <2>1
      <4>2. \A p \in Nat : y <= p /\ p < b => x = l /\ b - 1 >= y
        BY <1>3, <2>2, <4>1, Places
      <4>3. a < b
        BY <1>2
      <4>q. QED
        BY <3>1, <4>2, <4>3
    <3>q. QED
      BY <2>1, <2>2, <3>2 DEF Reached
  <2>4. CASE i < j
    <3>1. z <= c
      <4>1. i + 1 \in 1..(n + 1) /\ j \in 1..(n + 1) /\ i + 1 <= j
        BY <1>n, <2>4
      <4>q. QED
        BY <1>a, <1>2, <2>1, <4>1
    <3>2. x = 0 /\ b - 1 <= c
      <4>1. y = c + l
        BY <2>1
      <4>2. \A p \in Nat : p <= c /\ b <= p => x = 0 /\ b - 1 <= c
        BY <1>3, <2>2, <4>1, Places
      <4>3. b <= z
        BY <1>2
      <4>q. QED
        BY <3>1, <4>2, <4>3
    <3>q. QED
      BY <2>1, <2>2, <3>2 DEF Reached
  <2>q. QED
    BY <1>n, <1>8, <2>3, <2>4
<1>9. \A j \in DOMAIN Daemons : \A r \in 0..Len(Sec(k, j)) : Reached(at, k, j, b, r) =>
        \/ j = i /\ r = q + 1
        \/ j # i /\ Reached(at, k, j, b - 1, r) /\ (r = 0 \/ r = Len(Sec(k, j)))
  BY <1>7, <1>8
<1>q. QED
  BY <1>n, <1>2, <1>4, <1>5, <1>6, <1>9, ZenonT(60) DEF GetsOn

\* What was saved of a service.
LEMMA KeptType ==
  ASSUME TypeInv, kept # NoText, NEW i \in DOMAIN Daemons
  PROVE  /\ Good(kept) /\ Daemons[i] \in Services
         /\ kept.rules[Daemons[i]] \in File \cup {NoFile}
         /\ kept.flags[Daemons[i]] \in SUBSET FlagsOf(Daemons[i])
         /\ Len(Sec(kept, i)) \in Nat
         /\ Length(kept.rules[Daemons[i]]) \in Nat
         /\ Length(kept.rules[Daemons[i]]) <= Len(Sec(kept, i))
<1>1. Good(kept)
  BY DEF TypeInv, FlashOK, Good
<1>2. Daemons[i] \in Services
  BY Constants
<1>3. /\ kept.rules[Daemons[i]] \in File \cup {NoFile}
      /\ kept.flags[Daemons[i]] \in SUBSET FlagsOf(Daemons[i])
  BY <1>1, <1>2 DEF Good, Keeps
<1>4. /\ Len(Sec(kept, i)) \in Nat
      /\ Length(kept.rules[Daemons[i]]) \in Nat
      /\ Length(kept.rules[Daemons[i]]) <= Len(Sec(kept, i))
  BY <1>2, <1>3, SectionShape DEF Sec
<1>q. QED
  BY <1>1, <1>2, <1>3, <1>4

LEMMA BootProgress ==
  ASSUME TypeInv, Boot, kept # NoText, NEW at, Laid(nsshconf, at, kept, Len(Daemons)),
         Progress(at, kept)
  PROVE  Progress(at, kept)'
<1>1. PICK k : k = kept /\ k' = k /\ kept' = k
  BY DEF Boot, flash
<1>2. boot \in 1..Len(nsshconf) /\ boot' = boot + 1 /\ nsshconf \in Seq(Entry)
  BY DEF Boot, TypeInv, FlashOK
<1>3. PICK i \in DOMAIN Daemons, q \in Nat :
        /\ q < Len(Sec(k, i)) /\ nsshconf[boot] = Sec(k, i)[q + 1] /\ Reached(at, k, i, boot - 1, q)
        /\ \A j \in DOMAIN Daemons : \A r \in 0..Len(Sec(k, j)) : Reached(at, k, j, boot, r) =>
             \/ j = i /\ r = q + 1
             \/ j # i /\ Reached(at, k, j, boot - 1, r) /\ (r = 0 \/ r = Len(Sec(k, j)))
  <2>1. Good(kept)
    BY KeptType, Constants
  <2>2. GetsOn(nsshconf, at, kept, boot)
    BY <1>2, <2>1, OneGetsOn
  <2>q. QED
    BY <1>1, <2>2, Zenon DEF GetsOn
<1>4. PICK d, f, fl :
        /\ d \in Services
        /\ f \in File \cup {NoFile} /\ fl \in SUBSET FlagsOf(d)
        /\ d = Daemons[i] /\ f = k.rules[d] /\ fl = k.flags[d] /\ Sec(k, i) = Section(d, f, fl)
  BY <1>1, KeptType DEF Sec
<1>5. Brought(d, f, fl, q)
  <2>1. q \in 0..Len(Sec(k, i))
    BY <1>1, <1>3, KeptType
  <2>q. QED
    BY <1>1, <1>3, <1>4, <2>1 DEF Progress
<1>6. OnEntry(d, f, fl, q)
  BY <1>3, <1>4, <1>5 DEF OnEntry, At
<1>7. Brought(d, f, fl, q + 1)' /\ Elsewhere(d)
  BY <1>4, <1>6, BootBrings
<1>8. boot' - 1 = boot
  BY <1>2
<1>9. ASSUME NEW j \in DOMAIN Daemons, NEW r \in 0..Len(Sec(k, j)), Reached(at, k, j, boot, r)
      PROVE  Brought(Daemons[j], k.rules[Daemons[j]], k.flags[Daemons[j]], r)'
  <2>1. CASE j = i /\ r = q + 1
    BY <1>4, <1>7, <2>1
  <2>2. CASE j # i /\ Reached(at, k, j, boot - 1, r) /\ (r = 0 \/ r = Len(Sec(k, j)))
    <3>1. PICK e, g, gl, L :
            /\ e \in Services /\ g \in File \cup {NoFile} /\ gl \in SUBSET FlagsOf(e) /\ L \in Nat
            /\ e = Daemons[j] /\ g = k.rules[e] /\ gl = k.flags[e] /\ L = Length(g)
            /\ L <= Len(Sec(k, j)) /\ Len(Sec(k, j)) \in Nat
      BY <1>1, KeptType, Zenon
    <3>2. Brought(e, g, gl, r)
      BY <1>1, <2>2, <3>1 DEF Progress
    <3>3. e # d
      BY <1>4, <2>2, <3>1, Constants
    <3>4. /\ rules'[e] = rules[e] /\ flags'[e] = flags[e] /\ loaded'[e] = loaded[e]
          /\ e \in up' <=> e \in up
      BY <1>7, <3>1, <3>3 DEF Elsewhere
    <3>5. r \in Nat /\ (r = 0 \/ r >= Length(g))
      BY <2>2, <3>1
    <3>6. Brought(e, g, gl, r)'
      BY <3>1, <3>2, <3>4, <3>5, BroughtStays
    <3>q. QED
      BY <3>1, <3>6
  <2>q. QED
    BY <1>3, <1>9, <2>1, <2>2
<1>q. QED
  BY <1>1, <1>8, <1>9 DEF Progress

\* A session's step comes after the boot, and only its save changes the flash.
LEMMA StepStopsBoot ==
  ASSUME TypeInv, NEW s \in Sessions, Step(s)
  PROVE  boot' = 0
<1>1. CASE CtlCommand(s) \/ DnsUnlink(s) \/ Edit(s) \/ Conf(s)
  BY <1>1 DEF CtlCommand, DnsUnlink, Edit, Opens, Conf, Begin
<1>2. CASE CtlReload(s) \/ AddRule(s)
  BY <1>2 DEF CtlReload, AddRule, AtOnce
<1>3. CASE \/ CtlFlag(s) \/ DnsLink(s) \/ DnsUnflag(s) \/ EditSave(s) \/ EditEnd(s) \/ ConfCtl(s)
           \/ Close(s) \/ SaveMount(s) \/ SaveOpen(s) \/ SaveCopy(s) \/ SaveRemount(s)
  <2>1. boot = 0
    BY <1>3, NotIdle DEF CtlFlag, DnsLink, DnsUnflag, EditSave, EditEnd, ConfCtl, Close, SaveMount,
                         SaveOpen, SaveCopy, SaveRemount
  <2>2. boot' = boot
    BY <1>3 DEF CtlFlag, DnsLink, DnsUnflag, EditSave, EditEnd, ConfCtl, Close, SaveMount,
                SaveOpen, SaveCopy, SaveRemount, End, Go, booting
  <2>q. QED
    BY <2>1, <2>2
<1>q. QED
  BY <1>1, <1>2, <1>3 DEF Step

LEMMA StepKeepsFlash ==
  ASSUME NEW s \in Sessions, Step(s)
  PROVE  \/ nsshconf' = nsshconf /\ kept' = kept
         \/ kept' = NoText
         \/ SaveCopy(s)
<1>1. CASE CtlCommand(s) \/ CtlFlag(s) \/ CtlReload(s) \/ AddRule(s)
  BY <1>1 DEF CtlCommand, CtlFlag, CtlReload, AddRule, flash
<1>2. CASE DnsUnlink(s) \/ DnsLink(s) \/ DnsUnflag(s) \/ Edit(s) \/ EditSave(s) \/ EditEnd(s)
  BY <1>2 DEF DnsUnlink, DnsLink, DnsUnflag, Edit, EditSave, EditEnd, flash
<1>3. CASE Conf(s) \/ ConfCtl(s) \/ Close(s) \/ SaveMount(s) \/ SaveOpen(s) \/ SaveRemount(s)
  BY <1>3 DEF Conf, ConfCtl, Close, SaveMount, SaveOpen, SaveRemount, flash
<1>q. QED
  BY <1>1, <1>2, <1>3 DEF Step

\* A quiet save ends with the text on the flash.
LEMMA SavedText ==
  ASSUME TypeInv, QuietInv, NEW s \in Sessions, SaveCopy(s), kept' # NoText
  PROVE  \E at : Laid(nsshconf', at, kept', Len(Daemons))
<1>1. pc[s] = "copy" /\ nsshconf' = Over(nsshrc, nsshconf) /\ quiet[s] /\ kept' = Files
  BY DEF SaveCopy, Files
<1>2. Saving(s)
  BY <1>1 DEF QuietInv
<1>3. HasText(nsshrc, Files, Len(Daemons)) /\ nsshconf = <<>>
  BY <1>1, <1>2 DEF Saving
<1>4. nsshrc \in Seq(Entry) /\ nsshconf \in Seq(Entry)
  BY DEF TypeInv, FlashOK
<1>5. nsshconf' = nsshrc
  BY <1>1, <1>3, <1>4, OverType
<1>q. QED
  BY <1>1, <1>3, <1>5 DEF HasText

\* The reboot starts from nothing.
LEMMA RebootProgress ==
  ASSUME TypeInv, Reboot, kept # NoText, NEW at, Laid(nsshconf, at, kept, Len(Daemons))
  PROVE  Progress(at, kept)'
<1>1. PICK k : k = kept /\ kept' = k
  BY DEF Reboot
<1>2. /\ boot' = 1 /\ up' = {}
      /\ \A d \in Services : rules'[d] = NoFile /\ flags'[d] = {} /\ loaded'[d] = NoFile
  BY DEF Reboot, Reset
<1>3. ASSUME NEW i \in DOMAIN Daemons, NEW q \in 0..Len(Sec(k, i)), Reached(at, k, i, 0, q)
      PROVE  Brought(Daemons[i], k.rules[Daemons[i]], k.flags[Daemons[i]], q)'
  <2>1. /\ Daemons[i] \in Services /\ k.rules[Daemons[i]] \in File \cup {NoFile}
        /\ Len(Sec(k, i)) \in Nat
    BY <1>1, KeptType
  <2>2. PICK a \in Nat, m \in Nat : at[i] = a /\ m = Len(Sec(k, i)) /\ at[i + 1] = a + m
    <3>1. i \in 1..Len(Daemons) /\ i \in 1..(Len(Daemons) + 1)
      BY Constants
    <3>2. at[i] \in Nat /\ at[i + 1] = at[i] + Len(Sec(k, i))
      BY <1>1, <3>1 DEF Laid
    <3>q. QED
      BY <2>1, <3>2
  <2>3. q = 0
    <3>1. PICK x \in Nat : x = q
      BY <2>1
    <3>2. 0 = a + x \/ x = 0 \/ (x = m /\ 0 >= a + m)
      BY <1>3, <2>2, <3>1 DEF Reached
    <3>q. QED
      BY <3>1, <3>2
  <2>4. Brought(Daemons[i], k.rules[Daemons[i]], k.flags[Daemons[i]], 0)'
    <3>1. PICK d, f, fl : /\ d = Daemons[i] /\ f = k.rules[Daemons[i]] /\ fl = k.flags[Daemons[i]]
                          /\ d \in Services /\ f \in File \cup {NoFile}
      BY <2>1
    <3>2. rules'[d] = NoFile /\ flags'[d] = {} /\ loaded'[d] = NoFile /\ d \notin up'
      BY <1>2, <3>1
    <3>3. PICK L \in Nat : L = Length(f)
      BY <3>1 DEF Length, File
    <3>4. Restored(f, 0) = NoFile
      BY DEF Restored
    <3>5. Brought(d, f, fl, 0)'
      BY <3>2, <3>3, <3>4 DEF Brought, RulesAt, HandlerAt, FlagsAt, ServiceAt
    <3>q. QED
      BY <3>1, <3>5
  <2>q. QED
    BY <2>3, <2>4
<1>4. boot' - 1 = 0
  BY <1>2
<1>q. QED
  BY <1>1, <1>3, <1>4 DEF Progress

LEMMA BootInvStep == TypeInv /\ QuietInv /\ BootInv /\ [Next]_vars => BootInv'
<1> SUFFICES ASSUME TypeInv, QuietInv, BootInv, [Next]_vars, kept' # NoText
             PROVE  \E at : /\ Laid(nsshconf', at, kept', Len(Daemons))
                            /\ boot' # 0 => Progress(at, kept)'
  BY DEF BootInv
<1>1. CASE UNCHANGED vars
  <2>1. /\ UNCHANGED <<rules, flags, up, loaded, handler, boot, nsshconf, kept>>
    BY <1>1 DEF vars, disk, service, flash, booting
  <2>2. PICK at : Laid(nsshconf, at, kept, Len(Daemons)) /\ (boot # 0 => Progress(at, kept))
    BY <2>1 DEF BootInv
  <2>3. boot' # 0 => Progress(at, kept)'
    BY <2>1, <2>2 DEF Progress, Brought, RulesAt, HandlerAt, FlagsAt, ServiceAt
  <2>q. QED
    BY <2>1, <2>2, <2>3
<1>2. CASE Boot
  <2>1. UNCHANGED <<nsshconf, kept>> /\ boot # 0
    BY <1>2 DEF Boot, flash
  <2>2. PICK at : Laid(nsshconf, at, kept, Len(Daemons)) /\ Progress(at, kept)
    BY <2>1 DEF BootInv
  <2>3. Progress(at, kept)'
    BY <1>2, <2>1, <2>2, BootProgress
  <2>q. QED
    BY <2>1, <2>2, <2>3
<1>3. CASE Reboot
  <2>1. UNCHANGED <<nsshconf, kept>>
    BY <1>3 DEF Reboot
  <2>2. PICK at : Laid(nsshconf, at, kept, Len(Daemons))
    BY <2>1 DEF BootInv
  <2>3. Progress(at, kept)'
    BY <1>3, <2>1, <2>2, RebootProgress
  <2>q. QED
    BY <2>1, <2>2, <2>3
<1>4. ASSUME NEW s \in Sessions, Step(s)
      PROVE  \E at : /\ Laid(nsshconf', at, kept', Len(Daemons))
                     /\ boot' # 0 => Progress(at, kept)'
  <2>1. boot' = 0
    BY <1>4, StepStopsBoot
  <2>2. CASE nsshconf' = nsshconf /\ kept' = kept
    <3>1. PICK at : Laid(nsshconf, at, kept, Len(Daemons))
      BY <2>2 DEF BootInv
    <3>q. QED
      BY <2>1, <2>2, <3>1
  <2>3. CASE SaveCopy(s)
    <3>1. PICK at : Laid(nsshconf', at, kept', Len(Daemons))
      BY <2>3, SavedText
    <3>q. QED
      BY <2>1, <3>1
  <2>q. QED
    BY <1>4, <2>2, <2>3, StepKeepsFlash
<1>q. QED
  BY <1>1, <1>2, <1>3, <1>4 DEF Next

LEMMA SaveInit == Init => QuietInv /\ BootInv
BY DEF Init, QuietInv, BootInv

\* At the end of the boot every service has been brought back.
LEMMA FreshBrought ==
  ASSUME TypeInv, BootInv, Fresh, NEW d \in Services
  PROVE  Brought(d, kept.rules[d], kept.flags[d], Len(Section(d, kept.rules[d], kept.flags[d])))
<1>1. boot > Len(nsshconf) /\ kept # NoText /\ Len(nsshconf) \in Nat /\ boot \in Nat
  BY DEF Fresh, TypeInv, BootOK, FlashOK
<1>2. PICK at : Laid(nsshconf, at, kept, Len(Daemons)) /\ Progress(at, kept)
  BY <1>1 DEF BootInv
<1>3. PICK i \in DOMAIN Daemons : d = Daemons[i]
  BY Constants
<1>4. Reached(at, kept, i, boot - 1, Len(Sec(kept, i)))
  <2>1. PICK n \in Nat : n = Len(Daemons) /\ i \in 1..n
    BY Constants
  <2>2. i + 1 \in 1..(n + 1) /\ n + 1 \in 1..(n + 1) /\ i + 1 <= n + 1
    BY <2>1
  <2>3. at[i + 1] \in Nat /\ at[i + 1] <= at[n + 1] /\ at[n + 1] = Len(nsshconf)
    BY <1>2, <2>1, <2>2 DEF Laid
  <2>4. boot - 1 >= at[i + 1]
    BY <1>1, <2>3
  <2>q. QED
    BY <2>4 DEF Reached
<1>5. Len(Sec(kept, i)) \in 0..Len(Sec(kept, i))
  BY <1>1, KeptType
<1>6. Brought(Daemons[i], kept.rules[Daemons[i]], kept.flags[Daemons[i]], Len(Sec(kept, i)))
  BY <1>2, <1>4, <1>5 DEF Progress
<1>q. QED
  BY <1>3, <1>6 DEF Sec

LEMMA FreshGives == TypeInv /\ BootInv => BootRestores /\ BootServes
<1> SUFFICES ASSUME TypeInv, BootInv, Fresh PROVE BootRestores /\ BootServes
  BY DEF BootRestores, BootServes
<1>1. ASSUME NEW d \in Services
      PROVE  /\ Plain(kept.rules[d]) => rules[d] = kept.rules[d]
             /\ kept.flags[d] = Controls \/ flags[d] = kept.flags[d]
             /\ d \in Daemon =>
                  /\ d \in up <=> "enable" \in flags[d] /\ (d \in Reloads \cup Fileless \/ Accepted(rules[d]))
                  /\ d \in Fileless \/
                     loaded[d] = IF Accepted(rules[d]) /\ (d \in up \/ d \in Reloads)
                                 THEN rules[d] ELSE NoFile
  <2>1. PICK f, fl : /\ f = kept.rules[d] /\ fl = kept.flags[d]
                     /\ f \in File \cup {NoFile} /\ fl \in SUBSET FlagsOf(d)
    <3>1. PICK i \in DOMAIN Daemons : d = Daemons[i]
      BY Constants
    <3>q. QED
      BY <3>1, KeptType DEF Fresh
  <2>2. Brought(d, f, fl, Len(Section(d, f, fl)))
    BY <2>1, FreshBrought
  <2>q. QED
    BY <2>1, <2>2, AllBrought
<1>2. Daemon \subseteq Services
  BY Constants
<1>q. QED
  BY <1>1, <1>2 DEF BootRestores, BootServes

\* A boot brings back what was saved by a write-config that nothing went on beside, however
\* often it is cut short: the rules files that nssh takes as they are, and all flags.
THEOREM BootWillRestore == Spec => []BootRestores
BY TypeInit, TypeStep, SaveInit, QuietStep, BootInvStep, FreshGives, PTL DEF Spec

\* After such a boot the enabled services run, by their complete rules, and no others.
THEOREM BootWillServe == Spec => []BootServes
BY TypeInit, TypeStep, SaveInit, QuietStep, BootInvStep, FreshGives, PTL DEF Spec
=============================================================================
