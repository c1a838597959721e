------------------------------ MODULE PfRules ------------------------------
(***************************************************************************)
(* The packet filter rules kept by the shell: nssh_pf.conf, a file of      *)
(* tagged rules; pf.conf, generated from it; and the ruleset in the        *)
(* kernel.                                                                 *)
(*                                                                         *)
(* Each session of nssh runs the scripts addrule, delrule and pfreload as  *)
(* processes of its own.  The scripts take no lock, and each of their      *)
(* programs (grep, mv, rm, pfctl) is a step; where the shell redirects an  *)
(* echo, opening the file and writing the line are two.  Kept coarse:      *)
(* reading nssh_pf.conf is one step, and so is appending a line to it.     *)
(* nssh_pf.conf is the set of its lines: pfreload sorts whole lines and    *)
(* drops duplicates, so their order in the file says nothing.              *)
(***************************************************************************)
EXTENDS Naturals, Sequences, FiniteSets

CONSTANTS Sessions,  \* the shells logged in
          Lines,     \* the lines an administrator may add
          NoNum,     \* the order "N": order does not matter
          Ere,       \* a rule's text -> the text it matches as a regular expression
          Valid,     \* the texts pfctl accepts; it takes a file if it takes every line
          PassAll,   \* the line "filter 1 pass log all"
          Missing    \* the content of a file that does not exist

Types == <<"global", "skip", "binat", "nat", "filter">>
Line == [type : {Types[i] : i \in DOMAIN Types}, num : Nat \cup {NoNum}, text : DOMAIN Ere]
Known == Lines \cup {PassAll}

\* Texts are the ranks of the rules in the byte order that sort uses.
ASSUME PfAssumption == /\ Lines \subseteq Line /\ IsFiniteSet(Lines)
                       /\ PassAll \in Line /\ PassAll.text \in Valid
                       /\ DOMAIN Ere \subseteq Nat
                       /\ Valid \subseteq DOMAIN Ere
                       /\ NoNum \notin Nat
                       /\ \A ls \in SUBSET Known : ls # Missing
                       /\ Missing \notin Seq(DOMAIN Ere)

VARIABLES conf,      \* nssh_pf.conf: the set of its lines, or Missing
          pfconf,    \* pf.conf: a sequence of rule texts, or Missing
          loaded,    \* the ruleset in the kernel
          pc,        \* where each session's script is
          arg,       \* the line it adds or deletes
          kept,      \* the lines delrule has filtered into its temporary file
          out,       \* the lines pfreload has still to write to pf.conf
          disturbed  \* history: scripts have run at once, and no reload alone since

files == <<conf, pfconf, loaded>>
vars == <<files, pc, arg, kept, out, disturbed>>

Labels == {"idle", "grep", "append", "filter", "replace", "pass",
           "read", "unlink", "emit", "write", "lost"}
TypeOK == /\ conf \in (SUBSET Known) \cup {Missing}
          /\ pfconf \in Seq(DOMAIN Ere) \cup {Missing}
          /\ loaded \in Seq(Valid)
          /\ pc \in [Sessions -> Labels]
          /\ arg \in [Sessions -> Known]
          /\ kept \in [Sessions -> SUBSET Known]
          /\ out \in [Sessions -> Seq(Known)]
          /\ \A s \in Sessions : pc[s] \in {"write", "lost"} => out[s] # <<>>
          /\ disturbed \in BOOLEAN

\* A missing file reads as nothing, and >> creates it.
Rules == IF conf = Missing THEN {} ELSE conf
Ruleset == IF pfconf = Missing THEN <<>> ELSE pfconf
Goto(s, l) == pc' = [pc EXCEPT ![s] = l]
Forget(s) == arg' = [arg EXCEPT ![s] = PassAll] /\ kept' = [kept EXCEPT ![s] = {}]
Others(s) == {t \in Sessions \ {s} : pc[t] # "idle"}
-----------------------------------------------------------------------------
(* gen_pffile: from tagged lines to a ruleset. *)

\* sort without -k1n.
BeforeByText(a, b) == a.text < b.text

\* sort -k1n compares the numbers, then whole lines.
Before(a, b) == IF a.num = b.num THEN a.text < b.text ELSE a.num < b.num

\* A set of lines in this order.
Sorted(ls) == CHOOSE q \in [1..Cardinality(ls) -> ls] :
                  \A i, j \in DOMAIN q : i < j => Before(q[i], q[j])

\* The lines of a type that have a number (.ol) before those that have none (.ul).
Section(c, t) == Sorted({l \in c : l.type = t /\ l.num # NoNum})
                 \o Sorted({l \in c : l.type = t /\ l.num = NoNum})

\* The temporary files in the order of their names: 1-global.ol, 1-global.ul, 2-skip...
Gen(c) == Section(c, "global") \o Section(c, "skip") \o Section(c, "binat")
          \o Section(c, "nat") \o Section(c, "filter")

\* cut takes the type and the number off.
Texts(ls) == [i \in DOMAIN ls |-> ls[i].text]
-----------------------------------------------------------------------------
(* The scripts. *)

\* pfctl -f replaces the ruleset as a whole; a file it does not find, or one with a line
\* it refuses, leaves the ruleset that is in force.
Accepted(q) == \A i \in DOMAIN q : q[i] \in Valid
Load(q) == IF q # Missing /\ Accepted(q) THEN q ELSE loaded

\* The rules of the startup file, if it has any, have been copied, and loaded if pfctl
\* took them.
Init == /\ conf \in ((SUBSET Lines) \ {{}}) \cup {Missing}
        /\ pfconf = IF conf = Missing THEN Missing ELSE Texts(Gen(conf))
        /\ loaded = IF pfconf # Missing /\ Accepted(pfconf) THEN pfconf ELSE <<>>
        /\ pc = [s \in Sessions |-> "idle"]
        /\ arg = [s \in Sessions |-> PassAll]
        /\ kept = [s \in Sessions |-> {}]
        /\ out = [s \in Sessions |-> <<>>]
        /\ disturbed = FALSE

Start(s, l) == /\ pc[s] = "idle"
               /\ Goto(s, l)
               /\ disturbed' = (disturbed \/ Others(s) # {})
               /\ UNCHANGED <<files, kept, out>>

\* addrule: a rule pfctl rejects is not added, but the rules are loaded again.
Add(s) == \E l \in Lines :
            \/ /\ l.text \in Valid
               /\ arg' = [arg EXCEPT ![s] = l]
               /\ Start(s, "grep")
            \/ /\ l.text \notin Valid
               /\ UNCHANGED arg
               /\ Start(s, "read")

Del(s) == \E l \in Lines :
            /\ arg' = [arg EXCEPT ![s] = l]
            /\ Start(s, "filter")

Reload(s) == Start(s, "read") /\ UNCHANGED arg

\* grep -E takes the line to add or delete as a regular expression.
Matches(a, l) == l = [a EXCEPT !.text = Ere[@]]
Found(s) == \E l \in Rules : Matches(arg[s], l)

\* A line that is not found is added.  In every other case, a missing file included,
\* addrule says that the rule exists already and exits.
Grep(s) == /\ pc[s] = "grep"
           /\ \/ /\ conf # Missing /\ ~Found(s)
                 /\ Goto(s, "append")
                 /\ UNCHANGED <<arg, kept>>
              \/ /\ conf = Missing \/ Found(s)
                 /\ Goto(s, "idle")
                 /\ Forget(s)
           /\ UNCHANGED <<files, out, disturbed>>

AppendRule(s) == /\ pc[s] = "append"
                 /\ conf' = Rules \cup {arg[s]}
                 /\ Goto(s, "read")
                 /\ Forget(s)
                 /\ UNCHANGED <<pfconf, loaded, out, disturbed>>

\* The pattern without its anchors: what is deleted is every line of that type.
FilterUnanchored(s) == /\ pc[s] = "filter"
                       /\ kept' = [kept EXCEPT ![s] = {l \in Rules : l.type # arg[s].type}]
                       /\ Goto(s, "replace")
                       /\ UNCHANGED <<files, arg, out, disturbed>>

Filter(s) == /\ pc[s] = "filter"
             /\ kept' = [kept EXCEPT ![s] = {l \in Rules : ~Matches(arg[s], l)}]
             /\ Goto(s, "replace")
             /\ UNCHANGED <<files, arg, out, disturbed>>

\* Without its special case, an empty file would replace the rules.
ReplaceAlways(s) == /\ pc[s] = "replace"
                    /\ conf' = kept[s]
                    /\ Goto(s, "read")
                    /\ Forget(s)
                    /\ UNCHANGED <<pfconf, loaded, out, disturbed>>

\* The temporary file replaces the rules, unless nothing is left: then nssh_pf.conf is
\* opened, and so emptied, for the one rule that passes everything.
Replace(s) == /\ pc[s] = "replace"
              /\ conf' = kept[s]
              /\ Goto(s, IF kept[s] = {} THEN "pass" ELSE "read")
              /\ Forget(s)
              /\ UNCHANGED <<pfconf, loaded, out, disturbed>>

\* That rule is written at the start of the file, over lines appended since it was opened.
WritePass(s) == /\ pc[s] = "pass"
                /\ \E left \in SUBSET Rules : conf' = {PassAll} \cup left
                /\ Goto(s, "read")
                /\ UNCHANGED <<pfconf, loaded, arg, kept, out, disturbed>>

\* pfreload sorts the rules into temporary files of its own.
ReadRules(s) == /\ pc[s] = "read"
                /\ out' = [out EXCEPT ![s] = Gen(Rules)]
                /\ Goto(s, "unlink")
                /\ disturbed' = (disturbed /\ Others(s) # {})
                /\ UNCHANGED <<files, arg, kept>>

\* > pf.conf in place of rm -f.
UnlinkByTruncating(s) == /\ pc[s] = "unlink"
                         /\ pfconf' = <<>>
                         /\ Goto(s, "emit")
                         /\ UNCHANGED <<conf, loaded, arg, kept, out, disturbed>>

\* rm -f; a script that has the file open will write its line to a file without a name.
Unlink(s) == /\ pc[s] = "unlink"
             /\ pfconf' = Missing
             /\ pc' = [t \in Sessions |-> IF t = s THEN "emit"
                                         ELSE IF pc[t] = "write" THEN "lost" ELSE pc[t]]
             /\ UNCHANGED <<conf, loaded, arg, kept, out, disturbed>>

\* echo >> pf.conf for the next line: the file is opened, created if it is not there...
OpenFile(s) == /\ pc[s] = "emit"
               /\ out[s] # <<>>
               /\ pfconf' = Ruleset
               /\ Goto(s, "write")
               /\ UNCHANGED <<conf, loaded, arg, kept, out, disturbed>>

\* cut takes the number.
EmitNumber(s) == /\ pc[s] \in {"write", "lost"}
                 /\ pfconf' = IF pc[s] = "lost" THEN pfconf
                              ELSE Append(Ruleset, Head(out[s]).num)
                 /\ out' = [out EXCEPT ![s] = Tail(@)]
                 /\ Goto(s, "emit")
                 /\ UNCHANGED <<conf, loaded, arg, kept, disturbed>>

\* ... and the line is written.
EmitLine(s) == /\ pc[s] \in {"write", "lost"}
               /\ pfconf' = IF pc[s] = "lost" THEN pfconf
                            ELSE Append(Ruleset, Head(out[s]).text)
               /\ out' = [out EXCEPT ![s] = Tail(@)]
               /\ Goto(s, "emit")
               /\ UNCHANGED <<conf, loaded, arg, kept, disturbed>>

LoadRules(s) == /\ pc[s] = "emit"
                /\ out[s] = <<>>
                /\ loaded' = Load(pfconf)
                /\ Goto(s, "idle")
                /\ UNCHANGED <<conf, pfconf, arg, kept, out, disturbed>>

Step(s) == \/ Grep(s) \/ AppendRule(s)
           \/ Filter(s) \/ Replace(s) \/ WritePass(s)
           \/ ReadRules(s) \/ Unlink(s) \/ OpenFile(s) \/ EmitLine(s) \/ LoadRules(s)

Next == \E s \in Sessions : Add(s) \/ Del(s) \/ Reload(s) \/ Step(s)

Spec == Init /\ [][Next]_vars
-----------------------------------------------------------------------------
(* Correctness. *)

\* Whenever no script runs, the kernel's ruleset is the one nssh_pf.conf describes, if
\* pfctl takes every line of it.  Scripts that have run at once may leave another; then a
\* reload that runs alone repairs it.  One line that pfctl refuses, which only a startup
\* file can bring, keeps the older ruleset in force until it is deleted.
RulesInForce == /\ ~disturbed
                /\ \A s \in Sessions : pc[s] = "idle"
                /\ Accepted(Texts(Gen(Rules)))
                => loaded = Texts(Gen(Rules))

\* The box loses its rules in one way only, however the scripts mix: pfctl loads pf.conf
\* while another script has created it and not yet written the first line.
EmptiedByOverlap == [][loaded # <<>> /\ loaded' = <<>> =>
                           \E s \in Sessions : pc[s] = "write"]_vars

\* A rule leaves nssh_pf.conf only when it is the one somebody deletes; a deletion
\* that another script runs beside may take rules added meanwhile with it.
OnlyDeletedRulesGo ==
    [][~disturbed => \A l \in Rules \ Rules' :
           \E s \in Sessions : pc[s] = "replace" /\ Matches(arg[s], l)]_vars

\* What addrule says when it gives up: "The rule you are attempting to create already
\* exists."
RefusedIfPresent == [][\A s \in Sessions : Grep(s) /\ pc'[s] = "idle" =>
                           arg[s] \in Rules]_vars
=============================================================================
