------------------------- MODULE ConfigClientsProofs -------------------------
(***************************************************************************)
(* For every number of processes, and whatever the rules and the jobs are: *)
(* that edits are exact unless somebody stores in between, that what runs  *)
(* alone configures what is stored, that all is in force at rest, and that *)
(* rc.newwanip has nothing to do only where nothing is to be done.         *)
(***************************************************************************)
EXTENDS ConfigClients, NaturalsInduction, WellFoundedInduction, SequenceTheorems,
        FiniteSetTheorems, TLAPS

(* The loop over the rules. *)

\* Induction, for a set of numbers.
LEMMA NatSet ==
  ASSUME NEW S, 0 \in S, \A n \in Nat : n \in S => n + 1 \in S
  PROVE  Nat \subseteq S
<1> SUFFICES ASSUME NEW m \in Nat, m \notin S PROVE FALSE
  OBVIOUS
<1> DEFINE T == {n \in Nat : n \notin S}
<1>1. PICK k \in T : \A n \in T : <<n, k>> \notin OpToRel(<, Nat)
  BY NatLessThanWellFounded, WFMin
<1>2. \A n \in Nat : n < k => n \in S
  BY <1>1 DEF OpToRel
<1>k. k \in Nat /\ k \notin S
  BY <1>1, Zenon
<1>3. k # 0 /\ k - 1 \in Nat /\ k - 1 < k
  BY <1>k
<1>4. k - 1 \in S
  BY <1>2, <1>3
<1>5. (k - 1) + 1 = k
  BY <1>k
<1>q. QED
  BY <1>k, <1>3, <1>4, <1>5

\* The state of the loop after k rules.
Begin(rules, list) == [i |-> 0, srclist |-> list, rules |-> rules]
IsLoop(f, m, rules, id, list) ==
    f = [k \in 0..m |-> IF k = 0 THEN Begin(rules, list) ELSE Turn(f[k - 1], rules[k], id)]
Loop(rules, id, list) == CHOOSE f : IsLoop(f, Len(rules), rules, id, list)

LEMMA LoopIsThere ==
  ASSUME NEW rules, NEW id, NEW list, NEW m \in Nat
  PROVE  \E f : IsLoop(f, m, rules, id, list)
<1> DEFINE S == {n \in Nat : \E f : IsLoop(f, n, rules, id, list)}
<1>1. 0 \in S
  <2> DEFINE f == [k \in 0..0 |-> Begin(rules, list)]
  <2>1. f = [k \in 0..0 |-> IF k = 0 THEN Begin(rules, list) ELSE Turn(f[k - 1], rules[k], id)]
    OBVIOUS
  <2>q. QED
    BY <2>1 DEF IsLoop
<1>2. ASSUME NEW n \in Nat, n \in S PROVE n + 1 \in S
  <2>1. PICK f : IsLoop(f, n, rules, id, list)
    BY <1>2
  <2> DEFINE g == [k \in 0..(n + 1) |-> IF k = n + 1 THEN Turn(f[n], rules[n + 1], id) ELSE f[k]]
  <2>2. ASSUME NEW k \in 0..(n + 1)
        PROVE  g[k] = IF k = 0 THEN Begin(rules, list) ELSE Turn(g[k - 1], rules[k], id)
    <3>1. CASE k = n + 1
      <4>1. k # 0 /\ k - 1 = n /\ n # n + 1 /\ n \in 0..(n + 1)
        BY <3>1
      <4>q. QED
        BY <3>1, <4>1
    <3>2. CASE k # n + 1
      <4>1. k \in 0..n
        BY <3>2
      <4>2. f[k] = IF k = 0 THEN Begin(rules, list) ELSE Turn(f[k - 1], rules[k], id)
        BY <2>1, <4>1 DEF IsLoop
      <4>3. k # 0 => k - 1 \in 0..(n + 1) /\ k - 1 # n + 1
        BY <4>1
      <4>q. QED
        BY <3>2, <4>2, <4>3
    <3>q. QED
      BY <3>1, <3>2
  <2>3. g = [k \in 0..(n + 1) |-> IF k = 0 THEN Begin(rules, list) ELSE Turn(g[k - 1], rules[k], id)]
    <3> DEFINE h == [k \in 0..(n + 1) |-> IF k = 0 THEN Begin(rules, list) ELSE Turn(g[k - 1], rules[k], id)]
    <3>1. \A k \in 0..(n + 1) : g[k] = h[k]
      BY <2>2
    <3>2. g = [k \in 0..(n + 1) |-> g[k]] /\ h = [k \in 0..(n + 1) |-> h[k]]
      OBVIOUS
    <3> HIDE DEF g, h
    <3>q. QED
      BY <3>1, <3>2 DEF h
  <2>4. IsLoop(g, n + 1, rules, id, list)
    BY <2>3 DEF IsLoop
  <2> HIDE DEF g
  <2>q. QED
    BY <2>4
<1>q. QED
  BY <1>1, <1>2, NatSet

LEMMA LoopSteps ==
  ASSUME NEW S, NEW rules \in Seq(S), NEW id, NEW list
  PROVE  LET turn == Loop(rules, id, list)
         IN  /\ ModifySrc(rules, id, list) = turn[Len(rules)].rules
             /\ turn[0] = Begin(rules, list)
             /\ \A k \in 0..Len(rules) : k < Len(rules) => turn[k + 1] = Turn(turn[k], rules[k + 1], id)
<1> DEFINE turn == Loop(rules, id, list)
           n == Len(rules)
<1>1. n \in Nat
  OBVIOUS
<1>2. IsLoop(turn, n, rules, id, list)
  BY <1>1, LoopIsThere DEF Loop
<1>3. ModifySrc(rules, id, list) = turn[n].rules
  BY DEF ModifySrc, Loop, IsLoop, Begin
<1> HIDE DEF turn
<1>4. turn[0] = Begin(rules, list)
  BY <1>1, <1>2 DEF IsLoop
<1>5. ASSUME NEW k \in 0..n, k < n PROVE turn[k + 1] = Turn(turn[k], rules[k + 1], id)
  <2>1. k + 1 \in 0..n /\ k + 1 # 0 /\ (k + 1) - 1 = k
    BY <1>1, <1>5
  <2>q. QED
    BY <1>2, <2>1 DEF IsLoop
<1>q. QED
  BY <1>3, <1>4, <1>5 DEF turn

Src == Seq(Sources \cup {Garbage})

LEMMA RuleChange ==
  /\ Lists \subseteq Src /\ <<Garbage>> \in Src
  /\ \A rule \in Rule, src \in Src : [rule EXCEPT !.src = src] \in Rule
  /\ \A rule \in Rule : [rule EXCEPT !.act = ToAct] \in Rule /\ [rule EXCEPT !.if = ToIf] \in Rule
<1>1. Lists \subseteq Src /\ <<Garbage>> \in Src
  BY ClientsAssumption DEF Src
<1>q. QED
  BY <1>1, ClientsAssumption DEF Rule, Src

\* Whatever number it is given, the loop makes rules of rules.
LEMMA LoopType ==
  ASSUME NEW rules \in Seq(Rule), NEW id \in Nat, NEW list \in Lists
  PROVE  ModifySrc(rules, id, list) \in Seq(Rule)
<1> DEFINE turn == Loop(rules, id, list)
           n == Len(rules)
           State == [i : Nat, srclist : Src, rules : [1..n -> Rule]]
           S == {k \in Nat : k <= n => turn[k] \in State}
<1>1. /\ ModifySrc(rules, id, list) = turn[n].rules
      /\ turn[0] = Begin(rules, list)
      /\ \A k \in 0..n : k < n => turn[k + 1] = Turn(turn[k], rules[k + 1], id)
  BY LoopSteps
<1>2. n \in Nat /\ rules \in [1..n -> Rule]
  OBVIOUS
<1> HIDE DEF turn, n
<1>3. 0 \in S
  BY <1>1, <1>2, RuleChange DEF Begin
<1>4. ASSUME NEW k \in Nat, k \in S PROVE k + 1 \in S
  <2> SUFFICES ASSUME k + 1 <= n PROVE turn[k + 1] \in State
    OBVIOUS
  <2>1. k \in 0..n /\ k < n /\ turn[k] \in State /\ k + 1 \in 1..n
    BY <1>2, <1>4
  <2>2. turn[k + 1] = Turn(turn[k], rules[k + 1], id) /\ rules[k + 1] \in Rule
    BY <1>1, <1>2, <2>1
  <2>3. ASSUME NEW s \in State, NEW rule \in Rule PROVE Turn(s, rule, id) \in State
    <3>1. CASE s.i # id
      BY <3>1 DEF Turn
    <3>2. CASE s.i = id
      <4>1. [rule EXCEPT !.src = s.srclist] \in Rule
        BY RuleChange
      <4>2. [s.rules EXCEPT ![id + 1] = [rule EXCEPT !.src = s.srclist]] \in [1..n -> Rule]
        BY <4>1
      <4>3. Len(s.srclist) + 1 \in Nat
        BY DEF Src
      <4>q. QED
        BY <3>2, <4>2, <4>3, RuleChange DEF Turn
    <3>q. QED
      BY <3>1, <3>2
  <2>q. QED
    BY <2>1, <2>2, <2>3
<1>5. n \in S
  BY <1>2, <1>3, <1>4, NatSet
<1>6. turn[n].rules \in [1..n -> Rule]
  BY <1>2, <1>5
<1>q. QED
  BY <1>1, <1>2, <1>6

\* The rules with these sources in the one with the number.
Sourced(rules, id, list) == [rules EXCEPT ![id + 1] = [@ EXCEPT !.src = list]]

\* Where the loop does not come to the number again, it changes the sources of the rule with
\* the number.
LEMMA LoopExact ==
  ASSUME NEW rules \in Seq(Rule), NEW id \in Nat, NEW list \in Lists, id + 1 \in DOMAIN rules,
         ~(id > Len(list) /\ 2 * id - Len(list) < Len(rules))
  PROVE  ModifySrc(rules, id, list) = Sourced(rules, id, list)
<1> DEFINE turn == Loop(rules, id, list)
           n == Len(rules)
           m == Len(list)
           new == [rules EXCEPT ![id + 1] = [@ EXCEPT !.src = list]]
           State(k) == IF k <= id
                       THEN [i |-> k, srclist |-> list, rules |-> rules]
                       ELSE [i |-> m + (k - id), srclist |-> <<Garbage>>, rules |-> new]
           S == {k \in Nat : k <= n => turn[k] = State(k)}
<1>1. /\ ModifySrc(rules, id, list) = turn[n].rules
      /\ turn[0] = Begin(rules, list)
      /\ \A k \in 0..n : k < n => turn[k + 1] = Turn(turn[k], rules[k + 1], id)
  BY LoopSteps
<1>2. n \in Nat /\ m \in Nat /\ id + 1 \in 1..n
  BY ClientsAssumption
<1>3. \A k \in Nat : k > id /\ k < n => m + (k - id) # id
  BY <1>2
<1>4. new = [rules EXCEPT ![id + 1] = [rules[id + 1] EXCEPT !.src = list]]
  OBVIOUS
<1> HIDE DEF turn, n, m, new
<1>5. 0 \in S
  BY <1>1, <1>2 DEF Begin
<1>6. ASSUME NEW k \in Nat, k \in S PROVE k + 1 \in S
  <2> SUFFICES ASSUME k + 1 <= n PROVE turn[k + 1] = State(k + 1)
    OBVIOUS
  <2>a. k < n /\ k <= n /\ k \in 0..n
    BY <1>2
  <2>b. turn[k] = State(k)
    BY <1>6, <2>a
  <2>1. turn[k] = State(k) /\ turn[k + 1] = Turn(turn[k], rules[k + 1], id) /\ k < n
    BY <1>1, <2>a, <2>b, Zenon
  <2>2. CASE k < id
    <3>1. k <= id /\ k + 1 <= id /\ k # id
      BY <2>2
    <3>q. QED
      BY <2>1, <3>1 DEF Turn
  <2>3. CASE k = id
    <3>1. k <= id /\ ~(k + 1 <= id) /\ (k + 1) - id = 1
      BY <2>3
    <3>2. State(k) = [i |-> k, srclist |-> list, rules |-> rules]
      BY <3>1
    <3>3. turn[k + 1] = [i |-> m + 1, srclist |-> <<Garbage>>, rules |-> new]
      <4>1. PICK s : s = State(k)
        OBVIOUS
      <4>2. s.i = id /\ s.srclist = list /\ s.rules = rules
        BY <2>3, <3>2, <4>1
      <4>3. Turn(s, rules[id + 1], id) = [i |-> m + 1, srclist |-> <<Garbage>>, rules |-> new]
        BY <1>4, <4>2 DEF Turn, m
      <4>q. QED
        BY <2>1, <2>3, <4>1, <4>3
    <3>q. QED
      BY <3>1, <3>3
  <2>4. CASE k > id
    <3>1. ~(k <= id) /\ ~(k + 1 <= id) /\ m + (k - id) # id /\ m + (k - id) + 1 = m + ((k + 1) - id)
      <4>1. m + (k - id) # id
        BY <1>3, <2>1, <2>4
      <4>2. ~(k <= id) /\ ~(k + 1 <= id) /\ m + (k - id) + 1 = m + ((k + 1) - id)
        BY <1>2, <2>4
      <4>q. QED
        BY <4>1, <4>2
    <3>2. State(k) = [i |-> m + (k - id), srclist |-> <<Garbage>>, rules |-> new]
      BY <3>1
    <3>3. turn[k + 1] = [i |-> m + (k - id) + 1, srclist |-> <<Garbage>>, rules |-> new]
      BY <2>1, <3>1, <3>2 DEF Turn
    <3>q. QED
      BY <3>1, <3>3
  <2>q. QED
    BY <2>2, <2>3, <2>4
<1>7. n \in S
  BY <1>2, <1>5, <1>6, NatSet
<1>8. turn[n] = State(n) /\ ~(n <= id)
  BY <1>2, <1>7
<1>9. turn[n].rules = new
  BY <1>8
<1>q. QED
  BY <1>1, <1>9 DEF new, Sourced
-----------------------------------------------------------------------------
(* What a job makes of a configuration. *)

\* Sorted by the numbers that they have just been given, the rules stay where they are.
LEMMA SortKeeps == ASSUME NEW S, NEW rules \in Seq(S) PROVE FilterRulesSort(rules) = rules
<1> DEFINE n == Len(rules)
           seq == [i \in DOMAIN rules |-> i - 1]
           Lower(i) == Cardinality({j \in DOMAIN rules : seq[j] < seq[i]})
           Place(k) == CHOOSE i \in DOMAIN rules : Lower(i) = k - 1
<1>1. n \in Nat /\ DOMAIN rules = 1..n
  OBVIOUS
<1>2. ASSUME NEW i \in 1..n PROVE Lower(i) = i - 1
  <2>1. {j \in DOMAIN rules : seq[j] < seq[i]} = 1..(i - 1)
    BY <1>1
  <2>2. Cardinality(1..(i - 1)) = IF 1 > i - 1 THEN 0 ELSE (i - 1) - 1 + 1
    <3>1. 1 \in Int /\ i - 1 \in Int
      BY <1>1
    <3>q. QED
      BY <3>1, FS_Interval
  <2>3. Cardinality(1..(i - 1)) = i - 1
    BY <1>1, <2>2
  <2>q. QED
    BY <2>1, <2>3
<1> HIDE DEF Lower, n
<1>3. ASSUME NEW k \in 1..n PROVE Place(k) = k
  <2>1. \A i \in 1..n : Lower(i) = k - 1 <=> i = k
    BY <1>1, <1>2
  <2>q. QED
    BY <1>1, <2>1
<1>4. FilterRulesSort(rules) = [k \in DOMAIN rules |-> rules[Place(k)]]
  BY Zenon DEF FilterRulesSort, Arranged, Lower
<1> HIDE DEF Place
<1>5. \A k \in DOMAIN rules : rules[Place(k)] = rules[k]
  BY <1>1, <1>3
<1>6. rules = [k \in DOMAIN rules |-> rules[k]]
  OBVIOUS
<1>q. QED
  BY <1>4, <1>5, <1>6

LEMMA JobType ==
  /\ \A j \in Job : /\ j.kind \in Kinds
                    /\ j.kind \in Shown => j.id \in Nat /\ j.rule \in Rule
                    /\ j.kind = "src" => j.list \in Lists
                    /\ j.kind \notin Shown => j.cur \in Addrs \cup {NoFile}
  /\ \A j \in Job, a \in Addrs : j.kind = "newwan" =>
         [j EXCEPT !.cur = a] \in Job /\ [j EXCEPT !.cur = a].cur = a
         /\ [j EXCEPT !.cur = a].kind = "newwan"
  /\ \A k \in Shown \ {"src"}, n \in Nat, r \in Rule : [kind |-> k, id |-> n, rule |-> r] \in Job
  /\ \A n \in Nat, r \in Rule, l \in Lists :
         [kind |-> "src", id |-> n, rule |-> r, list |-> l] \in Job
  /\ \A k \in Kinds \ Shown : [kind |-> k, cur |-> NoFile] \in Job
<1>1. Shown \subseteq Kinds /\ "newwan" \notin Shown /\ "src" \in Shown
  BY DEF Kinds, Shown, ByNssh, ByPage
<1>2. \A j \in Job : /\ j.kind \in Kinds
                     /\ j.kind \in Shown => j.id \in Nat /\ j.rule \in Rule
                     /\ j.kind = "src" => j.list \in Lists
                     /\ j.kind \notin Shown => j.cur \in Addrs \cup {NoFile}
  BY <1>1 DEF Job
<1>3. ASSUME NEW j \in Job, NEW a \in Addrs, j.kind = "newwan"
      PROVE  /\ [j EXCEPT !.cur = a] \in Job /\ [j EXCEPT !.cur = a].cur = a
             /\ [j EXCEPT !.cur = a].kind = "newwan"
  <2>1. j \in [kind : Kinds \ Shown, cur : Addrs \cup {NoFile}]
    BY <1>1, <1>3 DEF Job
  <2>q. QED
    BY <1>3, <2>1 DEF Job
<1>4. /\ \A k \in Shown \ {"src"}, n \in Nat, r \in Rule : [kind |-> k, id |-> n, rule |-> r] \in Job
      /\ \A n \in Nat, r \in Rule, l \in Lists :
             [kind |-> "src", id |-> n, rule |-> r, list |-> l] \in Job
      /\ \A k \in Kinds \ Shown : [kind |-> k, cur |-> NoFile] \in Job
  BY DEF Job
<1>q. QED
  BY <1>2, <1>3, <1>4

LEMMA ConfigFields ==
  ASSUME NEW c \in Config
  PROVE  /\ c.rules \in Seq(Rule) /\ c.ipsec \in Values /\ c.lan \in Values
         /\ c = [rules |-> c.rules, ipsec |-> c.ipsec, lan |-> c.lan]
         /\ DOMAIN c = Areas
         /\ \A r \in Seq(Rule) : [c EXCEPT !.rules = r] \in Config
         /\ \A v \in Values : [c EXCEPT !.ipsec = v] \in Config /\ [c EXCEPT !.lan = v] \in Config
<1>q. QED
  BY DEF Config, Areas

LEMMA EditRulesType ==
  ASSUME NEW j \in Job, j.kind \in Locked, NEW rules \in Seq(Rule)
  PROVE  EditRules(j, rules) \in Seq(Rule)
<1>1. Len(rules) \in Nat /\ rules \in [1..Len(rules) -> Rule] /\ Added \in Rule
  BY ClientsAssumption
<1>2. j.kind \in Shown => j.id \in Nat /\ j.rule \in Rule
  BY JobType
<1>3. CASE j.kind = "same"
  BY <1>3 DEF EditRules
<1>4. CASE j.kind = "act"
  <2>1. \A i \in 1..Len(rules) :
          (IF i - 1 = j.id THEN [rules[i] EXCEPT !.act = ToAct] ELSE rules[i]) \in Rule
    BY <1>1, RuleChange
  <2>2. ModifyAct(rules, j.id) \in [1..Len(rules) -> Rule]
    BY <1>1, <2>1 DEF ModifyAct
  <2>3. ModifyAct(rules, j.id) \in Seq(Rule)
    BY <1>1, <2>2
  <2>q. QED
    BY <1>4, <2>3 DEF EditRules
<1>5. CASE j.kind = "iface"
  <2>1. \A i \in 1..Len(rules) :
          (IF i - 1 = j.id THEN [rules[i] EXCEPT !.if = ToIf] ELSE rules[i]) \in Rule
    BY <1>1, RuleChange
  <2>2. ModifyIf(rules, j.id) \in [1..Len(rules) -> Rule]
    BY <1>1, <2>1 DEF ModifyIf
  <2>3. ModifyIf(rules, j.id) \in Seq(Rule)
    BY <1>1, <2>2
  <2>q. QED
    BY <1>5, <2>3 DEF EditRules
<1>6. CASE j.kind = "src"
  <2>1. ModifySrc(rules, j.id, j.list) \in Seq(Rule)
    BY <1>2, <1>6, LoopType, JobType DEF Shown
  <2>q. QED
    BY <1>6, <2>1 DEF EditRules
<1>7. CASE j.kind = "edit"
  <2>1. [j.rule EXCEPT !.act = ToAct] \in Rule
    BY <1>2, <1>7, RuleChange DEF Shown
  <2>2. Replace(rules, j.id, [j.rule EXCEPT !.act = ToAct]) \in Seq(Rule)
    BY <2>1 DEF Replace
  <2>q. QED
    BY <1>7, <2>2 DEF EditRules
<1>8. CASE j.kind = "delete"
  <2>1. Unset(rules, j.id) \in Seq(Rule)
    BY <1>1, <1>2, <1>8 DEF Unset, RemoveAt, Shown
  <2>q. QED
    BY <1>8, <2>1 DEF EditRules
<1>9. CASE j.kind = "add"
  BY <1>1, <1>9 DEF EditRules
<1>q. QED
  BY <1>3, <1>4, <1>5, <1>6, <1>7, <1>8, <1>9 DEF Locked, ByNssh, ByPage

\* Who edits the rules edits the list as it is stored.
LEMMA ApplyRules ==
  ASSUME NEW j, j.kind \in Locked, NEW c \in Config
  PROVE  Apply(j, c) = [c EXCEPT !.rules = EditRules(j, c.rules)]
<1>1. j.kind # "ipsec" /\ j.kind # "lan"
  BY DEF Locked, ByNssh, ByPage
<1>2. FilterRulesSort(c.rules) = c.rules
  BY ConfigFields, SortKeeps
<1>3. Apply(j, c) = [c EXCEPT !.rules = EditRules(j, FilterRulesSort(c.rules))]
  BY <1>1 DEF Apply
<1>q. QED
  BY <1>2, <1>3

LEMMA ApplyType ==
  ASSUME NEW j \in Job, j.kind # "newwan", NEW c \in Config
  PROVE  Apply(j, c) \in Config
<1>1. CASE j.kind \in Locked
  BY <1>1, ApplyRules, EditRulesType, ConfigFields
<1>2. CASE j.kind = "ipsec" \/ j.kind = "lan"
  BY <1>2, ClientsAssumption, ConfigFields DEF Apply
<1>q. QED
  BY <1>1, <1>2, JobType DEF Kinds, Locked

\* A job changes areas that it configures, which the rules always are.
LEMMA ApplyAffects ==
  ASSUME NEW j \in Job, j.kind # "newwan", NEW c \in Config
  PROVE  /\ Affects(j.kind) \subseteq Areas /\ "rules" \in Affects(j.kind)
         /\ \A a \in Areas : a \in Affects(j.kind) \/ Apply(j, c)[a] = c[a]
<1>1. CASE j.kind \in Locked
  <2>1. Affects(j.kind) = {"rules"}
    BY <1>1 DEF Affects, Locked, ByNssh, ByPage
  <2>2. PICK r : Apply(j, c) = [c EXCEPT !.rules = r]
    BY <1>1, ApplyRules
  <2>q. QED
    BY <2>1, <2>2 DEF Areas, Config
<1>2. CASE j.kind = "ipsec"
  BY <1>2 DEF Affects, Apply, Areas, Config, Locked, ByNssh, ByPage
<1>3. CASE j.kind = "lan"
  BY <1>3 DEF Affects, Apply, Areas, Config, Locked, ByNssh, ByPage
<1>q. QED
  BY <1>1, <1>2, <1>3, JobType DEF Kinds, Locked
-----------------------------------------------------------------------------
(* The invariant. *)

\* What a process carries from step to step.
Carries ==
    /\ ~booting => view[rcbootup] \in Config
    /\ \A p \in Requests :
         /\ pc[p] # "idle" => job[p] \in Job
         /\ pc[p] \notin {"idle", "looked"} => view[p] \in Config
         /\ pc[p] = "asked" => pending[p] = Apply(job[p], view[p])
         /\ pc[p] = "saved" => job[p].kind # "newwan"
         /\ pc[p] \in {"rebind", "record"} => job[p].kind = "newwan"

\* What a process knows of the configuration that nobody has stored since its user looked.
Unmissed == \A p \in Requests :
    pc[p] \in {"looked", "loaded", "asked"} /\ ~missed[p] =>
        /\ job[p].kind \in Shown => /\ job[p].id + 1 \in DOMAIN current.rules
                                    /\ current.rules[job[p].id + 1] = job[p].rule
        /\ pc[p] \in {"loaded", "asked"} => view[p] = current

\* Nobody is on the way beside a process that runs alone, which has or has configured what
\* is stored.
Configured(p) == /\ AsStored("rules")
                 /\ job[p].kind \in {"ipsec", "lan"} => AsStored("ipsec")
                 /\ job[p].kind = "lan" => AsStored("lan")

SoloInv == \A p \in Requests : solo[p] =>
    /\ pc[p] \notin {"idle", "looked"}
    /\ \A r \in Procs \ {p} : ~Under(r)
    /\ pc[p] = "saved" => view[p] = current
    /\ pc[p] = "end" /\ job[p].kind # "newwan" => Configured(p)

\* As long as nobody has stored beside another, everybody has what is stored, but for the
\* one who has just stored it; and what is not configured as it is stored, some process
\* is going to configure.
Going(a) == \/ booting /\ (view[rcbootup] = NoConfig \/ a \in {"rules", "ipsec"})
            \/ \E p \in Requests : pc[p] \in {"stored", "saved"} /\ a \in Affects(job[p].kind)

StoreInv == ~crossed =>
    /\ booting => view[rcbootup] \in {NoConfig, current}
    /\ \A p \in Requests : pc[p] \in {"loaded", "asked", "saved", "rebind", "record"} =>
                               view[p] = current
    /\ \A a \in Areas : AsStored(a) \/ Going(a)

\* As long as nothing is amiss, one rc.newwanip at most is setting tunnels and DNS, for the
\* address there is and which is not recorded; and when none is, they are set for the
\* recorded one.
WanInv == ~amiss =>
    /\ \A p, q \in Requests : Rebinding(p) /\ Rebinding(q) => p = q
    /\ \A p \in Requests : Rebinding(p) => job[p].cur = addr /\ wanip # addr
    /\ \A p \in Requests : pc[p] = "record" => tunnels = addr /\ dns = addr
    /\ (\A p \in Requests : ~Rebinding(p)) /\ wanip # NoFile => tunnels = wanip /\ dns = wanip
-----------------------------------------------------------------------------
(* Types. *)

TypeInv == TypeOK /\ Carries

Pcs == {"idle", "looked", "loaded", "asked", "stored", "saved", "rebind", "record", "end"}

\* Configuring takes effect, or fails; what else there is it leaves alone.
LEMMA SetEffect ==
  ASSUME TypeOK, NEW c \in Config, NEW areas, areas \subseteq Areas, Set(areas, c)
  PROVE  /\ inforce' \in [rules : Seq(Rule) \cup {Nothing}, ipsec : Values \cup {Nothing},
                          lan : Values \cup {Nothing}]
         /\ failed' \subseteq Areas
         /\ \A a \in areas : inforce'[a] = c[a] \/ a \in failed' \/ (a = "rules" /\ ~Accepted(c))
         /\ \A a \in Areas \ areas : inforce'[a] = inforce[a] /\ (a \in failed' <=> a \in failed)
         /\ tunnels' \in {tunnels, addr}
         /\ "ipsec" \in areas => tunnels' = addr \/ "ipsec" \in failed'
         /\ "ipsec" \notin areas => tunnels' = tunnels
<1>0. PICK lost \in SUBSET (areas \cap MayFail) :
        LET taken == {a \in areas \ lost : a = "rules" => Accepted(c)}
        IN  /\ inforce' = [a \in Areas |-> IF a \in taken THEN c[a] ELSE inforce[a]]
            /\ failed' = (failed \ areas) \cup lost
            /\ tunnels' = IF "ipsec" \in taken THEN addr ELSE tunnels
  BY DEF Set
<1>1. PICK taken :
        /\ taken = {a \in areas \ lost : a = "rules" => Accepted(c)}
        /\ inforce' = [a \in Areas |-> IF a \in taken THEN c[a] ELSE inforce[a]]
        /\ failed' = (failed \ areas) \cup lost
        /\ tunnels' = IF "ipsec" \in taken THEN addr ELSE tunnels
  BY <1>0
<1>2. \A a \in areas : a \in taken \/ a \in lost \/ (a = "rules" /\ ~Accepted(c))
  BY <1>1
<1>3. \A a \in Areas : inforce'[a] = IF a \in taken THEN c[a] ELSE inforce[a]
  BY <1>1
<1>4. inforce' \in [rules : Seq(Rule) \cup {Nothing}, ipsec : Values \cup {Nothing},
                    lan : Values \cup {Nothing}]
  <2>1. inforce' = [rules |-> inforce'.rules, ipsec |-> inforce'.ipsec, lan |-> inforce'.lan]
    BY <1>1 DEF Areas
  <2>2. /\ inforce'.rules \in Seq(Rule) \cup {Nothing}
        /\ inforce'.ipsec \in Values \cup {Nothing} /\ inforce'.lan \in Values \cup {Nothing}
    BY <1>3, ConfigFields DEF Areas, TypeOK
  <2>q. QED
    BY <2>1, <2>2
<1>5. failed' \subseteq Areas
  BY <1>1 DEF TypeOK
<1>6. \A a \in areas : inforce'[a] = c[a] \/ a \in failed' \/ (a = "rules" /\ ~Accepted(c))
  BY <1>1, <1>2, <1>3
<1>7. \A a \in Areas \ areas : inforce'[a] = inforce[a] /\ (a \in failed' <=> a \in failed)
  BY <1>1, <1>3
<1>8. "ipsec" \in areas => tunnels' = addr \/ "ipsec" \in failed'
  <2>1. "ipsec" \in areas => "ipsec" \in taken \/ "ipsec" \in lost
    BY <1>2
  <2>q. QED
    BY <1>1, <2>1
<1>9. tunnels' \in {tunnels, addr} /\ ("ipsec" \notin areas => tunnels' = tunnels)
  BY <1>1
<1>q. QED
  BY <1>4, <1>5, <1>6, <1>7, <1>8, <1>9

\* By what is stored, it leaves as it is stored what it configures.
LEMMA SetAsStored ==
  ASSUME TypeOK, NEW areas, areas \subseteq Areas, Set(areas, current), current' = current
  PROVE  \A a \in Areas : a \in areas \/ AsStored(a) => AsStored(a)'
<1>1. /\ \A a \in areas : inforce'[a] = current[a] \/ a \in failed' \/ (a = "rules" /\ ~Accepted(current))
      /\ \A a \in Areas \ areas : inforce'[a] = inforce[a] /\ (a \in failed' <=> a \in failed)
  BY SetEffect DEF TypeOK
<1>2. Accepted(current)' <=> Accepted(current)
  BY DEF Accepted
<1>q. QED
  BY <1>1, <1>2, Zenon DEF AsStored

LEMMA BootAreas == {"rules", "lan"} \subseteq Areas /\ Affects("ipsec") = {"rules", "ipsec"}
                   /\ Affects("ipsec") \subseteq Areas
<1>q. QED
  BY DEF Areas, Affects, Locked, ByNssh, ByPage

LEMMA TypeInit == Init => TypeInv
<1> SUFFICES ASSUME Init PROVE TypeInv
  OBVIOUS
<1>1. missed \in [Requests -> BOOLEAN] /\ solo \in [Requests -> BOOLEAN]
  BY DEF Init
<1>2. TypeOK
  <2>1. MaxRuns \in Nat /\ MaxMoves \in Nat /\ Shipped \in Config
    BY ClientsAssumption
  <2>2. jobs \in 0..MaxRuns /\ moves \in 0..MaxMoves
    BY <2>1 DEF Init
  <2>3. \A p \in Requests : pc[p] = "idle"
    BY DEF Init
  <2>q. QED
    BY <1>1, <2>1, <2>2, <2>3 DEF Init, TypeOK, Areas
<1>3. Carries
  BY DEF Init, Carries
<1>q. QED
  BY <1>2, <1>3 DEF TypeInv

\* The user has seen the rule that is stored at the number.
ShownAt(n, j) == /\ n + 1 \in DOMAIN current.rules
                 /\ j.kind \in Shown /\ j.id = n /\ j.rule = current.rules[n + 1]

LEMMA LookShows ==
  ASSUME TypeInv, NEW p \in Requests, Look(p)
  PROVE  \E n \in Picks, j \in Job : ShownAt(n, j) /\ job' = [job EXCEPT ![p] = j]
<1>1. PICK n \in Picks :
        /\ n + 1 \in DOMAIN current.rules
        /\ LET rule == FilterRulesSort(current.rules)[n + 1]
           IN  \/ \E k \in Shown \ {"src"} :
                     job' = [job EXCEPT ![p] = [kind |-> k, id |-> n, rule |-> rule]]
               \/ \E l \in Lists : job' = [job EXCEPT ![p] =
                     [kind |-> "src", id |-> n, rule |-> rule, list |-> l]]
  BY DEF Look
<1>2. PICK rule \in Rule : rule = current.rules[n + 1] /\ rule = FilterRulesSort(current.rules)[n + 1]
  <2>1. FilterRulesSort(current.rules) = current.rules /\ current.rules[n + 1] \in Rule
    BY <1>1, SortKeeps, ConfigFields DEF TypeInv, TypeOK
  <2>q. QED
    BY <2>1
<1>3. n \in Nat /\ "src" \in Shown
  BY ClientsAssumption DEF Shown
<1>4. CASE \E k \in Shown \ {"src"} : job' = [job EXCEPT ![p] = [kind |-> k, id |-> n, rule |-> rule]]
  <2>1. PICK k \in Shown \ {"src"} : job' = [job EXCEPT ![p] = [kind |-> k, id |-> n, rule |-> rule]]
    BY <1>4
  <2>2. PICK j : j = [kind |-> k, id |-> n, rule |-> rule]
    OBVIOUS
  <2>3. j \in Job /\ ShownAt(n, j)
    BY <1>1, <1>2, <1>3, <2>2, JobType DEF ShownAt
  <2>q. QED
    BY <2>1, <2>2, <2>3
<1>5. CASE \E l \in Lists : job' = [job EXCEPT ![p] = [kind |-> "src", id |-> n, rule |-> rule, list |-> l]]
  <2>1. PICK l \in Lists : job' = [job EXCEPT ![p] = [kind |-> "src", id |-> n, rule |-> rule, list |-> l]]
    BY <1>5
  <2>2. PICK j : j = [kind |-> "src", id |-> n, rule |-> rule, list |-> l]
    OBVIOUS
  <2>3. j \in Job /\ ShownAt(n, j)
    BY <1>1, <1>2, <1>3, <2>2, JobType DEF ShownAt
  <2>q. QED
    BY <2>1, <2>2, <2>3
<1>q. QED
  BY <1>1, <1>2, <1>4, <1>5

\* A user begins a job.
LEMMA BeginType == ASSUME TypeInv, NEW p \in Requests, Look(p) \/ Call(p) PROVE TypeInv'
<1> USE DEF TypeInv
<1>1. PICK j \in Job : job' = [job EXCEPT ![p] = j]
  <2>1. CASE Look(p)
    <3>1. PICK n \in Picks, j \in Job : ShownAt(n, j) /\ job' = [job EXCEPT ![p] = j]
      BY <2>1, LookShows
    <3>q. QED
      BY <3>1
  <2>2. CASE Call(p)
    BY <2>2, JobType DEF Call
  <2>q. QED
    BY <2>1, <2>2
<1>2. jobs' \in 0..MaxRuns
  <2>1. jobs' = jobs + 1 /\ jobs < MaxRuns /\ jobs \in Nat /\ MaxRuns \in Nat
    BY ClientsAssumption DEF Look, Call, TypeOK
  <2>q. QED
    BY <2>1
<1>3. missed' \in [Requests -> BOOLEAN]
  BY DEF Look, Call, TypeOK
<1>4. /\ pc' = [pc EXCEPT ![p] = "looked"]
      /\ UNCHANGED <<regVars, setting, booting, wan, solo, crossed>>
  BY DEF Look, Call, To
<1>5. TypeOK'
  BY <1>1, <1>2, <1>3, <1>4 DEF TypeOK, regVars, setting, wan
<1>6. Carries'
  BY <1>1, <1>4 DEF TypeOK, Carries, regVars
<1>q. QED
  BY <1>5, <1>6

LEMMA LoadType == ASSUME TypeInv, NEW p \in Requests, Load(p) PROVE TypeInv'
<1> USE DEF TypeInv
<1>1. missed' \in [Requests -> BOOLEAN] /\ solo' \in [Requests -> BOOLEAN]
  BY DEF Load, TypeOK
<1>3. /\ view' = [view EXCEPT ![p] = current] /\ current \in Config
      /\ pc' = [pc EXCEPT ![p] = "loaded"] /\ pc[p] = "looked"
      /\ UNCHANGED <<current, pending, setting, booting, wan, job, crossed, jobs>>
  BY DEF Load, RegLoad, To, TypeOK
<1>4. p \in Procs /\ p # rcbootup /\ Requests \subseteq Procs
  BY DEF Requests
<1>5. TypeOK'
  BY <1>1, <1>3, <1>4 DEF TypeOK, setting, wan
<1>6. Carries'
  BY <1>3, <1>4 DEF TypeOK, Carries
<1>q. QED
  BY <1>5, <1>6

LEMMA LeaveType == ASSUME TypeInv, NEW p \in Requests, Quit(p) \/ End(p) PROVE TypeInv'
<1> USE DEF TypeInv
<1>1. missed' \in [Requests -> BOOLEAN] /\ solo' \in [Requests -> BOOLEAN]
  BY DEF Quit, End, Leave, TypeOK
<1>2. /\ view' = [view EXCEPT ![p] = NoConfig] /\ job' = [job EXCEPT ![p] = NoJob]
      /\ pc' = [pc EXCEPT ![p] = "idle"]
      /\ UNCHANGED <<current, pending, setting, booting, wan, crossed, jobs>>
  BY DEF Quit, End, Leave, RegForget, To
<1>3. p \in Procs /\ p # rcbootup /\ Requests \subseteq Procs
  BY DEF Requests
<1>4. TypeOK'
  BY <1>1, <1>2, <1>3 DEF TypeOK, setting, wan
<1>5. Carries'
  BY <1>2, <1>3 DEF TypeOK, Carries
<1>q. QED
  BY <1>4, <1>5

LEMMA AskType == ASSUME TypeInv, NEW p \in Requests, Ask(p) PROVE TypeInv'
<1> USE DEF TypeInv
<1>1. /\ pending' = [pending EXCEPT ![p] = Apply(job[p], view[p])]
      /\ pc' = [pc EXCEPT ![p] = "asked"] /\ job[p].kind # "newwan" /\ pc[p] = "loaded"
      /\ UNCHANGED <<current, view, setting, booting, wan, job, history, jobs>>
  BY DEF Ask, RegAskFor, To
<1>2. job[p] \in Job /\ view[p] \in Config
  BY <1>1 DEF Carries
<1>3. Apply(job[p], view[p]) \in Config
  BY <1>1, <1>2, ApplyType
<1>4. p \in Procs /\ p # rcbootup /\ Requests \subseteq Procs
  BY DEF Requests
<1>5. TypeOK'
  BY <1>1, <1>3, <1>4 DEF TypeOK, setting, wan, history
<1>6. Carries'
  BY <1>1, <1>4 DEF TypeOK, Carries
<1>q. QED
  BY <1>5, <1>6

LEMMA StoreType == ASSUME TypeInv, NEW p \in Requests, Store(p) PROVE TypeInv'
<1> USE DEF TypeInv
<1>1. missed' \in [Requests -> BOOLEAN] /\ crossed' \in BOOLEAN
  BY DEF Store, TypeOK
<1>2. /\ current' = pending[p] /\ pending[p] # NoConfig
      /\ pending' = [pending EXCEPT ![p] = NoConfig]
      /\ pc' = [pc EXCEPT ![p] = "stored"] /\ pc[p] = "asked"
      /\ UNCHANGED <<view, setting, booting, wan, job, solo, jobs>>
  BY DEF Store, RegStore, To
<1>3. p \in Procs /\ p # rcbootup /\ Requests \subseteq Procs
  BY DEF Requests
<1>4. TypeOK'
  BY <1>1, <1>2, <1>3 DEF TypeOK, setting, wan
<1>5. Carries'
  BY <1>2, <1>3 DEF TypeOK, Carries
<1>q. QED
  BY <1>4, <1>5

LEMMA RereadType == ASSUME TypeInv, NEW p \in Requests, Reread(p) PROVE TypeInv'
<1> USE DEF TypeInv
<1>1. /\ view' = [view EXCEPT ![p] = current] /\ current \in Config
      /\ pc' = [pc EXCEPT ![p] = "saved"] /\ pc[p] = "stored"
      /\ UNCHANGED <<current, pending, setting, booting, wan, job, history, jobs>>
  BY DEF Reread, RegLoad, To, TypeOK
<1>2. p \in Procs /\ p # rcbootup /\ Requests \subseteq Procs
  BY DEF Requests
<1>3. TypeOK'
  BY <1>1, <1>2 DEF TypeOK, setting, wan, history
<1>4. Carries'
  BY <1>1, <1>2 DEF TypeOK, Carries
<1>q. QED
  BY <1>3, <1>4

LEMMA ConfigureType == ASSUME TypeInv, NEW p \in Requests, Configure(p) PROVE TypeInv'
<1> USE DEF TypeInv
<1>1. /\ Set(Affects(job[p].kind), view[p]) /\ view[p] \in Config
      /\ job[p] \in Job /\ job[p].kind # "newwan"
      /\ pc' = [pc EXCEPT ![p] = "end"] /\ pc[p] = "saved"
      /\ UNCHANGED <<regVars, booting, addr, wanip, dns, moves, job, history, jobs>>
  BY DEF Configure, To, Carries
<1>2. Affects(job[p].kind) \subseteq Areas
  BY <1>1, ApplyAffects
<1>3. /\ inforce' \in [rules : Seq(Rule) \cup {Nothing}, ipsec : Values \cup {Nothing},
                       lan : Values \cup {Nothing}]
      /\ failed' \subseteq Areas /\ tunnels' \in {tunnels, addr}
  BY <1>1, <1>2, SetEffect
<1>4. amiss' \in BOOLEAN
  BY Zenon DEF Configure, TypeOK, Unrecorded, Rebinding
<1>5. TypeOK'
  BY <1>1, <1>3, <1>4 DEF TypeOK, regVars, history
<1>6. Carries'
  BY <1>1 DEF TypeOK, Carries, regVars
<1>q. QED
  BY <1>5, <1>6

LEMMA BootType == ASSUME TypeInv, BootLoad \/ BootEnd PROVE TypeInv'
<1> USE DEF TypeInv
<1>1. CASE BootLoad
  <2>1. /\ view' = [view EXCEPT ![rcbootup] = current] /\ current \in Config
        /\ Set({"rules", "lan"}, current)
        /\ UNCHANGED <<current, pending, booting, wan, pc, job, history, jobs>>
    BY <1>1 DEF BootLoad, RegLoad, TypeOK
  <2>2. /\ inforce' \in [rules : Seq(Rule) \cup {Nothing}, ipsec : Values \cup {Nothing},
                         lan : Values \cup {Nothing}]
        /\ failed' \subseteq Areas /\ tunnels' \in {tunnels, addr}
    BY <2>1, SetEffect, BootAreas
  <2>3. rcbootup \in Procs /\ rcbootup \notin Requests /\ Requests \subseteq Procs
    BY ClientsAssumption DEF Requests
  <2>4. TypeOK'
    BY <2>1, <2>2, <2>3 DEF TypeOK, wan, history
  <2>5. Carries'
    BY <2>1, <2>3 DEF TypeOK, Carries
  <2>q. QED
    BY <2>4, <2>5
<1>2. CASE BootEnd
  <2>1. /\ Set(Affects("ipsec"), view[rcbootup]) /\ view[rcbootup] \in Config /\ booting' = FALSE
        /\ UNCHANGED <<regVars, addr, wanip, dns, moves, pc, job, history, jobs>>
    BY <1>2, ClientsAssumption DEF BootEnd, TypeOK
  <2>2. /\ inforce' \in [rules : Seq(Rule) \cup {Nothing}, ipsec : Values \cup {Nothing},
                         lan : Values \cup {Nothing}]
        /\ failed' \subseteq Areas /\ tunnels' \in {tunnels, addr}
    BY <2>1, SetEffect, BootAreas
  <2>3. amiss' \in BOOLEAN /\ booting' \in BOOLEAN
    BY <1>2, Zenon DEF BootEnd, TypeOK, Unrecorded, Rebinding
  <2>a. UNCHANGED <<regVars, addr, wanip, dns, moves, pc, job, history, jobs>>
    BY <2>1
  <2>4. TypeOK'
    BY <2>2, <2>3, <2>a DEF TypeOK, regVars, history
  <2>5. Carries'
    BY <2>1 DEF TypeOK, Carries, regVars
  <2>q. QED
    BY <2>4, <2>5
<1>q. QED
  BY <1>1, <1>2

LEMMA PowerLossType == ASSUME TypeInv, PowerLoss PROVE TypeInv'
<1> USE DEF TypeInv
<1>1. missed' \in [Requests -> BOOLEAN] /\ solo' \in [Requests -> BOOLEAN]
  BY DEF PowerLoss
<1>2. TypeOK'
  BY <1>1 DEF PowerLoss, RegPowerLoss, TypeOK, Areas
<1>3. Carries'
  BY DEF PowerLoss, Carries
<1>q. QED
  BY <1>2, <1>3

LEMMA WanType ==
  ASSUME TypeInv, Move \/ \E p \in Requests : Compare(p) \/ Rebind(p) \/ Record(p)
  PROVE  TypeInv'
<1> USE DEF TypeInv
<1>1. CASE Move
  <2>1. moves' \in 0..MaxMoves
    BY <1>1, ClientsAssumption DEF Move, TypeOK
  <2>a. amiss' \in BOOLEAN
    BY <1>1, Zenon DEF Move, TypeOK, Rebinding
  <2>2. TypeOK'
    BY <1>1, <2>1, <2>a DEF Move, TypeOK, regVars, setting, history
  <2>3. Carries'
    BY <1>1 DEF Move, TypeOK, Carries, regVars
  <2>q. QED
    BY <2>2, <2>3
<1>2. ASSUME NEW p \in Requests, Compare(p) PROVE TypeInv'
  <2>1. /\ pc[p] = "loaded" /\ job[p].kind = "newwan" /\ job[p] \in Job
        /\ job' = [job EXCEPT ![p] = [job[p] EXCEPT !.cur = addr]]
    BY <1>2 DEF Compare, Carries, TypeOK
  <2>2. PICK l \in {"end", "rebind"} : pc' = [pc EXCEPT ![p] = l]
    BY <1>2 DEF Compare, To
  <2>3. PICK j \in Job : /\ j.kind = "newwan" /\ j = [job[p] EXCEPT !.cur = addr]
                         /\ job' = [job EXCEPT ![p] = j]
    <3>1. PICK o \in Job, a \in Addrs : o = job[p] /\ a = addr
      BY <2>1 DEF TypeOK
    <3>2. [o EXCEPT !.cur = a] \in Job /\ [o EXCEPT !.cur = a].kind = "newwan"
      BY <2>1, <3>1, JobType
    <3>q. QED
      BY <2>1, <3>1, <3>2
  <2>4. UNCHANGED <<regVars, setting, booting, addr, wanip, dns, moves, history, jobs>>
    BY <1>2 DEF Compare
  <2>a. amiss' \in BOOLEAN
    BY <1>2, Zenon DEF Compare, TypeOK, Rebinding
  <2>5. TypeOK'
    BY <2>2, <2>3, <2>4, <2>a DEF TypeOK, regVars, setting, history
  <2>6. Carries'
    BY <2>1, <2>2, <2>3, <2>4 DEF TypeOK, Carries, regVars
  <2>q. QED
    BY <2>5, <2>6
<1>3. ASSUME NEW p \in Requests, Rebind(p) PROVE TypeInv'
  <2>1. /\ Set(Affects("ipsec"), view[p]) /\ view[p] \in Config /\ dns' = addr
        /\ pc' = [pc EXCEPT ![p] = "record"] /\ pc[p] = "rebind"
        /\ UNCHANGED <<regVars, booting, addr, wanip, moves, job, history, jobs>>
    BY <1>3 DEF Rebind, To, Carries
  <2>2. /\ inforce' \in [rules : Seq(Rule) \cup {Nothing}, ipsec : Values \cup {Nothing},
                         lan : Values \cup {Nothing}]
        /\ failed' \subseteq Areas /\ tunnels' \in {tunnels, addr}
    BY <2>1, SetEffect, BootAreas
  <2>a. amiss' \in BOOLEAN
    BY <1>3, Zenon DEF Rebind, TypeOK
  <2>3. TypeOK'
    BY <2>1, <2>2, <2>a DEF TypeOK, regVars, history
  <2>4. Carries'
    BY <2>1 DEF TypeOK, Carries, regVars
  <2>q. QED
    BY <2>3, <2>4
<1>4. ASSUME NEW p \in Requests, Record(p) PROVE TypeInv'
  <2>1. /\ wanip' = job[p].cur /\ pc' = [pc EXCEPT ![p] = "end"] /\ pc[p] = "record"
        /\ UNCHANGED <<regVars, setting, booting, addr, dns, amiss, moves, job, history, jobs>>
    BY <1>4 DEF Record, To
  <2>2. job[p].cur \in Addrs \cup {NoFile}
    BY <2>1, JobType DEF Carries, Shown
  <2>3. TypeOK'
    BY <2>1, <2>2 DEF TypeOK, regVars, setting, history
  <2>4. Carries'
    BY <2>1 DEF TypeOK, Carries, regVars
  <2>q. QED
    BY <2>3, <2>4
<1>q. QED
  BY <1>1, <1>2, <1>3, <1>4

LEMMA TypeStep == TypeInv /\ [Next]_vars => TypeInv'
<1> SUFFICES ASSUME TypeInv, [Next]_vars PROVE TypeInv'
  OBVIOUS
<1>1. CASE UNCHANGED vars
  BY <1>1 DEF vars, regVars, setting, wan, history, TypeInv, TypeOK, Carries
<1>q. QED
  BY <1>1, BeginType, LoadType, LeaveType, AskType, StoreType, RereadType, ConfigureType,
     BootType, PowerLossType, WanType DEF Next

\* Whatever is asked for, what is stored and what is configured is a configuration.
THEOREM ClientsTypeCorrect == Spec => []TypeOK
<1>1. TypeInv => TypeOK
  BY DEF TypeInv
<1>q. QED
  BY TypeInit, TypeStep, <1>1, PTL DEF Spec
-----------------------------------------------------------------------------
(* Edits are exact. *)

LEMMA UnmissedStep == TypeInv /\ Unmissed /\ [Next]_vars => Unmissed'
<1> SUFFICES ASSUME TypeInv, Unmissed, [Next]_vars,
                    NEW q \in Requests, pc'[q] \in {"looked", "loaded", "asked"}, ~missed'[q]
             PROVE  /\ job'[q].kind \in Shown => /\ job'[q].id + 1 \in DOMAIN current'.rules
                                                 /\ current'.rules[job'[q].id + 1] = job'[q].rule
                    /\ pc'[q] \in {"loaded", "asked"} => view'[q] = current'
  BY DEF Unmissed
<1> DEFINE Goal == /\ job'[q].kind \in Shown => /\ job'[q].id + 1 \in DOMAIN current'.rules
                                                /\ current'.rules[job'[q].id + 1] = job'[q].rule
                   /\ pc'[q] \in {"loaded", "asked"} => view'[q] = current'
<1>t. /\ pc \in [Requests -> Pcs] /\ job \in [Requests -> Job \cup {NoJob}]
      /\ DOMAIN view = Procs /\ DOMAIN missed = Requests
      /\ Requests \subseteq Procs /\ rcbootup \notin Requests
  BY DEF TypeInv, TypeOK, Pcs, Requests
<1>u. ASSUME pc[q] \in {"looked", "loaded", "asked"}, missed'[q] = missed[q],
             current' = current, job'[q] = job[q],
             pc'[q] \in {"loaded", "asked"} => view'[q] = current \/ (pc'[q] = pc[q] /\ view'[q] = view[q])
      PROVE  Goal
  BY <1>u DEF Unmissed
<1>1. ASSUME NEW p \in Requests, Look(p) PROVE Goal
  <2>1. /\ pc' = [pc EXCEPT ![p] = "looked"] /\ UNCHANGED regVars
        /\ missed' = [missed EXCEPT ![p] = FALSE]
    BY <1>1 DEF Look, To
  <2>a. PICK n \in Picks, j \in Job : ShownAt(n, j) /\ job' = [job EXCEPT ![p] = j]
    BY <1>1, LookShows
  <2>2. CASE q = p
    BY <1>t, <2>1, <2>2, <2>a DEF regVars, ShownAt
  <2>3. CASE q # p
    BY <1>t, <1>u, <2>1, <2>3, <2>a DEF regVars
  <2>q. QED
    BY <2>2, <2>3
<1>2. ASSUME NEW p \in Requests, Call(p) PROVE Goal
  <2>1. /\ pc' = [pc EXCEPT ![p] = "looked"] /\ UNCHANGED regVars
        /\ missed' = [missed EXCEPT ![p] = FALSE]
        /\ \E k \in Kinds \ Shown : job' = [job EXCEPT ![p] = [kind |-> k, cur |-> NoFile]]
    BY <1>2 DEF Call, To
  <2>2. CASE q = p
    BY <1>t, <2>1, <2>2 DEF regVars
  <2>3. CASE q # p
    BY <1>t, <1>u, <2>1, <2>3 DEF regVars
  <2>q. QED
    BY <2>2, <2>3
<1>3. ASSUME NEW p \in Requests, Load(p) PROVE Goal
  <2>1. /\ pc' = [pc EXCEPT ![p] = "loaded"] /\ pc[p] = "looked"
        /\ view' = [view EXCEPT ![p] = current] /\ current' = current /\ job' = job
        /\ missed' = [missed EXCEPT ![p] = @ /\ job[p].kind \in Shown]
    BY <1>3 DEF Load, RegLoad, To
  <2>2. CASE q = p
    <3>1. job[p].kind \in Shown => ~missed[p]
      BY <1>t, <2>1, <2>2, Zenon
    <3>2. view'[p] = current /\ current' = current /\ job'[p] = job[p] /\ pc[p] = "looked"
      BY <1>t, <2>1
    <3>q. QED
      BY <2>2, <3>1, <3>2 DEF Unmissed
  <2>3. CASE q # p
    <3>1. missed'[q] = missed[q]
      BY <1>t, <2>1, <2>3, Zenon
    <3>q. QED
      BY <1>t, <1>u, <2>1, <2>3, <3>1
  <2>q. QED
    BY <2>2, <2>3
<1>4. ASSUME NEW p \in Requests, Quit(p) \/ End(p) PROVE Goal
  <2>1. /\ pc' = [pc EXCEPT ![p] = "idle"] /\ current' = current
        /\ view' = [view EXCEPT ![p] = NoConfig] /\ job' = [job EXCEPT ![p] = NoJob]
        /\ missed' = [missed EXCEPT ![p] = FALSE]
    BY <1>4 DEF Quit, End, Leave, RegForget, To
  <2>2. q # p
    BY <1>t, <2>1
  <2>q. QED
    BY <1>t, <1>u, <2>1, <2>2
<1>5. ASSUME NEW p \in Requests, Ask(p) PROVE Goal
  <2>1. /\ pc' = [pc EXCEPT ![p] = "asked"] /\ pc[p] = "loaded" /\ current' = current
        /\ view' = view /\ job' = job /\ missed' = missed
    BY <1>5 DEF Ask, RegAskFor, To, history
  <2>2. CASE q = p
    BY <1>t, <2>1, <2>2 DEF Unmissed
  <2>3. CASE q # p
    BY <1>t, <1>u, <2>1, <2>3
  <2>q. QED
    BY <2>2, <2>3
<1>6. ASSUME NEW p \in Requests, Store(p) PROVE Goal
  <2>1. /\ pc' = [pc EXCEPT ![p] = "stored"]
        /\ missed' = [r \in Requests |->
                        missed[r] \/ (r # p /\ pc[r] \in {"looked", "loaded", "asked"})]
    BY <1>6 DEF Store, To
  <2>2. q # p /\ pc[q] \in {"looked", "loaded", "asked"}
    BY <1>t, <2>1
  <2>3. missed'[q]
    BY <2>1, <2>2, Zenon
  <2>q. QED
    BY <2>3
<1>7. ASSUME NEW p \in Requests,
             Reread(p) \/ Configure(p) \/ Compare(p) \/ Rebind(p) \/ Record(p)
      PROVE  Goal
  <2>1. /\ pc' = [pc EXCEPT ![p] = pc'[p]] /\ pc'[p] \notin {"looked", "loaded", "asked"}
        /\ current' = current /\ missed' = missed
        /\ \A r \in Requests \ {p} : view'[r] = view[r] /\ job'[r] = job[r]
    BY <1>t, <1>7 DEF Reread, RegLoad, Configure, Compare, Rebind, Record, To, regVars, history
  <2>2. q # p
    BY <2>1
  <2>q. QED
    BY <1>t, <1>u, <2>1, <2>2
<1>8. CASE BootLoad \/ BootEnd \/ Move \/ UNCHANGED vars
  <2>1. pc' = pc /\ current' = current /\ missed' = missed /\ job' = job
        /\ \A r \in Requests : view'[r] = view[r]
    BY <1>t, <1>8 DEF BootLoad, RegLoad, BootEnd, Move, vars, regVars, history
  <2>q. QED
    BY <1>u, <2>1
<1>9. CASE PowerLoss
  BY <1>9 DEF PowerLoss
<1>q. QED
  BY <1>1, <1>2, <1>3, <1>4, <1>5, <1>6, <1>7, <1>8, <1>9 DEF Next

\* What is done to the rule with the number is what was asked for the rule that was shown,
\* if that is the rule with the number.
LEMMA AppliesAsAsked ==
  ASSUME NEW j \in Job, NEW c \in Config, Distinct(c.rules), ~Rematches(j, c), j.kind # "newwan",
         j.kind \in Shown => j.id + 1 \in DOMAIN c.rules /\ c.rules[j.id + 1] = j.rule
  PROVE  Apply(j, c) = Asked(j, c)
<1>1. c.rules \in Seq(Rule)
  BY ConfigFields
<1> DEFINE n == j.id + 1
           Changed(f) == [i \in DOMAIN c.rules |-> IF c.rules[i].name = j.rule.name THEN f ELSE c.rules[i]]
<1>2. ASSUME j.kind \in Shown
      PROVE  /\ j.id \in Nat /\ n \in DOMAIN c.rules
             /\ \A i \in DOMAIN c.rules : c.rules[i].name = j.rule.name <=> i = n
             /\ \A f : Changed(f) = [c.rules EXCEPT ![n] = f]
  <2>1. j.id \in Nat /\ n \in DOMAIN c.rules /\ c.rules[n] = j.rule
    BY <1>2, JobType
  <2>2. \A i \in DOMAIN c.rules : c.rules[i].name = j.rule.name <=> i = n
    BY <2>1 DEF Distinct
  <2>q. QED
    BY <1>1, <2>1, <2>2
<1>3. ASSUME j.kind \in {"act", "iface"}
      PROVE  \A i \in DOMAIN c.rules : /\ i - 1 = j.id <=> c.rules[i].name = j.rule.name
                                       /\ i - 1 = j.id => c.rules[i] = j.rule
  BY <1>1, <1>2, <1>3 DEF Shown
<1>a. j.kind \in Locked => Apply(j, c) = [c EXCEPT !.rules = EditRules(j, c.rules)]
  BY ApplyRules
<1>4. CASE j.kind = "act"
  <2>1. ModifyAct(c.rules, j.id) = Changed([j.rule EXCEPT !.act = ToAct])
    BY <1>3, <1>4 DEF ModifyAct
  <2>q. QED
    BY <1>4, <1>a, <2>1 DEF Locked, ByNssh, EditRules, Asked
<1>5. CASE j.kind = "iface"
  <2>1. ModifyIf(c.rules, j.id) = Changed([j.rule EXCEPT !.if = ToIf])
    BY <1>3, <1>5 DEF ModifyIf
  <2>q. QED
    BY <1>5, <1>a, <2>1 DEF Locked, ByNssh, EditRules, Asked
<1>6. CASE j.kind = "edit"
  <2>1. Replace(c.rules, j.id, [j.rule EXCEPT !.act = ToAct]) = Changed([j.rule EXCEPT !.act = ToAct])
    BY <1>2, <1>6 DEF Replace, Shown
  <2>q. QED
    BY <1>6, <1>a, <2>1 DEF Locked, ByPage, EditRules, Asked
<1>7. CASE j.kind = "src"
  <2>1. ModifySrc(c.rules, j.id, j.list) = [c.rules EXCEPT ![n] = [@ EXCEPT !.src = j.list]]
    <3>1. j.id \in Nat /\ j.id + 1 \in DOMAIN c.rules /\ j.list \in Lists
      BY <1>2, <1>7, JobType DEF Shown
    <3>2. ~(j.id > Len(j.list) /\ 2 * j.id - Len(j.list) < Len(c.rules))
      BY <1>7 DEF Rematches
    <3>3. PICK rules \in Seq(Rule), id \in Nat, list \in Lists :
            rules = c.rules /\ id = j.id /\ list = j.list
      BY <1>1, <3>1
    <3>a. id + 1 \in DOMAIN rules /\ ~(id > Len(list) /\ 2 * id - Len(list) < Len(rules))
      BY <3>1, <3>2, <3>3
    <3>4. ModifySrc(rules, id, list) = Sourced(rules, id, list)
      BY <3>a, LoopExact
    <3>q. QED
      BY <3>3, <3>4 DEF Sourced
  <2>2. c.rules[n] = j.rule
    BY <1>7 DEF Shown
  <2>3. ModifySrc(c.rules, j.id, j.list) = Changed([j.rule EXCEPT !.src = j.list])
    BY <1>2, <1>7, <2>1, <2>2 DEF Shown
  <2>q. QED
    BY <1>7, <1>a, <2>3 DEF Locked, ByNssh, EditRules, Asked
<1>8. CASE j.kind = "delete"
  <2>1. (CHOOSE i \in DOMAIN c.rules : c.rules[i].name = j.rule.name) = n
    BY <1>2, <1>8 DEF Shown
  <2>2. Unset(c.rules, j.id) = RemoveAt(c.rules, n)
    BY <1>2, <1>8 DEF Unset, Shown
  <2>q. QED
    BY <1>8, <1>a, <2>1, <2>2 DEF Locked, ByPage, EditRules, Asked
<1>9. CASE j.kind = "add"
  BY <1>9, <1>a DEF Locked, ByPage, EditRules, Asked
<1>10. CASE j.kind = "same"
  <2>1. Apply(j, c) = [c EXCEPT !.rules = c.rules]
    BY <1>10, <1>a DEF Locked, ByNssh, EditRules
  <2>q. QED
    BY <1>10, <2>1, ConfigFields DEF Asked, Config
<1>11. CASE j.kind \in {"ipsec", "lan"}
  BY <1>11 DEF Apply, Asked
<1>q. QED
  BY <1>4, <1>5, <1>6, <1>7, <1>8, <1>9, <1>10, <1>11, JobType DEF Kinds, ByNssh, ByPage

\* A store changes what its user asked for and nothing else, unless somebody has stored in
\* between or the loop comes to the number again.
THEOREM EditsAreExact == Spec => EditsExact
<1> DEFINE Exact == \A p \in Requests : Store(p) /\ ~missed[p] /\ Distinct(current.rules)
                                        /\ ~Rematches(job[p], current) =>
                                          current' = Asked(job[p], current)
<1>1. TypeInv /\ Unmissed /\ [Next]_vars => [Exact]_vars
  <2> SUFFICES ASSUME TypeInv, Unmissed, NEW p \in Requests, Store(p), ~missed[p],
                      Distinct(current.rules), ~Rematches(job[p], current)
               PROVE  current' = Asked(job[p], current)
    OBVIOUS
  <2>1. pc[p] = "asked" /\ current' = pending[p]
    BY DEF Store, RegStore
  <2>2. /\ job[p].kind \in Shown => /\ job[p].id + 1 \in DOMAIN current.rules
                                    /\ current.rules[job[p].id + 1] = job[p].rule
        /\ view[p] = current
    BY <2>1 DEF Unmissed
  <2>3. job[p] \in Job /\ pending[p] = Apply(job[p], current) /\ current \in Config
    BY <2>1, <2>2 DEF TypeInv, TypeOK, Carries
  <2>4. job[p].kind # "newwan"
    BY <2>1 DEF TypeInv, TypeOK
  <2>q. QED
    BY <2>1, <2>2, <2>3, <2>4, AppliesAsAsked
<1>2. Init => Unmissed
  BY DEF Init, Unmissed
<1>q. QED
  BY TypeInit, TypeStep, UnmissedStep, <1>1, <1>2, PTL DEF Spec, EditsExact
-----------------------------------------------------------------------------
(* A process alone. *)

\* Where one goes on by itself, the others are as they were.
LEMMA OthersStay ==
  ASSUME TypeInv, NEW p \in Requests, NEW l, To(p, l), booting' = booting
  PROVE  \A r \in Procs \ {p} : Under(r)' <=> Under(r)
<1>1. \A r \in Requests \ {p} : pc'[r] = pc[r]
  BY DEF TypeInv, TypeOK, To
<1>q. QED
  BY <1>1 DEF Under, Requests

\* Nothing goes on beside one that is alone.
LEMMA AloneGoesOn ==
  ASSUME TypeInv, SoloInv, NEW p \in Requests, pc[p] \notin {"idle", "looked", "end"},
         NEW l, To(p, l), booting' = booting, NEW q \in Requests, solo[q]
  PROVE  q = p /\ pc'[p] = l /\ (\A r \in Procs \ {q} : ~Under(r)')
<1>1. p \in Procs /\ p # rcbootup
  BY DEF Requests
<1>2. Under(p)
  BY <1>1 DEF Under
<1>3. q = p /\ \A r \in Procs \ {q} : ~Under(r)
  BY <1>1, <1>2 DEF SoloInv
<1>4. pc'[p] = l
  BY DEF To, TypeInv, TypeOK
<1>q. QED
  BY <1>3, <1>4, OthersStay

\* Where nothing is stored or configured, one is configured as it was.
LEMMA StaysAsStored ==
  ASSUME UNCHANGED <<current, setting>> PROVE \A a : AsStored(a)' <=> AsStored(a)
<1>q. QED
  BY DEF setting, AsStored, Accepted

LEMMA StaysConfigured ==
  ASSUME UNCHANGED <<current, setting>>, NEW q \in Requests, job'[q] = job[q]
  PROVE  Configured(q)' <=> Configured(q)
<1>1. \A a : AsStored(a)' <=> AsStored(a)
  BY StaysAsStored
<1>q. QED
  BY <1>1 DEF Configured

LEMMA SoloInvStep == TypeInv /\ SoloInv /\ [Next]_vars => SoloInv'
<1> SUFFICES ASSUME TypeInv, SoloInv, [Next]_vars, NEW q \in Requests, solo'[q]
             PROVE  /\ pc'[q] \notin {"idle", "looked"}
                    /\ \A r \in Procs \ {q} : ~Under(r)'
                    /\ pc'[q] = "saved" => view'[q] = current'
                    /\ pc'[q] = "end" /\ job'[q].kind # "newwan" => Configured(q)'
  BY DEF SoloInv
<1> DEFINE Goal == /\ pc'[q] \notin {"idle", "looked"}
                   /\ \A r \in Procs \ {q} : ~Under(r)'
                   /\ pc'[q] = "saved" => view'[q] = current'
                   /\ pc'[q] = "end" /\ job'[q].kind # "newwan" => Configured(q)'
<1>t. /\ pc \in [Requests -> Pcs] /\ job \in [Requests -> Job \cup {NoJob}]
      /\ DOMAIN view = Procs /\ DOMAIN solo = Requests
      /\ Requests \subseteq Procs /\ rcbootup \in Procs /\ rcbootup \notin Requests
  BY ClientsAssumption DEF TypeInv, TypeOK, Pcs, Requests
<1>1. ASSUME NEW p \in Requests, Look(p) \/ Call(p) PROVE Goal
  <2>1. /\ To(p, "looked") /\ pc[p] = "idle" /\ solo' = solo /\ booting' = booting
        /\ view' = view /\ current' = current /\ UNCHANGED setting
        /\ \A r \in Requests \ {p} : job'[r] = job[r] /\ pc'[r] = pc[r]
    BY <1>1, <1>t DEF Look, Call, To, regVars
  <2>2. solo[q]
    BY <2>1, Zenon
  <2>3. q # p /\ \A r \in Procs \ {q} : ~Under(r)
    BY <2>1, <2>2 DEF SoloInv
  <2>4. ~Under(p)'
    BY <1>t, <2>1 DEF Under, To
  <2>5. \A r \in Procs \ {q} : ~Under(r)'
    BY <2>1, <2>3, <2>4, OthersStay
  <2>6. pc'[q] = pc[q] /\ job'[q] = job[q] /\ (Configured(q)' <=> Configured(q))
    BY <2>1, <2>3, StaysConfigured
  <2>q. QED
    BY <2>1, <2>2, <2>5, <2>6 DEF SoloInv
<1>2. ASSUME NEW p \in Requests, Load(p) PROVE Goal
  <2>1. To(p, "loaded") /\ booting' = booting
    BY <1>2 DEF Load
  <2>2. q = p /\ \A r \in Procs \ {p} : ~Under(r)
    BY <1>2, Zenon DEF Load
  <2>3. \A r \in Procs \ {q} : ~Under(r)'
    BY <2>1, <2>2, OthersStay
  <2>4. pc'[q] = "loaded"
    BY <1>t, <2>1, <2>2 DEF To
  <2>q. QED
    BY <2>3, <2>4
<1>3. ASSUME NEW p \in Requests, Quit(p) \/ End(p) PROVE Goal
  <2>1. /\ To(p, "idle") /\ solo' = [solo EXCEPT ![p] = FALSE] /\ booting' = booting
        /\ view' = [view EXCEPT ![p] = NoConfig] /\ current' = current /\ UNCHANGED setting
        /\ \A r \in Requests \ {p} : job'[r] = job[r]
    BY <1>3, <1>t DEF Quit, End, Leave, RegForget
  <2>2. q # p
    BY <1>t, <2>1, Zenon
  <2>3. solo[q]
    BY <1>t, <2>1, <2>2, Zenon
  <2>4. ~Under(p)'
    BY <1>t, <2>1 DEF Under, To
  <2>5. \A r \in Procs \ {q} : ~Under(r)'
    BY <2>1, <2>3, <2>4, OthersStay DEF SoloInv
  <2>6. pc'[q] = pc[q] /\ job'[q] = job[q] /\ view'[q] = view[q] /\ (Configured(q)' <=> Configured(q))
    BY <1>t, <2>1, <2>2, StaysConfigured DEF To
  <2>q. QED
    BY <2>1, <2>3, <2>5, <2>6 DEF SoloInv
<1>4. ASSUME NEW p \in Requests,
             Ask(p) \/ Store(p) \/ Reread(p) \/ Compare(p) \/ Rebind(p) \/ Record(p)
      PROVE  Goal
  <2>1. /\ pc[p] \in {"loaded", "asked", "stored", "rebind", "record"}
        /\ solo' = solo /\ booting' = booting
    BY <1>4 DEF Ask, Store, Reread, Compare, Rebind, Record, history
  <2>2. PICK l \in {"asked", "stored", "saved", "rebind", "record", "end"} : To(p, l)
    BY <1>4 DEF Ask, Store, Reread, Compare, Rebind, Record
  <2>3. solo[q]
    BY <2>1, Zenon
  <2>4. q = p /\ pc'[p] = l /\ (\A r \in Procs \ {q} : ~Under(r)')
    BY <2>1, <2>2, <2>3, AloneGoesOn
  <2>5. l = "saved" => view'[p] = current'
    <3>1. CASE Reread(p)
      BY <1>t, <3>1 DEF Reread, RegLoad
    <3>2. CASE ~Reread(p)
      BY <1>4, <1>t, <2>4, <3>2 DEF Ask, Store, Compare, Rebind, Record, To
    <3>q. QED
      BY <3>1, <3>2
  <2>6. l = "end" => job'[p].kind = "newwan"
    <3>1. CASE Compare(p)
      <4>1. pc[p] # "idle" /\ job[p].kind = "newwan" /\ job' = [job EXCEPT ![p].cur = addr]
        BY <3>1 DEF Compare
      <4>2. job[p] \in Job /\ job'[p] = [job[p] EXCEPT !.cur = addr] /\ addr \in Addrs
        BY <1>t, <4>1 DEF TypeInv, TypeOK, Carries
      <4>q. QED
        BY <4>1, <4>2, JobType
    <3>2. CASE Record(p)
      BY <3>2 DEF Record, TypeInv, Carries
    <3>3. CASE ~Compare(p) /\ ~Record(p)
      BY <1>4, <1>t, <2>4, <3>3 DEF Ask, Store, Reread, Rebind, To
    <3>q. QED
      BY <3>1, <3>2, <3>3
  <2>q. QED
    BY <2>2, <2>4, <2>5, <2>6
<1>5. ASSUME NEW p \in Requests, Configure(p) PROVE Goal
  <2>1. /\ To(p, "end") /\ pc[p] = "saved" /\ solo' = solo /\ booting' = booting
        /\ Set(Affects(job[p].kind), view[p])
        /\ current' = current /\ job' = job
    BY <1>5 DEF Configure, regVars, history
  <2>2. solo[q]
    BY <2>1, Zenon
  <2>3. q = p /\ pc'[p] = "end" /\ (\A r \in Procs \ {q} : ~Under(r)')
    BY <2>1, <2>2, AloneGoesOn
  <2>4. view[p] = current /\ job[p] \in Job /\ job[p].kind # "newwan" /\ current \in Config
    BY <2>1, <2>2, <2>3 DEF SoloInv, TypeInv, TypeOK, Carries
  <2>5. \A a \in Areas : a \in Affects(job[p].kind) => AsStored(a)'
    BY <2>1, <2>4, SetAsStored, ApplyAffects DEF TypeInv
  <2>6. /\ "rules" \in Affects(job[p].kind)
        /\ job[p].kind \in {"ipsec", "lan"} => "ipsec" \in Affects(job[p].kind)
        /\ job[p].kind = "lan" => "lan" \in Affects(job[p].kind)
    <3>1. "rules" \in Affects(job[p].kind)
      BY <2>4, ApplyAffects
    <3>q. QED
      BY <3>1 DEF Affects, Locked, ByNssh, ByPage
  <2>7. /\ AsStored("rules")'
        /\ job[p].kind \in {"ipsec", "lan"} => AsStored("ipsec")'
        /\ job[p].kind = "lan" => AsStored("lan")'
    BY <2>5, <2>6 DEF Areas
  <2>8. Configured(p)'
    BY <2>1, <2>7 DEF Configured
  <2>q. QED
    BY <2>3, <2>8
<1>6. CASE BootLoad \/ BootEnd
  <2>1. booting /\ solo' = solo
    <3>1. view[rcbootup] = NoConfig => booting
      BY ClientsAssumption DEF TypeInv, Carries
    <3>q. QED
      BY <1>6, <3>1 DEF BootLoad, BootEnd, history
  <2>2. solo[q]
    BY <2>1, Zenon
  <2>3. ~Under(rcbootup)
    BY <1>t, <2>2 DEF SoloInv
  <2>q. QED
    BY <2>1, <2>3 DEF Under
<1>7. CASE Move \/ UNCHANGED vars
  <2>1. UNCHANGED <<regVars, setting, booting, pc, job, solo>>
    BY <1>7 DEF Move, vars, history
  <2>2. solo[q]
    BY <2>1, Zenon
  <2>3. \A r \in Procs : Under(r)' <=> Under(r)
    BY <2>1 DEF Under
  <2>4. Configured(q)' <=> Configured(q)
    BY <2>1, StaysConfigured DEF regVars
  <2>q. QED
    BY <2>1, <2>2, <2>3, <2>4 DEF SoloInv, regVars
<1>8. CASE PowerLoss
  BY <1>8, Zenon DEF PowerLoss
<1>q. QED
  BY <1>1, <1>2, <1>3, <1>4, <1>5, <1>6, <1>7, <1>8 DEF Next

\* What runs alone leaves what it has to configure as it is stored.
THEOREM LoneOnesConfigure == Spec => []LoneConfigures
<1>1. Init => SoloInv
  BY Zenon DEF Init, SoloInv
<1>2. SoloInv => LoneConfigures
  BY DEF SoloInv, LoneConfigures, Configured
<1>q. QED
  BY TypeInit, TypeStep, SoloInvStep, <1>1, <1>2, PTL DEF Spec
-----------------------------------------------------------------------------
(* All in force at rest. *)

OnTheWay == {"loaded", "asked", "saved", "rebind", "record"}     \* holding the configuration

LEMMA StoreInvStep == TypeInv /\ StoreInv /\ [Next]_vars => StoreInv'
<1> SUFFICES ASSUME TypeInv, StoreInv, [Next]_vars, ~crossed'
             PROVE  /\ booting' => view'[rcbootup] \in {NoConfig, current'}
                    /\ \A p \in Requests : pc'[p] \in OnTheWay => view'[p] = current'
                    /\ \A a \in Areas : AsStored(a)' \/ Going(a)'
  BY DEF StoreInv, OnTheWay, Areas
<1> DEFINE Goal == /\ booting' => view'[rcbootup] \in {NoConfig, current'}
                   /\ \A p \in Requests : pc'[p] \in OnTheWay => view'[p] = current'
                   /\ \A a \in Areas : AsStored(a)' \/ Going(a)'
<1>t. /\ pc \in [Requests -> Pcs] /\ job \in [Requests -> Job \cup {NoJob}]
      /\ DOMAIN view = Procs /\ current \in Config /\ TypeOK
      /\ Requests \subseteq Procs /\ rcbootup \in Procs /\ rcbootup \notin Requests
  BY ClientsAssumption DEF TypeInv, TypeOK, Pcs, Requests
<1>s. ASSUME ~crossed
      PROVE  /\ booting => view[rcbootup] \in {NoConfig, current}
             /\ \A p \in Requests : pc[p] \in OnTheWay => view[p] = current
             /\ \A a \in Areas : AsStored(a) \/ Going(a)
  BY <1>s DEF StoreInv, OnTheWay, Areas
\* Where one goes on by itself, and neither becomes one that is going to configure nor ceases to be.
<1>u. ASSUME NEW p \in Requests, NEW l \in Pcs, To(p, l),
             pc[p] \notin {"stored", "saved"} /\ l \notin {"stored", "saved"},
             crossed' = crossed, booting' = booting, current' = current,
             \A r \in Procs \ {p} : view'[r] = view[r], \A r \in Requests \ {p} : job'[r] = job[r],
             l \in OnTheWay => view'[p] = current,
             \A a \in Areas : AsStored(a) => AsStored(a)'
      PROVE  Goal
  <2>1. pc'[p] = l /\ \A r \in Requests \ {p} : pc'[r] = pc[r]
    BY <1>t, <1>u DEF To
  <2>2. /\ booting => view[rcbootup] \in {NoConfig, current}
        /\ \A r \in Requests : pc[r] \in OnTheWay => view[r] = current
        /\ \A a \in Areas : AsStored(a) \/ Going(a)
    BY <1>s, <1>u
  <2>3. view'[rcbootup] = view[rcbootup]
    BY <1>t, <1>u
  <2>4. \A a \in Areas : Going(a) => Going(a)'
    <3> SUFFICES ASSUME NEW a \in Areas, Going(a) PROVE Going(a)'
      OBVIOUS
    <3>1. CASE booting /\ (view[rcbootup] = NoConfig \/ a \in {"rules", "ipsec"})
      BY <1>u, <2>3, <3>1 DEF Going
    <3>2. ASSUME NEW r \in Requests, pc[r] \in {"stored", "saved"}, a \in Affects(job[r].kind)
          PROVE  Going(a)'
      <4>1. r # p
        BY <1>u, <3>2
      <4>q. QED
        BY <1>u, <2>1, <3>2, <4>1 DEF Going
    <3>q. QED
      BY <3>1, <3>2 DEF Going
  <2>5. \A r \in Requests : pc'[r] \in OnTheWay => view'[r] = current'
    BY <1>t, <1>u, <2>1, <2>2
  <2>q. QED
    BY <1>u, <2>2, <2>3, <2>4, <2>5
<1>1. ASSUME NEW p \in Requests, Look(p) \/ Call(p) PROVE Goal
  <2>1. /\ To(p, "looked") /\ pc[p] = "idle" /\ UNCHANGED <<regVars, setting, booting, crossed>>
        /\ \A r \in Requests \ {p} : job'[r] = job[r]
    BY <1>1, <1>t DEF Look, Call
  <2>q. QED
    BY <1>u, <2>1, StaysAsStored DEF Pcs, OnTheWay, regVars
<1>2. ASSUME NEW p \in Requests, Load(p) PROVE Goal
  <2>1. /\ To(p, "loaded") /\ pc[p] = "looked" /\ view' = [view EXCEPT ![p] = current]
        /\ UNCHANGED <<current, setting, booting, job, crossed>>
    BY <1>2 DEF Load, RegLoad
  <2>q. QED
    BY <1>t, <1>u, <2>1, StaysAsStored DEF Pcs
<1>3. ASSUME NEW p \in Requests, Quit(p) \/ End(p) PROVE Goal
  <2>1. /\ To(p, "idle") /\ pc[p] \in {"loaded", "end"} /\ view' = [view EXCEPT ![p] = NoConfig]
        /\ job' = [job EXCEPT ![p] = NoJob] /\ UNCHANGED <<current, setting, booting, crossed>>
    BY <1>3 DEF Quit, End, Leave, RegForget
  <2>q. QED
    BY <1>t, <1>u, <2>1, StaysAsStored DEF Pcs, OnTheWay
<1>4. ASSUME NEW p \in Requests, Ask(p) PROVE Goal
  <2>1. /\ To(p, "asked") /\ pc[p] = "loaded"
        /\ UNCHANGED <<current, view, setting, booting, job, crossed>>
    BY <1>4 DEF Ask, RegAskFor, history
  <2>2. view[p] = current
    BY <1>s, <2>1, Zenon DEF OnTheWay
  <2>q. QED
    BY <1>t, <1>u, <2>1, <2>2, StaysAsStored DEF Pcs
<1>5. ASSUME NEW p \in Requests, Store(p) PROVE Goal
  <2>1. /\ To(p, "stored") /\ pc[p] = "asked" /\ current' = pending[p]
        /\ UNCHANGED <<view, setting, booting, job>>
    BY <1>5 DEF Store, RegStore
  <2>2. ~crossed /\ \A r \in Procs \ {p} : ~Under(r)
    BY <1>5, Zenon DEF Store
  <2>3. ~booting /\ \A r \in Requests \ {p} : pc[r] \in {"idle", "looked", "end"}
    BY <1>t, <2>2 DEF Under
  <2>4. \A a \in Areas : ~Going(a)
    BY <2>1, <2>3 DEF Going
  <2>5. \A a \in Areas : AsStored(a)
    BY <1>s, <2>2, <2>4
  <2>6. job[p] \in Job /\ job[p].kind # "newwan" /\ current' = Apply(job[p], current)
    BY <1>s, <2>1, <2>2 DEF TypeInv, TypeOK, Carries, OnTheWay
  <2>7. pc'[p] = "stored" /\ \A r \in Requests \ {p} : pc'[r] = pc[r]
    BY <1>t, <2>1 DEF To
  <2>8. /\ "rules" \in Affects(job[p].kind)
        /\ \A a \in Areas : current'[a] = current[a] \/ a \in Affects(job[p].kind)
    BY <1>t, <2>6, ApplyAffects
  <2>9. \A a \in Areas : AsStored(a)' \/ Going(a)'
    <3> SUFFICES ASSUME NEW a \in Areas, a \notin Affects(job[p].kind) PROVE AsStored(a)'
      BY <2>1, <2>7 DEF Going
    <3>1. a # "rules" /\ current'[a] = current[a] /\ AsStored(a)
      BY <2>5, <2>8
    <3>q. QED
      BY <2>1, <3>1 DEF AsStored, setting
  <2>q. QED
    BY <2>1, <2>3, <2>7, <2>9 DEF OnTheWay
<1>6. ASSUME NEW p \in Requests, Reread(p) PROVE Goal
  <2>1. /\ To(p, "saved") /\ pc[p] = "stored" /\ view' = [view EXCEPT ![p] = current]
        /\ UNCHANGED <<current, setting, booting, job, crossed>>
    BY <1>6 DEF Reread, RegLoad, history
  <2>2. pc'[p] = "saved" /\ \A r \in Requests \ {p} : pc'[r] = pc[r]
    BY <1>t, <2>1 DEF To
  <2>3. view'[rcbootup] = view[rcbootup]
    BY <1>t, <2>1
  <2>4. \A a \in Areas : Going(a) => Going(a)'
    BY <2>1, <2>2, <2>3 DEF Going
  <2>5. \A r \in Requests : pc'[r] \in OnTheWay => view'[r] = current'
    BY <1>s, <1>t, <2>1, <2>2
  <2>6. \A a \in Areas : AsStored(a) => AsStored(a)'
    BY <2>1, StaysAsStored
  <2>q. QED
    BY <1>s, <2>1, <2>3, <2>4, <2>5, <2>6
<1>7. ASSUME NEW p \in Requests, Configure(p) PROVE Goal
  <2>1. /\ To(p, "end") /\ pc[p] = "saved" /\ Set(Affects(job[p].kind), view[p])
        /\ UNCHANGED <<regVars, booting, job, crossed>>
    BY <1>7 DEF Configure, history
  <2>2. view[p] = current
    BY <1>s, <2>1 DEF OnTheWay
  <2>a. Affects(job[p].kind) \subseteq Areas /\ current' = current
    BY <2>1, ApplyAffects DEF TypeInv, Carries, regVars
  <2>3. \A a \in Areas : a \in Affects(job[p].kind) \/ AsStored(a) => AsStored(a)'
    BY <1>t, <2>1, <2>2, <2>a, SetAsStored
  <2>4. pc'[p] = "end" /\ \A r \in Requests \ {p} : pc'[r] = pc[r]
    BY <1>t, <2>1 DEF To
  <2>5. ASSUME NEW a \in Areas, a \notin Affects(job[p].kind), Going(a) PROVE Going(a)'
    BY <2>1, <2>4, <2>5 DEF Going, regVars
  <2>6. \A r \in Requests : pc'[r] \in OnTheWay => view'[r] = current'
    BY <1>s, <2>1, <2>4 DEF OnTheWay, regVars
  <2>7. \A a \in Areas : AsStored(a)' \/ Going(a)'
    BY <1>s, <2>1, <2>3, <2>5 DEF regVars
  <2>q. QED
    BY <1>s, <2>1, <2>6, <2>7 DEF regVars
<1>8. CASE BootLoad
  <2>1. /\ view' = [view EXCEPT ![rcbootup] = current] /\ Set({"rules", "lan"}, current)
        /\ UNCHANGED <<current, booting, pc, job, crossed>>
    BY <1>8 DEF BootLoad, RegLoad, history
  <2>2. booting
    BY <1>8, ClientsAssumption DEF BootLoad, TypeInv, Carries
  <2>3. view'[rcbootup] = current /\ \A r \in Requests : view'[r] = view[r]
    BY <1>t, <2>1
  <2>4. \A a \in Areas : a \in {"rules", "lan"} => AsStored(a)'
    BY <1>t, <2>1, SetAsStored, BootAreas
  <2>5. Going("ipsec")'
    BY <2>1, <2>2 DEF Going
  <2>q. QED
    BY <1>s, <2>1, <2>3, <2>4, <2>5 DEF Areas
<1>9. CASE BootEnd
  <2>1. /\ booting /\ view[rcbootup] # NoConfig /\ Set(Affects("ipsec"), view[rcbootup]) /\ booting' = FALSE
        /\ UNCHANGED <<regVars, pc, job, crossed>>
    BY <1>9 DEF BootEnd, history
  <2>2. ~crossed
    BY <2>1, Zenon
  <2>3. view[rcbootup] = current
    BY <1>s, <2>1, <2>2
  <2>4. \A a \in Areas : a \in {"rules", "ipsec"} \/ AsStored(a) => AsStored(a)'
    BY <1>t, <2>1, <2>3, SetAsStored, BootAreas DEF regVars
  <2>5. ASSUME NEW a \in Areas, a \notin {"rules", "ipsec"}, Going(a) PROVE Going(a)'
    BY <2>1, <2>5 DEF Going
  <2>q. QED
    BY <1>s, <2>1, <2>2, <2>4, <2>5 DEF regVars
<1>10. ASSUME NEW p \in Requests, Compare(p) PROVE Goal
  <2>1. /\ pc[p] = "loaded" /\ UNCHANGED <<regVars, setting, booting, crossed>>
        /\ \A r \in Requests \ {p} : job'[r] = job[r]
    BY <1>10, <1>t DEF Compare, history
  <2>2. PICK l \in {"end", "rebind"} : To(p, l)
    BY <1>10 DEF Compare
  <2>3. view[p] = current
    BY <1>s, <2>1 DEF OnTheWay
  <2>q. QED
    BY <1>u, <2>1, <2>2, <2>3, StaysAsStored DEF Pcs, regVars
<1>11. ASSUME NEW p \in Requests, Rebind(p) PROVE Goal
  <2>1. /\ To(p, "record") /\ pc[p] = "rebind" /\ Set(Affects("ipsec"), view[p])
        /\ UNCHANGED <<regVars, booting, job, crossed>>
    BY <1>11 DEF Rebind, history
  <2>2. view[p] = current
    BY <1>s, <2>1 DEF OnTheWay
  <2>3. \A a \in Areas : AsStored(a) => AsStored(a)'
    BY <1>t, <2>1, <2>2, SetAsStored, BootAreas DEF regVars
  <2>q. QED
    BY <1>u, <2>1, <2>2, <2>3 DEF Pcs, regVars
<1>12. ASSUME NEW p \in Requests, Record(p) PROVE Goal
  <2>1. /\ To(p, "end") /\ pc[p] = "record" /\ UNCHANGED <<regVars, setting, booting, job, crossed>>
    BY <1>12 DEF Record, history
  <2>q. QED
    BY <1>u, <2>1, StaysAsStored DEF Pcs, OnTheWay, regVars
<1>13. CASE PowerLoss
  BY <1>t, <1>13 DEF PowerLoss, RegPowerLoss, Going, OnTheWay
<1>14. CASE Move \/ UNCHANGED vars
  <2>1. UNCHANGED <<regVars, setting, booting, pc, job, crossed>>
    BY <1>14 DEF Move, vars, history
  <2>2. \A a \in Areas : Going(a)' <=> Going(a)
    BY <2>1 DEF Going, regVars
  <2>3. \A a \in Areas : AsStored(a) => AsStored(a)'
    BY <2>1, StaysAsStored DEF regVars
  <2>q. QED
    BY <1>s, <2>1, <2>2, <2>3 DEF regVars
<1>q. QED
  BY <1>1, <1>2, <1>3, <1>4, <1>5, <1>6, <1>7, <1>8, <1>9, <1>10, <1>11, <1>12, <1>13, <1>14 DEF Next

\* At rest everything is configured as it is stored, unless a process has stored beside another.
THEOREM InForceAtLast == Spec => []InForceAtRest
<1>1. Init => StoreInv
  BY ClientsAssumption DEF Init, StoreInv, Going
<1>2. TypeInv /\ StoreInv => InForceAtRest
  <2> SUFFICES ASSUME TypeInv, StoreInv, \A p \in Procs : ~Under(p), ~crossed
               PROVE  \A a \in Areas : AsStored(a)
    BY DEF InForceAtRest
  <2>1. ~booting /\ \A p \in Requests : pc[p] \notin {"stored", "saved"}
    BY ClientsAssumption DEF Under, Requests
  <2>q. QED
    BY <2>1 DEF StoreInv, Going
<1>q. QED
  BY TypeInit, TypeStep, StoreInvStep, <1>1, <1>2, PTL DEF Spec
-----------------------------------------------------------------------------
(* The address of the WAN. *)

\* Where the tunnels are set at all, they are set for the address that there is.
TunnelsKept == tunnels' = tunnels \/ (tunnels' = addr /\ (wanip = addr \/ \E q \in Requests : Rebinding(q)))

\* Where one goes on that is not in the middle of setting them.
LEMMA WanStays ==
  ASSUME TypeInv, WanInv, UNCHANGED <<addr, wanip, dns>>, ~amiss' => ~amiss /\ TunnelsKept,
         \A r \in Requests : /\ Rebinding(r)' <=> Rebinding(r)
                             /\ Rebinding(r) => pc'[r] = pc[r] /\ job'[r] = job[r]
  PROVE  WanInv'
<1> SUFFICES ASSUME ~amiss'
             PROVE  /\ \A p, q \in Requests : Rebinding(p)' /\ Rebinding(q)' => p = q
                    /\ \A p \in Requests : Rebinding(p)' => job'[p].cur = addr' /\ wanip' # addr'
                    /\ \A p \in Requests : pc'[p] = "record" => tunnels' = addr' /\ dns' = addr'
                    /\ (\A p \in Requests : ~Rebinding(p)') /\ wanip' # NoFile =>
                         tunnels' = wanip' /\ dns' = wanip'
  BY Zenon DEF WanInv
<1>1. ~amiss /\ TunnelsKept
  BY Zenon
<1>2. /\ \A p, q \in Requests : Rebinding(p) /\ Rebinding(q) => p = q
      /\ \A p \in Requests : Rebinding(p) => job[p].cur = addr /\ wanip # addr
      /\ \A p \in Requests : pc[p] = "record" => tunnels = addr /\ dns = addr
      /\ (\A p \in Requests : ~Rebinding(p)) /\ wanip # NoFile => tunnels = wanip /\ dns = wanip
  BY <1>1, Zenon DEF WanInv
<1>3. \A p \in Requests : pc'[p] = "record" => Rebinding(p) /\ pc[p] = "record"
  BY DEF Rebinding
<1>4. \A p \in Requests : pc'[p] = "record" => tunnels' = addr' /\ dns' = addr'
  BY <1>1, <1>2, <1>3 DEF TunnelsKept
<1>5. (\A p \in Requests : ~Rebinding(p)') /\ wanip' # NoFile => tunnels' = wanip' /\ dns' = wanip'
  BY <1>1, <1>2 DEF TunnelsKept
<1>6. /\ \A p, q \in Requests : Rebinding(p)' /\ Rebinding(q)' => p = q
      /\ \A p \in Requests : Rebinding(p)' => job'[p].cur = addr' /\ wanip' # addr'
  BY <1>2
<1>q. QED
  BY <1>4, <1>5, <1>6

\* One goes on that was not in the middle of setting them, and is not now.
LEMMA NotRebinding ==
  ASSUME TypeInv, NEW p \in Requests, NEW l \in Pcs \ {"rebind", "record"}, To(p, l),
         pc[p] \notin {"rebind", "record"}, \A r \in Requests \ {p} : job'[r] = job[r]
  PROVE  \A r \in Requests : /\ Rebinding(r)' <=> Rebinding(r)
                             /\ Rebinding(r) => pc'[r] = pc[r] /\ job'[r] = job[r]
<1>1. pc'[p] = l /\ \A r \in Requests \ {p} : pc'[r] = pc[r]
  BY DEF To, TypeInv, TypeOK
<1>q. QED
  BY <1>1 DEF Rebinding

\* The tunnels are set, and not for an address that goes unrecorded.
LEMMA SetKeeps ==
  ASSUME TypeInv, NEW c \in Config, NEW areas, areas \subseteq Areas, Set(areas, c), ~Unrecorded(areas)
  PROVE  TunnelsKept
<1>1. tunnels' \in {tunnels, addr} /\ ("ipsec" \notin areas => tunnels' = tunnels)
  BY SetEffect DEF TypeInv
<1>q. QED
  BY <1>1 DEF TunnelsKept, Unrecorded

LEMMA WanInvStep == TypeInv /\ WanInv /\ [Next]_vars => WanInv'
<1> SUFFICES ASSUME TypeInv, WanInv, [Next]_vars PROVE WanInv'
  OBVIOUS
<1>t. /\ pc \in [Requests -> Pcs] /\ job \in [Requests -> Job \cup {NoJob}] /\ addr \in Addrs
      /\ NoFile \notin Addrs
  BY ClientsAssumption DEF TypeInv, TypeOK, Pcs
<1>s. ASSUME ~amiss
      PROVE  /\ \A p, q \in Requests : Rebinding(p) /\ Rebinding(q) => p = q
             /\ \A p \in Requests : Rebinding(p) => job[p].cur = addr /\ wanip # addr
             /\ \A p \in Requests : pc[p] = "record" => tunnels = addr /\ dns = addr
             /\ (\A p \in Requests : ~Rebinding(p)) /\ wanip # NoFile => tunnels = wanip /\ dns = wanip
  BY <1>s, Zenon DEF WanInv
<1>1. ASSUME NEW p \in Requests, Look(p) \/ Call(p) \/ Load(p) \/ Quit(p) \/ End(p) PROVE WanInv'
  <2>1. /\ pc[p] \in {"idle", "looked", "loaded", "end"} /\ UNCHANGED <<wan, setting>>
        /\ \A r \in Requests \ {p} : job'[r] = job[r]
    BY <1>1, <1>t DEF Look, Call, Load, Quit, End, Leave
  <2>2. PICK l \in {"looked", "loaded", "idle"} : To(p, l)
    BY <1>1 DEF Look, Call, Load, Quit, End, Leave
  <2>3. \A r \in Requests : /\ Rebinding(r)' <=> Rebinding(r)
                            /\ Rebinding(r) => pc'[r] = pc[r] /\ job'[r] = job[r]
    BY <2>1, <2>2, NotRebinding DEF Pcs
  <2>4. UNCHANGED <<addr, wanip, dns>> /\ (~amiss' => ~amiss /\ TunnelsKept)
    BY <2>1, Zenon DEF wan, setting, TunnelsKept
  <2>q. QED
    BY <2>3, <2>4, WanStays
<1>2. ASSUME NEW p \in Requests, Ask(p) \/ Store(p) \/ Reread(p) PROVE WanInv'
  <2>1. pc[p] \in {"loaded", "asked", "stored"} /\ UNCHANGED <<wan, setting, job>>
    BY <1>2 DEF Ask, Store, Reread
  <2>2. PICK l \in {"asked", "stored", "saved"} : To(p, l)
    BY <1>2 DEF Ask, Store, Reread
  <2>3. \A r \in Requests : /\ Rebinding(r)' <=> Rebinding(r)
                            /\ Rebinding(r) => pc'[r] = pc[r] /\ job'[r] = job[r]
    BY <2>1, <2>2, NotRebinding DEF Pcs
  <2>4. UNCHANGED <<addr, wanip, dns>> /\ (~amiss' => ~amiss /\ TunnelsKept)
    BY <2>1, Zenon DEF wan, setting, TunnelsKept
  <2>q. QED
    BY <2>3, <2>4, WanStays
<1>3. ASSUME NEW p \in Requests, Configure(p) PROVE WanInv'
  <2>1. /\ pc[p] = "saved" /\ To(p, "end") /\ Set(Affects(job[p].kind), view[p])
        /\ UNCHANGED <<addr, wanip, dns, job>>
    BY <1>3 DEF Configure
  <2>2. /\ view[p] \in Config /\ Affects(job[p].kind) \subseteq Areas
    BY <2>1, ApplyAffects DEF TypeInv, Carries, TypeOK
  <2>3. \A r \in Requests : /\ Rebinding(r)' <=> Rebinding(r)
                            /\ Rebinding(r) => pc'[r] = pc[r] /\ job'[r] = job[r]
    BY <2>1, NotRebinding DEF Pcs
  <2>4. ~amiss' => ~amiss /\ ~Unrecorded(Affects(job[p].kind))
    BY <1>3, Zenon DEF Configure
  <2>5. ~amiss' => ~amiss /\ TunnelsKept
    BY <2>1, <2>2, <2>4, SetKeeps
  <2>q. QED
    BY <2>1, <2>3, <2>5, WanStays
<1>4. ASSUME NEW p \in Requests, Compare(p) PROVE WanInv'
  <2>1. /\ pc[p] = "loaded" /\ job[p].kind = "newwan" /\ UNCHANGED <<addr, wanip, dns, tunnels>>
        /\ job' = [job EXCEPT ![p].cur = addr]
    BY <1>4 DEF Compare, setting
  <2>2. job'[p].cur = addr /\ \A r \in Requests \ {p} : job'[r] = job[r]
    <3>1. job[p] \in Job /\ addr \in Addrs /\ job'[p] = [job[p] EXCEPT !.cur = addr]
      BY <1>t, <2>1 DEF TypeInv, TypeOK, Carries
    <3>q. QED
      BY <1>t, <2>1, <3>1, JobType
  <2>3. CASE wanip = addr
    <3>1. To(p, "end")
      BY <1>4, <2>3 DEF Compare
    <3>2. \A r \in Requests : /\ Rebinding(r)' <=> Rebinding(r)
                              /\ Rebinding(r) => pc'[r] = pc[r] /\ job'[r] = job[r]
      BY <2>1, <2>2, <3>1, NotRebinding DEF Pcs
    <3>3. ~amiss' => ~amiss /\ TunnelsKept
      BY <1>4, <2>1, <2>3, Zenon DEF Compare, TunnelsKept
    <3>q. QED
      BY <2>1, <3>2, <3>3, WanStays
  <2>4. CASE wanip # addr
    <3>1. pc'[p] = "rebind" /\ \A r \in Requests \ {p} : pc'[r] = pc[r]
      BY <1>4, <1>t, <2>4 DEF Compare, To
    <3>2. ~amiss' => \A r \in Requests : ~Rebinding(r)
      BY <1>4, <2>4, Zenon DEF Compare
    <3>3. ~amiss' => \A r \in Requests : Rebinding(r)' <=> r = p
      BY <3>1, <3>2 DEF Rebinding
    <3>4. ~amiss' => \A r \in Requests : pc'[r] # "record"
      BY <3>1, <3>2 DEF Rebinding
    <3>5. ~amiss' => \A r \in Requests : Rebinding(r)' => job'[r].cur = addr' /\ wanip' # addr'
      BY <2>1, <2>2, <2>4, <3>3
    <3>q. QED
      BY <3>3, <3>4, <3>5 DEF WanInv
  <2>q. QED
    BY <2>3, <2>4
<1>5. ASSUME NEW p \in Requests, Rebind(p) PROVE WanInv'
  <2>1. /\ To(p, "record") /\ pc[p] = "rebind" /\ Set(Affects("ipsec"), view[p]) /\ dns' = addr
        /\ UNCHANGED <<addr, wanip, job>>
    BY <1>5 DEF Rebind
  <2>2. pc'[p] = "record" /\ \A r \in Requests \ {p} : pc'[r] = pc[r]
    BY <1>t, <2>1 DEF To
  <2>3. Rebinding(p) /\ \A r \in Requests : Rebinding(r)' <=> Rebinding(r)
    BY <2>1, <2>2 DEF Rebinding
  <2>4. tunnels' = addr \/ "ipsec" \in failed'
    BY <2>1, SetEffect, BootAreas DEF TypeInv, Carries
  <2>5. ~amiss' => ~amiss /\ tunnels' = addr
    BY <1>5, <2>4, Zenon DEF Rebind
  <2>6. ASSUME ~amiss'
        PROVE  /\ \A r \in Requests : Rebinding(r) => r = p
               /\ \A r \in Requests : Rebinding(r) => job[r].cur = addr /\ wanip # addr
               /\ tunnels' = addr
    BY <1>s, <2>3, <2>5, <2>6, Zenon
  <2>q. QED
    BY <2>1, <2>3, <2>6 DEF WanInv
<1>6. ASSUME NEW p \in Requests, Record(p) PROVE WanInv'
  <2>1. /\ To(p, "end") /\ pc[p] = "record" /\ wanip' = job[p].cur
        /\ UNCHANGED <<addr, dns, tunnels, job>>
    BY <1>6 DEF Record, setting
  <2>2. pc'[p] = "end" /\ \A r \in Requests \ {p} : pc'[r] = pc[r]
    BY <1>t, <2>1 DEF To
  <2>3. Rebinding(p) /\ ~Rebinding(p)' /\ \A r \in Requests \ {p} : Rebinding(r)' <=> Rebinding(r)
    BY <2>1, <2>2 DEF Rebinding
  <2>4. ~amiss' => ~amiss
    BY <1>6, Zenon DEF Record
  <2>5. ASSUME ~amiss'
        PROVE  /\ \A r \in Requests : Rebinding(r) => r = p
               /\ job[p].cur = addr /\ tunnels = addr /\ dns = addr
    BY <1>s, <2>1, <2>3, <2>4, <2>5, Zenon
  <2>6. ~amiss' => \A r \in Requests : ~Rebinding(r)'
    BY <2>3, <2>5
  <2>7. ~amiss' => \A r \in Requests : pc'[r] # "record"
    BY <2>6 DEF Rebinding
  <2>8. ~amiss' => tunnels' = wanip' /\ dns' = wanip'
    BY <2>1, <2>5
  <2>q. QED
    BY <2>6, <2>7, <2>8 DEF WanInv
<1>7. CASE BootLoad
  <2>1. UNCHANGED <<addr, wanip, dns, amiss, pc, job>> /\ Set({"rules", "lan"}, current)
    BY <1>7 DEF BootLoad, wan
  <2>2. tunnels' = tunnels
    BY <2>1, SetEffect, BootAreas DEF TypeInv, TypeOK
  <2>3. ~amiss' => ~amiss /\ TunnelsKept
    BY <2>1, <2>2, Zenon DEF TunnelsKept
  <2>q. QED
    BY <2>1, <2>3, WanStays DEF Rebinding
<1>8. CASE BootEnd
  <2>1. /\ UNCHANGED <<addr, wanip, dns, pc, job>> /\ Set(Affects("ipsec"), view[rcbootup])
        /\ view[rcbootup] \in Config
    BY <1>8, ClientsAssumption DEF BootEnd, TypeInv, TypeOK
  <2>2. ~amiss' => ~amiss /\ ~Unrecorded(Affects("ipsec"))
    BY <1>8, Zenon DEF BootEnd
  <2>3. ~amiss' => ~amiss /\ TunnelsKept
    BY <2>1, <2>2, SetKeeps, BootAreas
  <2>q. QED
    BY <2>1, <2>3, WanStays DEF Rebinding
<1>9. CASE UNCHANGED vars
  <2>1. UNCHANGED <<addr, wanip, dns, amiss, tunnels, pc, job>>
    BY <1>9 DEF vars, wan, setting
  <2>2. ~amiss' => ~amiss /\ TunnelsKept
    BY <2>1, Zenon DEF TunnelsKept
  <2>q. QED
    BY <2>1, <2>2, WanStays DEF Rebinding
<1>10. CASE Move
  <2>1. UNCHANGED <<wanip, dns, tunnels, pc, job>>
    BY <1>10 DEF Move, setting
  <2>2. ~amiss' => ~amiss /\ \A r \in Requests : ~Rebinding(r)
    BY <1>10, Zenon DEF Move
  <2>3. \A r \in Requests : Rebinding(r)' <=> Rebinding(r)
    BY <2>1 DEF Rebinding
  <2>4. ASSUME ~amiss'
        PROVE  /\ \A r \in Requests : ~Rebinding(r)' /\ pc'[r] # "record"
               /\ wanip' # NoFile => tunnels' = wanip' /\ dns' = wanip'
    <3>1. \A r \in Requests : ~Rebinding(r)'
      BY <2>2, <2>3, <2>4, Zenon
    <3>2. wanip # NoFile => tunnels = wanip /\ dns = wanip
      BY <1>s, <2>2, <2>4, Zenon
    <3>q. QED
      BY <2>1, <3>1, <3>2 DEF Rebinding
  <2>q. QED
    BY <2>4 DEF WanInv
<1>11. CASE PowerLoss
  <2>1. wanip' = NoFile /\ \A r \in Requests : pc'[r] = "idle"
    BY <1>11 DEF PowerLoss
  <2>q. QED
    BY <2>1 DEF WanInv, Rebinding
<1>q. QED
  BY <1>1, <1>2, <1>3, <1>4, <1>5, <1>6, <1>7, <1>8, <1>9, <1>10, <1>11 DEF Next

\* rc.newwanip finds nothing to do only where tunnels and DNS are set for the address, though
\* it may have gone away and come back.
THEOREM NothingElseToDo == Spec => NothingToDo
<1> DEFINE Done == \A p \in Requests : Compare(p) /\ pc'[p] = "end" /\ ~amiss =>
                                         tunnels = addr /\ dns = addr
<1>1. TypeInv /\ WanInv /\ [Next]_vars => [Done]_vars
  <2> SUFFICES ASSUME TypeInv, WanInv, NEW p \in Requests, Compare(p), pc'[p] = "end", ~amiss
               PROVE  tunnels = addr /\ dns = addr
    OBVIOUS
  <2>1. wanip = addr
    BY DEF Compare, To, TypeInv, TypeOK
  <2>2. wanip # NoFile
    BY <2>1, ClientsAssumption DEF TypeInv, TypeOK
  <2>3. \A r \in Requests : ~Rebinding(r)
    BY <2>1, Zenon DEF WanInv
  <2>q. QED
    BY <2>1, <2>2, <2>3, Zenon DEF WanInv
<1>2. Init => WanInv
  BY DEF Init, WanInv, Rebinding
<1>q. QED
  BY TypeInit, TypeStep, WanInvStep, <1>1, <1>2, PTL DEF Spec, NothingToDo
=============================================================================
