---------------------------- MODULE PfRulesProofs ----------------------------
(***************************************************************************)
(* For every number of shells and every set of rules: what sorting and     *)
(* concatenating the sections of nssh_pf.conf yields, the only way for the *)
(* box to lose its rules, and what a script that runs alone does.          *)
(***************************************************************************)
EXTENDS PfRules, FiniteSetTheorems, SequenceTheorems, TLAPS

(* Sorting. *)

\* Lines of one temporary file: of one type, and all with a number or all without.
OneFile(ls) == /\ ls \subseteq Line
               /\ IsFiniteSet(ls)
               /\ \A a, b \in ls : a.type = b.type
               /\ (\A l \in ls : l.num \in Nat) \/ (\A l \in ls : l.num = NoNum)

\* The order of sort -k1n is total on the lines of a temporary file.
LEMMA BeforeIsOrder ==
  ASSUME NEW ls, OneFile(ls)
  PROVE  /\ \A a \in ls : ~Before(a, a)
         /\ \A a, b, c \in ls : Before(a, b) /\ Before(b, c) => Before(a, c)
         /\ \A a, b \in ls : a # b => Before(a, b) \/ Before(b, a)
<1>1. \A a, b \in ls : a.text \in Nat /\ (a.num = b.num \/ (a.num \in Nat /\ b.num \in Nat))
  BY PfAssumption DEF OneFile, Line
<1>2. \A a, b \in ls : a.num = b.num /\ a.text = b.text => a = b
  BY DEF OneFile, Line
<1>q. QED
  BY <1>1, <1>2 DEF Before

\* The rank of a line, one more than the number of lines before it.
Below(ls, l) == {k \in ls : Before(k, l)}

LEMMA RankIsBijection ==
  ASSUME NEW ls, OneFile(ls)
  PROVE  LET rank == [l \in ls |-> Cardinality(Below(ls, l)) + 1]
         IN  /\ rank \in [ls -> 1..Cardinality(ls)]
             /\ \A a, b \in ls : Before(a, b) => rank[a] < rank[b]
             /\ \A i \in 1..Cardinality(ls) : \E l \in ls : rank[l] = i
<1> DEFINE rank == [l \in ls |-> Cardinality(Below(ls, l)) + 1]
           n == Cardinality(ls)
<1>0. IsFiniteSet(ls) /\ n \in Nat
  BY FS_CardinalityType DEF OneFile
<1>1. ASSUME NEW l \in ls
      PROVE  /\ IsFiniteSet(Below(ls, l))
             /\ Cardinality(Below(ls, l)) \in Nat
             /\ Cardinality(Below(ls, l)) < n
  <2>1. Below(ls, l) \subseteq ls \ {l}
    BY BeforeIsOrder DEF Below
  <2>2. IsFiniteSet(ls \ {l}) /\ Cardinality(ls \ {l}) = n - 1
    BY <1>0, FS_RemoveElement
  <2>3. IsFiniteSet(Below(ls, l)) /\ Cardinality(Below(ls, l)) <= n - 1
    BY <2>1, <2>2, FS_Subset
  <2>q. QED
    BY <1>0, <2>3, FS_CardinalityType
<1>2. ASSUME NEW a \in ls, NEW b \in ls, Before(a, b)
      PROVE  Cardinality(Below(ls, a)) < Cardinality(Below(ls, b))
  <2>1. Below(ls, a) \subseteq Below(ls, b)
    BY <1>2, BeforeIsOrder DEF Below
  <2>2. Below(ls, a) # Below(ls, b)
    BY <1>2, BeforeIsOrder DEF Below
  <2>3. Cardinality(Below(ls, a)) <= Cardinality(Below(ls, b))
        /\ Cardinality(Below(ls, a)) # Cardinality(Below(ls, b))
    BY <1>1, <2>1, <2>2, FS_Subset
  <2>q. QED
    BY <1>1, <2>3
<1>3. rank \in [ls -> 1..n]
  BY <1>0, <1>1
<1>4. \A a, b \in ls : Before(a, b) => rank[a] < rank[b]
  BY <1>1, <1>2
<1>5. \A a, b \in ls : rank[a] = rank[b] => a = b
  BY <1>3, <1>4, BeforeIsOrder
<1>6. rank \in Injection(ls, 1..n)
  BY <1>3, <1>5 DEF Injection, IsInjective
<1>7. IsFiniteSet(1..n) /\ Cardinality(1..n) = n
  BY <1>0, FS_Interval
<1>8. rank \in Surjection(ls, 1..n)
  BY <1>0, <1>6, <1>7, FS_Injection
<1>q. QED
  BY <1>3, <1>4, <1>8 DEF Surjection

\* sort lists each line of the file, in ascending order.
LEMMA SortedLists ==
  ASSUME NEW ls, OneFile(ls)
  PROVE  /\ Sorted(ls) \in Seq(ls)
         /\ \A i, j \in DOMAIN Sorted(ls) : i < j => Before(Sorted(ls)[i], Sorted(ls)[j])
         /\ {Sorted(ls)[i] : i \in DOMAIN Sorted(ls)} = ls
<1> DEFINE n == Cardinality(ls)
           Ascends(q) == \A i, j \in DOMAIN q : i < j => Before(q[i], q[j])
<1>0. n \in Nat /\ IsFiniteSet(ls)
  BY FS_CardinalityType DEF OneFile
<1>1. \E q \in [1..n -> ls] : Ascends(q)
  <2> DEFINE rank == [l \in ls |-> Cardinality(Below(ls, l)) + 1]
  <2>1. /\ rank \in [ls -> 1..n]
        /\ \A a, b \in ls : Before(a, b) => rank[a] < rank[b]
        /\ \A i \in 1..n : \E l \in ls : rank[l] = i
    BY RankIsBijection
  <2> HIDE DEF rank
  <2> DEFINE q == [i \in 1..n |-> CHOOSE l \in ls : rank[l] = i]
  <2>2. \A i \in 1..n : q[i] \in ls /\ rank[q[i]] = i
    BY <2>1
  <2>3. q \in [1..n -> ls]
    BY <2>2
  <2>4. ASSUME NEW i \in 1..n, NEW j \in 1..n, i < j PROVE Before(q[i], q[j])
    <3>1. q[i] # q[j] /\ ~Before(q[j], q[i])
      BY <1>0, <2>1, <2>2, <2>4
    <3>q. QED
      BY <2>2, <3>1, BeforeIsOrder
  <2>5. Ascends(q)
    BY <2>4
  <2>q. QED
    BY <2>3, <2>5
<1>2. Sorted(ls) \in [1..n -> ls] /\ Ascends(Sorted(ls))
  BY <1>1 DEF Sorted
<1>3. \A i, j \in 1..n : i # j => Sorted(ls)[i] # Sorted(ls)[j]
  BY <1>0, <1>2, BeforeIsOrder
<1>4. Sorted(ls) \in Injection(1..n, ls)
  BY <1>2, <1>3 DEF Injection, IsInjective
<1>5. IsFiniteSet(1..n) /\ Cardinality(1..n) = n
  BY <1>0, FS_Interval
<1>6. Sorted(ls) \in Surjection(1..n, ls)
  BY <1>0, <1>4, <1>5, FS_Injection
<1>q. QED
  BY <1>0, <1>2, <1>6 DEF Surjection

\* A sequence with each line of a set.
Lists(q, ls) == q \in Seq(Line) /\ {q[i] : i \in DOMAIN q} = ls

\* Lists that follow one another.
LEMMA ConcatLists ==
  ASSUME NEW a, NEW b, NEW A, NEW B, Lists(a, A), Lists(b, B)
  PROVE  Lists(a \o b, A \cup B)
<1> DEFINE ab == a \o b
<1>1. /\ a \in Seq(Line) /\ b \in Seq(Line)
      /\ Len(a) \in Nat /\ Len(b) \in Nat
      /\ DOMAIN a = 1..Len(a) /\ DOMAIN b = 1..Len(b)
      /\ \A i \in 1..Len(a) : a[i] \in A
      /\ \A i \in 1..Len(b) : b[i] \in B
      /\ \A x \in A : \E i \in 1..Len(a) : a[i] = x
      /\ \A x \in B : \E i \in 1..Len(b) : b[i] = x
  BY LenProperties DEF Lists
<1>2. /\ ab \in Seq(Line) /\ Len(ab) = Len(a) + Len(b)
      /\ DOMAIN ab = 1..(Len(a) + Len(b))
      /\ \A i \in 1..(Len(a) + Len(b)) : ab[i] = IF i <= Len(a) THEN a[i] ELSE b[i - Len(a)]
  BY <1>1, ConcatProperties, LenProperties
<1> HIDE DEF ab
<1>3. {ab[i] : i \in DOMAIN ab} = A \cup B
  <2>1. ASSUME NEW i \in DOMAIN ab PROVE ab[i] \in A \cup B
    BY <1>1, <1>2
  <2>2. ASSUME NEW x \in A PROVE \E i \in DOMAIN ab : ab[i] = x
    <3>1. PICK i \in 1..Len(a) : a[i] = x
      BY <1>1
    <3>2. i \in DOMAIN ab /\ ab[i] = x
      BY <1>1, <1>2, <3>1
    <3>q. QED
      BY <3>2
  <2>3. ASSUME NEW x \in B PROVE \E i \in DOMAIN ab : ab[i] = x
    <3>1. PICK i \in 1..Len(b) : b[i] = x
      BY <1>1
    <3>2. i + Len(a) \in DOMAIN ab /\ ab[i + Len(a)] = x
      BY <1>1, <1>2, <3>1
    <3>q. QED
      BY <3>2
  <2>q. QED
    BY <2>1, <2>2, <2>3
<1>q. QED
  BY <1>2, <1>3 DEF Lists, ab

LEMMA SectionLists ==
  ASSUME NEW c, c \subseteq Line, IsFiniteSet(c), NEW t
  PROVE  Lists(Section(c, t), {l \in c : l.type = t})
<1> DEFINE A == {l \in c : l.type = t /\ l.num # NoNum}
           B == {l \in c : l.type = t /\ l.num = NoNum}
<1>1. OneFile(A) /\ OneFile(B)
  <2>1. IsFiniteSet(A) /\ IsFiniteSet(B)
    BY FS_Subset
  <2>q. QED
    BY <2>1 DEF OneFile, Line
<1>2. Lists(Sorted(A), A) /\ Lists(Sorted(B), B)
  BY <1>1, SortedLists, SeqMonotonic DEF OneFile, Lists
<1>3. Lists(Sorted(A) \o Sorted(B), A \cup B)
  BY <1>2, ConcatLists
<1>4. A \cup B = {l \in c : l.type = t}
  OBVIOUS
<1>q. QED
  BY <1>3, <1>4 DEF Section

\* gen_pffile lists the rules, and nothing else.
LEMMA GenLists == ASSUME NEW c, c \subseteq Line, IsFiniteSet(c) PROVE Lists(Gen(c), c)
<1> DEFINE Of(t) == {l \in c : l.type = t}
<1>1. \A t : Lists(Section(c, t), Of(t))
  BY SectionLists
<1>2. Of("global") \cup Of("skip") \cup Of("binat") \cup Of("nat") \cup Of("filter") = c
  <2>1. /\ DOMAIN Types = 1..5
        /\ Types[1] = "global" /\ Types[2] = "skip" /\ Types[3] = "binat"
        /\ Types[4] = "nat" /\ Types[5] = "filter"
    BY DEF Types
  <2>2. \A l \in c : l.type \in {"global", "skip", "binat", "nat", "filter"}
    BY <2>1 DEF Line
  <2>q. QED
    BY <2>2
<1> DEFINE g2 == Section(c, "global") \o Section(c, "skip")
           g3 == g2 \o Section(c, "binat")
           g4 == g3 \o Section(c, "nat")
           g5 == g4 \o Section(c, "filter")
           G2 == Of("global") \cup Of("skip")
           G3 == G2 \cup Of("binat")
           G4 == G3 \cup Of("nat")
           G5 == G4 \cup Of("filter")
<1>3. Lists(g2, G2)
  BY <1>1, ConcatLists
<1>4. Lists(g3, G3)
  <2> HIDE DEF g2, G2
  <2>q. QED
    BY <1>1, <1>3, ConcatLists
<1>5. Lists(g4, G4)
  <2> HIDE DEF g3, G3
  <2>q. QED
    BY <1>1, <1>4, ConcatLists
<1>6. Lists(g5, G5)
  <2> HIDE DEF g4, G4
  <2>q. QED
    BY <1>1, <1>5, ConcatLists
<1>q. QED
  BY <1>2, <1>6 DEF Gen
-----------------------------------------------------------------------------
(* Types. *)

LEMMA RulesType ==
  ASSUME TypeOK
  PROVE  Rules \subseteq Known /\ Rules \subseteq Line /\ IsFiniteSet(Rules)
<1>1. IsFiniteSet(Known) /\ Known \subseteq Line
  BY PfAssumption, FS_AddElement DEF Known
<1>2. Rules \subseteq Known
  BY DEF TypeOK, Rules
<1>q. QED
  BY <1>1, <1>2, FS_Subset

LEMMA GenType ==
  ASSUME NEW c, c \subseteq Known
  PROVE  /\ Gen(c) \in Seq(Known)
         /\ {Gen(c)[i] : i \in DOMAIN Gen(c)} = c
<1>1. IsFiniteSet(Known) /\ Known \subseteq Line
  BY PfAssumption, FS_AddElement DEF Known
<1>2. c \subseteq Line /\ IsFiniteSet(c)
  BY <1>1, FS_Subset
<1>3. Gen(c) \in Seq(Line) /\ {Gen(c)[i] : i \in DOMAIN Gen(c)} = c
  BY <1>2, GenLists DEF Lists
<1>q. QED
  BY <1>3

\* cut keeps the number of lines, and writing one line more takes it off what is left.
LEMMA TextsType ==
  ASSUME NEW q \in Seq(Known)
  PROVE  /\ Texts(q) \in Seq(DOMAIN Ere)
         /\ Texts(q) = <<>> <=> q = <<>>
         /\ q # <<>> => /\ Head(q).text \in DOMAIN Ere
                        /\ Texts(q) = <<Head(q).text>> \o Texts(Tail(q))
<1>1. \A l \in Known : l.text \in DOMAIN Ere
  BY PfAssumption DEF Known, Line
<1>2. Texts(q) \in Seq(DOMAIN Ere) /\ Len(Texts(q)) = Len(q)
  BY <1>1 DEF Texts
<1>3. ASSUME q # <<>>
      PROVE  Head(q).text \in DOMAIN Ere /\ Texts(q) = <<Head(q).text>> \o Texts(Tail(q))
  <2>1. Head(q) \in Known /\ Head(q) = q[1] /\ Tail(q) \in Seq(Known)
        /\ Len(Tail(q)) = Len(q) - 1 /\ \A i \in 1..Len(Tail(q)) : Tail(q)[i] = q[i + 1]
    BY <1>3, HeadTailProperties
  <2>2. Texts(Tail(q)) \in Seq(DOMAIN Ere) /\ Len(Texts(Tail(q))) = Len(q) - 1
        /\ \A i \in 1..(Len(q) - 1) : Texts(Tail(q))[i] = q[i + 1].text
    BY <1>1, <2>1 DEF Texts
  <2> DEFINE r == <<Head(q).text>> \o Texts(Tail(q))
  <2>3. r \in Seq(DOMAIN Ere) /\ Len(r) = Len(q)
        /\ \A i \in 1..Len(q) : r[i] = q[i].text
    <3> DEFINE h == <<Head(q).text>>
               t == Texts(Tail(q))
    <3>1. h \in Seq(DOMAIN Ere) /\ Len(h) = 1 /\ h[1] = q[1].text
      BY <1>1, <2>1
    <3>2. t \in Seq(DOMAIN Ere) /\ Len(t) = Len(q) - 1 /\ Len(q) \in Nat
          /\ \A i \in 1..(Len(q) - 1) : t[i] = q[i + 1].text
      BY <2>2
    <3> HIDE DEF h, t
    <3>3. /\ h \o t \in Seq(DOMAIN Ere) /\ Len(h \o t) = Len(q)
          /\ \A i \in 1..Len(q) : (h \o t)[i] = IF i <= 1 THEN h[i] ELSE t[i - 1]
      <4>1. /\ h \o t \in Seq(DOMAIN Ere) /\ Len(h \o t) = Len(h) + Len(t)
            /\ \A i \in 1..(Len(h) + Len(t)) :
                   (h \o t)[i] = IF i <= Len(h) THEN h[i] ELSE t[i - Len(h)]
        BY <3>1, <3>2, ConcatProperties, Zenon
      <4>2. Len(h) + Len(t) = Len(q)
        BY <3>1, <3>2
      <4>q. QED
        BY <3>1, <4>1, <4>2
    <3>4. \A i \in 1..Len(q) : (h \o t)[i] = q[i].text
      <4> TAKE i \in 1..Len(q)
      <4>1. CASE i = 1
        BY <3>1, <3>3, <4>1
      <4>2. CASE i # 1
        <5>1. i - 1 \in 1..(Len(q) - 1) /\ (i - 1) + 1 = i
          BY <3>2, <4>2
        <5>q. QED
          BY <3>2, <3>3, <4>2, <5>1
      <4>q. QED
        BY <4>1, <4>2
    <3>q. QED
      BY <3>3, <3>4 DEF h, t
  <2>4. \A i \in 1..Len(q) : Texts(q)[i] = q[i].text
    BY DEF Texts
  <2> HIDE DEF r
  <2>5. r = Texts(q)
    BY <1>2, <2>3, <2>4, SeqEqual
  <2>q. QED
    BY <1>1, <2>1, <2>5 DEF r
<1>4. Texts(q) = <<>> <=> q = <<>>
  BY <1>2
<1>q. QED
  BY <1>2, <1>3, <1>4

\* What pfctl takes is a ruleset.
LEMMA AcceptedType ==
  ASSUME NEW q \in Seq(DOMAIN Ere), Accepted(q)
  PROVE  q \in Seq(Valid)
  BY DEF Accepted

LEMMA TypeInit == Init => TypeOK
<1> SUFFICES ASSUME Init PROVE TypeOK
  OBVIOUS
<1>1. Lines \subseteq Known /\ PassAll \in Known
  BY DEF Known
<1>2. conf \in (SUBSET Known) \cup {Missing}
  BY <1>1 DEF Init
<1>3. conf # Missing => Texts(Gen(conf)) \in Seq(DOMAIN Ere)
  BY <1>2, GenType, TextsType
<1>4. pfconf \in Seq(DOMAIN Ere) \cup {Missing} /\ loaded \in Seq(Valid)
  <2>1. <<>> \in Seq(Valid)
    OBVIOUS
  <2>2. pfconf \in Seq(DOMAIN Ere) \cup {Missing}
    BY <1>3 DEF Init
  <2>q. QED
    BY <2>1, <2>2, AcceptedType DEF Init
<1>5. out \in [Sessions -> Seq(Known)]
  BY DEF Init
<1>q. QED
  BY <1>1, <1>2, <1>4, <1>5 DEF Init, TypeOK, Labels

LEMMA TypeStep == TypeOK /\ [Next]_vars => TypeOK'
<1> SUFFICES ASSUME TypeOK, [Next]_vars PROVE TypeOK'
  OBVIOUS
<1>0. /\ Lines \subseteq Known /\ PassAll \in Known /\ Rules \subseteq Known
      /\ Ruleset \in Seq(DOMAIN Ere)
  <2>1. <<>> \in Seq(DOMAIN Ere)
    OBVIOUS
  <2>q. QED
    BY <2>1, RulesType DEF Known, TypeOK, Ruleset
<1>1. ASSUME NEW s \in Sessions, Add(s) \/ Del(s) \/ Reload(s) PROVE TypeOK'
  BY <1>0, <1>1, ZenonT(60) DEF Add, Del, Reload, Start, Goto, files, TypeOK, Labels
<1>2. ASSUME NEW s \in Sessions, Grep(s) PROVE TypeOK'
  BY <1>0, <1>2, ZenonT(60) DEF Grep, Goto, Forget, files, TypeOK, Labels
<1>3. ASSUME NEW s \in Sessions, AppendRule(s) \/ Replace(s) \/ WritePass(s) PROVE TypeOK'
  <2>1. conf' \in SUBSET Known
    BY <1>0, <1>3 DEF AppendRule, Replace, WritePass, TypeOK
  <2>2. PICK l \in Labels : pc' = [pc EXCEPT ![s] = l] /\ l \notin {"write", "lost"}
    BY <1>3 DEF AppendRule, Replace, WritePass, Goto, Labels
  <2>3. arg' \in [Sessions -> Known] /\ kept' \in [Sessions -> SUBSET Known]
    BY <1>0, <1>3 DEF AppendRule, Replace, WritePass, Forget, TypeOK
  <2>q. QED
    BY <1>0, <1>3, <2>1, <2>2, <2>3 DEF AppendRule, Replace, WritePass, TypeOK
<1>4. ASSUME NEW s \in Sessions, Filter(s) PROVE TypeOK'
  BY <1>0, <1>4 DEF Filter, Goto, files, TypeOK, Labels
<1>5. ASSUME NEW s \in Sessions, ReadRules(s) PROVE TypeOK'
  <2>1. Gen(Rules) \in Seq(Known)
    BY <1>0, GenType
  <2>q. QED
    BY <1>5, <2>1 DEF ReadRules, Goto, files, TypeOK, Labels
<1>6. ASSUME NEW s \in Sessions, Unlink(s) PROVE TypeOK'
  <2>1. pc' \in [Sessions -> Labels]
    BY <1>6 DEF Unlink, TypeOK, Labels
  <2>q. QED
    BY <1>6, <2>1 DEF Unlink, TypeOK
<1>7. ASSUME NEW s \in Sessions, OpenFile(s) PROVE TypeOK'
  BY <1>0, <1>7 DEF OpenFile, Goto, TypeOK, Labels
<1>8. ASSUME NEW s \in Sessions, EmitLine(s) PROVE TypeOK'
  <2>1. out[s] \in Seq(Known) /\ out[s] # <<>>
    BY <1>8 DEF EmitLine, TypeOK
  <2>2. Head(out[s]).text \in DOMAIN Ere /\ Tail(out[s]) \in Seq(Known)
    BY <2>1, TextsType, HeadTailProperties
  <2>3. Append(Ruleset, Head(out[s]).text) \in Seq(DOMAIN Ere)
    BY <1>0, <2>2
  <2>q. QED
    BY <1>8, <2>2, <2>3 DEF EmitLine, Goto, TypeOK, Labels
<1>9. ASSUME NEW s \in Sessions, LoadRules(s) PROVE TypeOK'
  <2>1. loaded' \in Seq(Valid)
    BY <1>9, AcceptedType DEF LoadRules, Load, TypeOK
  <2>q. QED
    BY <1>9, <2>1 DEF LoadRules, Goto, TypeOK, Labels
<1>10. CASE UNCHANGED vars
  BY <1>10 DEF vars, files, TypeOK
<1>q. QED
  BY <1>1, <1>2, <1>3, <1>4, <1>5, <1>6, <1>7, <1>8, <1>9, <1>10 DEF Next, Step

\* The files hold rules, and what is loaded are the texts of rules.
THEOREM PfTypeCorrect == Spec => []TypeOK
<1>q. QED
  BY TypeInit, TypeStep, PTL DEF Spec

-----------------------------------------------------------------------------
(* The ruleset in force, however the scripts mix. *)

LEMMA NoRulesIsAFile == <<>> # Missing /\ <<>> \in Seq(DOMAIN Ere)
<1>1. <<>> \in Seq(DOMAIN Ere)
  OBVIOUS
<1>q. QED
  BY <1>1, PfAssumption

\* A pf.conf without a line is one that a script has just created.
FileHasRules == pfconf = <<>> => \E s \in Sessions : pc[s] = "write"

LEMMA FileHasRulesInit == Init => FileHasRules
<1> SUFFICES ASSUME Init, pfconf = <<>> PROVE FALSE
  BY DEF FileHasRules
<1>1. conf \in SUBSET Known /\ conf # {} /\ Texts(Gen(conf)) = <<>>
  BY NoRulesIsAFile DEF Init, Known
<1>2. Gen(conf) \in Seq(Known) /\ {Gen(conf)[i] : i \in DOMAIN Gen(conf)} = conf
  BY <1>1, GenType
<1>3. Gen(conf) = <<>>
  BY <1>1, <1>2, TextsType
<1>q. QED
  BY <1>1, <1>2, <1>3

LEMMA FileHasRulesStep == TypeOK /\ FileHasRules /\ [Next]_vars => FileHasRules'
<1> SUFFICES ASSUME TypeOK, FileHasRules, [Next]_vars PROVE FileHasRules'
  OBVIOUS
<1>1. ASSUME NEW s \in Sessions, NEW l \in Labels, pfconf' = pfconf, pc[s] # "write",
             pc' = [pc EXCEPT ![s] = l]
      PROVE  FileHasRules'
  BY <1>1 DEF FileHasRules, TypeOK
<1>2. ASSUME NEW s \in Sessions, Add(s) \/ Del(s) \/ Reload(s) \/ Grep(s) \/ Filter(s)
                                 \/ ReadRules(s) \/ AppendRule(s) \/ Replace(s)
                                 \/ WritePass(s) \/ LoadRules(s)
      PROVE  FileHasRules'
  <2>1. PICK l \in Labels : pfconf' = pfconf /\ pc[s] # "write" /\ pc' = [pc EXCEPT ![s] = l]
    BY <1>2, ZenonT(60) DEF Add, Del, Reload, Start, Goto, Grep, Filter, ReadRules, AppendRule,
                Replace, WritePass, LoadRules, files, Labels
  <2>q. QED
    BY <1>1, <2>1
<1>3. ASSUME NEW s \in Sessions, Unlink(s) PROVE FileHasRules'
  BY <1>3, NoRulesIsAFile DEF Unlink, FileHasRules
<1>4. ASSUME NEW s \in Sessions, OpenFile(s) PROVE FileHasRules'
  BY <1>4 DEF OpenFile, Goto, FileHasRules, TypeOK
<1>5. ASSUME NEW s \in Sessions, EmitLine(s) PROVE FileHasRules'
  <2>1. CASE pc[s] = "lost"
    BY <1>1, <1>5, <2>1 DEF EmitLine, Goto, Labels
  <2>2. CASE pc[s] # "lost"
    <3>1. Ruleset \in Seq(DOMAIN Ere) /\ Head(out[s]).text \in DOMAIN Ere
      BY <1>5, NoRulesIsAFile, TextsType DEF EmitLine, TypeOK, Ruleset
    <3>2. Append(Ruleset, Head(out[s]).text) # <<>>
      BY <3>1, AppendProperties
    <3>q. QED
      BY <1>5, <2>2, <3>2 DEF EmitLine, FileHasRules
  <2>q. QED
    BY <2>1, <2>2
<1>6. CASE UNCHANGED vars
  BY <1>6 DEF vars, files, FileHasRules
<1>q. QED
  BY <1>2, <1>3, <1>4, <1>5, <1>6 DEF Next, Step

\* The box loses its rules only to a pf.conf that another script is about to write.
THEOREM OnlyOverlapEmpties == Spec => EmptiedByOverlap
<1> DEFINE Blame == loaded # <<>> /\ loaded' = <<>> => \E s \in Sessions : pc[s] = "write"
<1>1. FileHasRules /\ [Next]_vars => [Blame]_vars
  <2> SUFFICES ASSUME FileHasRules, [Next]_vars, loaded # <<>>, loaded' = <<>>
               PROVE  \E s \in Sessions : pc[s] = "write"
    OBVIOUS
  <2>1. ASSUME NEW s \in Sessions, LoadRules(s) PROVE pfconf = <<>>
    BY <2>1 DEF LoadRules, Load
  <2>2. ASSUME NEW s \in Sessions, Add(s) \/ Del(s) \/ Reload(s) \/ Grep(s) \/ Filter(s)
                                   \/ ReadRules(s) \/ AppendRule(s) \/ Replace(s)
                                   \/ WritePass(s) \/ Unlink(s) \/ OpenFile(s) \/ EmitLine(s)
        PROVE  FALSE
    BY <2>2 DEF Add, Del, Reload, Start, Grep, Filter, ReadRules, AppendRule, Replace,
                WritePass, Unlink, OpenFile, EmitLine, files
  <2>3. CASE UNCHANGED vars
    BY <2>3 DEF vars, files
  <2>q. QED
    BY <2>1, <2>2, <2>3 DEF Next, Step, FileHasRules
<1>q. QED
  BY <1>1, FileHasRulesInit, FileHasRulesStep, PfTypeCorrect, TypeInit, TypeStep, PTL
     DEF Spec, EmptiedByOverlap
-----------------------------------------------------------------------------
(* A script that runs alone. *)

\* As long as no rule has ever been added, nothing is written and nothing loaded.
NoRulesYet == conf = Missing => /\ pfconf = Missing
                                /\ loaded = <<>>
                                /\ \A s \in Sessions : out[s] = <<>>

Alone(s) == \A t \in Sessions \ {s} : pc[t] = "idle"
InForce == Accepted(Texts(Gen(Rules))) => loaded = Texts(Gen(Rules))

\* What a script that runs alone knows at each of its programs: before pfreload, that the
\* rules in force are those of the file as it was; when it deletes, what it keeps; and
\* when it writes pf.conf, that the lines there and the lines to come are the ruleset.
Knows(s) == /\ pc[s] \in {"grep", "append", "filter", "replace"} => InForce
            /\ pc[s] = "replace" => kept[s] = {l \in Rules : ~Matches(arg[s], l)}
            /\ pc[s] = "pass" => Rules = {}
            /\ pc[s] = "unlink" => out[s] = Gen(Rules)
            /\ pc[s] \in {"emit", "write"} => Ruleset \o Texts(out[s]) = Texts(Gen(Rules))
            /\ pc[s] # "lost"

OneAtATime == ~disturbed => /\ (\A s \in Sessions : pc[s] = "idle") => InForce
                            /\ \A s \in Sessions : pc[s] # "idle" => Alone(s) /\ Knows(s)

\* nssh_pf.conf is empty only while a script has opened it to write the rule that passes all.
EmptyToPass == conf = {} => \E s \in Sessions : pc[s] = "pass"

RuleInv == TypeOK /\ EmptyToPass /\ NoRulesYet /\ OneAtATime

LEMMA NothingGenerated ==
  Gen({}) = <<>> /\ Texts(<<>>) = <<>> /\ \A c \in SUBSET Known : Gen(c) = <<>> => c = {}
<1>1. Gen({}) \in Seq(Known) /\ {Gen({})[i] : i \in DOMAIN Gen({})} = {}
  BY GenType
<1>2. Gen({}) = <<>>
  BY <1>1
<1>3. Texts(<<>>) = <<>>
  <2>1. <<>> \in Seq(Known)
    OBVIOUS
  <2>q. QED
    BY <2>1, TextsType
<1>4. ASSUME NEW c \in SUBSET Known, Gen(c) = <<>> PROVE c = {}
  <2>1. {Gen(c)[i] : i \in DOMAIN Gen(c)} = c
    BY GenType
  <2>2. DOMAIN Gen(c) = {}
    BY <1>4
  <2>q. QED
    BY <2>1, <2>2
<1>q. QED
  BY <1>2, <1>3, <1>4

LEMMA RuleInit == Init => RuleInv
<1> SUFFICES ASSUME Init PROVE RuleInv
  OBVIOUS
<1>1. TypeOK
  BY TypeInit
<1>2. EmptyToPass /\ NoRulesYet
  <2>1. {} # Missing
    BY PfAssumption
  <2>q. QED
    BY <2>1 DEF Init, EmptyToPass, NoRulesYet
<1>3. OneAtATime
  <2>1. CASE conf = Missing
    BY <2>1, NothingGenerated DEF Init, OneAtATime, InForce, Rules
  <2>2. CASE conf # Missing
    <3>1. Rules \in SUBSET Known /\ pfconf = Texts(Gen(Rules))
      BY <1>1, <2>2, RulesType DEF Init, Rules
    <3>2. pfconf # Missing
      BY <3>1, GenType, TextsType, PfAssumption
    <3>q. QED
      BY <3>1, <3>2 DEF Init, OneAtATime, InForce
  <2>q. QED
    BY <2>1, <2>2
<1>q. QED
  BY <1>1, <1>2, <1>3 DEF RuleInv

\* Nothing is written before there is a rule.
LEMMA FileStep == RuleInv /\ [Next]_vars => EmptyToPass' /\ NoRulesYet'
<1> SUFFICES ASSUME RuleInv, [Next]_vars PROVE EmptyToPass' /\ NoRulesYet'
  OBVIOUS
<1> USE DEF RuleInv, NoRulesYet
<1>0. TypeOK /\ (Missing \notin SUBSET Known)
  BY PfAssumption
<1>1. ASSUME NEW s \in Sessions, Add(s) \/ Del(s) \/ Reload(s) \/ Grep(s) \/ Filter(s)
      PROVE  EmptyToPass' /\ NoRulesYet'
  <2>1. /\ conf' = conf /\ pfconf' = pfconf /\ loaded' = loaded /\ out' = out
        /\ pc[s] # "pass"
    BY <1>1 DEF Add, Del, Reload, Start, Grep, Filter, files
  <2>2. PICK l \in Labels : pc' = [pc EXCEPT ![s] = l]
    BY <1>1, ZenonT(60) DEF Add, Del, Reload, Start, Goto, Grep, Filter, Labels
  <2>q. QED
    BY <1>0, <2>1, <2>2 DEF EmptyToPass, TypeOK
<1>2. ASSUME NEW s \in Sessions, AppendRule(s) \/ WritePass(s) PROVE EmptyToPass' /\ NoRulesYet'
  <2>1. conf' # {} /\ conf' \in SUBSET Known
    BY <1>0, <1>2, RulesType DEF AppendRule, WritePass, TypeOK, Known
  <2>q. QED
    BY <1>0, <2>1 DEF EmptyToPass
<1>3. ASSUME NEW s \in Sessions, Replace(s) PROVE EmptyToPass' /\ NoRulesYet'
  <2>1. conf' = kept[s] /\ conf' \in SUBSET Known
    BY <1>0, <1>3 DEF Replace, TypeOK
  <2>2. kept[s] = {} => pc'[s] = "pass"
    BY <1>0, <1>3 DEF Replace, Goto, TypeOK
  <2>q. QED
    BY <1>0, <2>1, <2>2 DEF EmptyToPass
<1>4. ASSUME NEW s \in Sessions, ReadRules(s) PROVE EmptyToPass' /\ NoRulesYet'
  <2>1. conf = Missing => Gen(Rules) = <<>>
    BY NothingGenerated DEF Rules
  <2>2. conf' = conf /\ pfconf' = pfconf /\ loaded' = loaded
        /\ out' = [out EXCEPT ![s] = Gen(Rules)]
        /\ pc[s] = "read" /\ pc' = [pc EXCEPT ![s] = "unlink"]
    BY <1>4 DEF ReadRules, Goto, files
  <2>3. NoRulesYet'
    BY <1>0, <2>1, <2>2 DEF TypeOK
  <2>q. QED
    BY <1>0, <2>2, <2>3 DEF EmptyToPass, TypeOK
<1>5. ASSUME NEW s \in Sessions, Unlink(s) PROVE EmptyToPass' /\ NoRulesYet'
  BY <1>0, <1>5 DEF Unlink, EmptyToPass, TypeOK
<1>6. ASSUME NEW s \in Sessions, OpenFile(s) \/ EmitLine(s) \/ LoadRules(s)
      PROVE  EmptyToPass' /\ NoRulesYet'
  <2>1. conf = Missing => loaded = <<>> /\ pfconf = Missing /\ out[s] = <<>>
    OBVIOUS
  <2>2. conf' = conf /\ pc[s] # "pass" /\ \E l \in Labels : pc' = [pc EXCEPT ![s] = l]
    BY <1>6 DEF OpenFile, EmitLine, LoadRules, Goto, Labels
  <2>3. EmptyToPass'
    BY <1>0, <2>2 DEF EmptyToPass, TypeOK
  <2>4. ASSUME conf = Missing PROVE pfconf' = Missing /\ loaded' = <<>> /\ out' = out
    <3>1. LoadRules(s)
      BY <1>0, <1>6, <2>1, <2>4 DEF OpenFile, EmitLine, TypeOK
    <3>q. QED
      BY <2>1, <2>4, <3>1 DEF LoadRules, Load
  <2>q. QED
    BY <2>2, <2>3, <2>4
<1>7. CASE UNCHANGED vars
  BY <1>7 DEF vars, files, EmptyToPass
<1>q. QED
  BY <1>1, <1>2, <1>3, <1>4, <1>5, <1>6, <1>7 DEF Next, Step

\* A step of the only script that runs.
LEMMA OnlyScript ==
  ASSUME TypeOK, NEW s \in Sessions, NEW l \in Labels, Alone(s),
         pc' = [pc EXCEPT ![s] = l],
         IF l = "idle" THEN InForce' ELSE Knows(s)'
  PROVE  OneAtATime'
<1>1. pc'[s] = l /\ \A t \in Sessions \ {s} : pc'[t] = "idle"
  BY DEF TypeOK, Alone
<1>2. CASE l = "idle"
  BY <1>1, <1>2 DEF OneAtATime
<1>3. CASE l # "idle"
  BY <1>1, <1>3 DEF OneAtATime, Alone
<1>q. QED
  BY <1>2, <1>3

LEMMA OneAtATimeStep == RuleInv /\ [Next]_vars => OneAtATime'
<1> SUFFICES ASSUME RuleInv, [Next]_vars, ~disturbed' PROVE OneAtATime'
  BY DEF OneAtATime
<1>0. TypeOK
  BY DEF RuleInv
<1>1. ASSUME NEW s \in Sessions, pc[s] # "idle", ~disturbed PROVE Alone(s) /\ Knows(s)
  BY <1>1 DEF RuleInv, OneAtATime
<1>2. ASSUME NEW s \in Sessions, NEW l \in {"grep", "filter", "read"}, Start(s, l)
      PROVE  OneAtATime'
  <2>1. ~disturbed /\ Others(s) = {} /\ pc[s] = "idle"
    BY <1>2 DEF Start
  <2>2. Alone(s) /\ \A t \in Sessions : pc[t] = "idle"
    BY <2>1 DEF Others, Alone
  <2>3. InForce
    BY <2>1, <2>2 DEF RuleInv, OneAtATime
  <2>4. InForce' /\ pc' = [pc EXCEPT ![s] = l] /\ l # "idle"
    BY <1>2, <2>3 DEF Start, Goto, files, InForce, Rules
  <2>5. Knows(s)'
    BY <1>0, <2>4 DEF Knows, TypeOK
  <2>q. QED
    BY <1>0, <2>2, <2>4, <2>5, OnlyScript DEF Labels
<1>3. ASSUME NEW s \in Sessions, Add(s) \/ Del(s) \/ Reload(s) PROVE OneAtATime'
  BY <1>2, <1>3 DEF Add, Del, Reload
<1>4. ASSUME NEW s \in Sessions, Grep(s) PROVE OneAtATime'
  <2>1. Alone(s) /\ InForce
    BY <1>1, <1>4 DEF Grep, Knows
  <2>2. InForce'
    BY <1>4, <2>1 DEF Grep, files, InForce, Rules
  <2>3. PICK l \in {"idle", "append"} : pc' = [pc EXCEPT ![s] = l]
    BY <1>4 DEF Grep, Goto
  <2>4. Knows(s)'
    BY <1>0, <2>2, <2>3 DEF Knows, TypeOK
  <2>q. QED
    BY <1>0, <2>1, <2>2, <2>3, <2>4, OnlyScript DEF Labels
<1>5. ASSUME NEW s \in Sessions, AppendRule(s) \/ Replace(s) \/ WritePass(s) PROVE OneAtATime'
  <2>1. Alone(s)
    BY <1>1, <1>5 DEF AppendRule, Replace, WritePass
  <2>2. PICK l \in {"read", "pass"} : pc' = [pc EXCEPT ![s] = l]
    BY <1>5, Zenon DEF AppendRule, Replace, WritePass, Goto
  <2>3. Knows(s)'
    <3>1. pc'[s] = l
      BY <1>0, <2>2 DEF TypeOK
    <3>2. l = "pass" => Rules' = {}
      BY <1>0, <1>5, <3>1 DEF AppendRule, Replace, WritePass, Goto, Rules, TypeOK
    <3>q. QED
      BY <3>1, <3>2 DEF Knows
  <2>q. QED
    BY <1>0, <2>1, <2>2, <2>3, OnlyScript DEF Labels
<1>6. ASSUME NEW s \in Sessions, Filter(s) PROVE OneAtATime'
  <2>1. Alone(s) /\ InForce
    BY <1>1, <1>6 DEF Filter, Knows
  <2>2. InForce' /\ pc' = [pc EXCEPT ![s] = "replace"]
    BY <1>6, <2>1 DEF Filter, Goto, files, InForce, Rules
  <2>3. kept'[s] = {l \in Rules' : ~Matches(arg'[s], l)}
    BY <1>0, <1>6 DEF Filter, files, TypeOK, Rules
  <2>4. Knows(s)'
    BY <1>0, <2>2, <2>3 DEF Knows, TypeOK
  <2>q. QED
    BY <1>0, <2>1, <2>2, <2>4, OnlyScript DEF Labels
<1>7. ASSUME NEW s \in Sessions, ReadRules(s) PROVE OneAtATime'
  <2>1. Alone(s)
    <3>1. ~disturbed \/ Others(s) = {}
      BY <1>7 DEF ReadRules
    <3>2. CASE ~disturbed
      BY <1>1, <1>7, <3>2 DEF ReadRules
    <3>3. CASE Others(s) = {}
      BY <3>3 DEF Others, Alone
    <3>q. QED
      BY <3>1, <3>2, <3>3
  <2>2. pc' = [pc EXCEPT ![s] = "unlink"] /\ out'[s] = Gen(Rules')
    BY <1>0, <1>7 DEF ReadRules, Goto, files, TypeOK, Rules
  <2>3. Knows(s)'
    BY <1>0, <2>2 DEF Knows, TypeOK
  <2>q. QED
    BY <1>0, <2>1, <2>2, <2>3, OnlyScript DEF Labels
<1>8. ASSUME NEW s \in Sessions, Unlink(s) PROVE OneAtATime'
  <2>1. Alone(s) /\ out[s] = Gen(Rules)
    BY <1>1, <1>8 DEF Unlink, Knows
  <2>2. pc' = [pc EXCEPT ![s] = "emit"] /\ Ruleset' = <<>> /\ out'[s] = Gen(Rules')
    BY <1>0, <1>8, <2>1 DEF Unlink, Alone, TypeOK, Ruleset, Rules
  <2>3. Ruleset' \o Texts(out'[s]) = Texts(Gen(Rules'))
    <3>1. Texts(out[s]) \in Seq(DOMAIN Ere)
      BY <1>0, TextsType DEF TypeOK
    <3>2. out'[s] = out[s]
      BY <1>8 DEF Unlink
    <3>3. <<>> \o Texts(out[s]) = Texts(out[s])
      BY <3>1, ConcatEmptySeq
    <3>q. QED
      BY <2>2, <3>2, <3>3
  <2>4. Knows(s)'
    BY <1>0, <2>2, <2>3 DEF Knows, TypeOK
  <2>q. QED
    BY <1>0, <2>1, <2>2, <2>4, OnlyScript DEF Labels
<1>12. ASSUME NEW s \in Sessions, OpenFile(s) PROVE OneAtATime'
  <2>1. Alone(s) /\ Ruleset \o Texts(out[s]) = Texts(Gen(Rules))
    BY <1>1, <1>12 DEF OpenFile, Knows
  <2>2. pc' = [pc EXCEPT ![s] = "write"] /\ Ruleset' = Ruleset /\ out' = out /\ Rules' = Rules
    BY <1>12 DEF OpenFile, Goto, Ruleset, Rules
  <2>3. Knows(s)'
    BY <1>0, <2>1, <2>2 DEF Knows, TypeOK
  <2>q. QED
    BY <1>0, <2>1, <2>2, <2>3, OnlyScript DEF Labels
<1>9. ASSUME NEW s \in Sessions, EmitLine(s) PROVE OneAtATime'
  <2> DEFINE h == Head(out[s])
             q == Tail(out[s])
  <2>1. pc[s] = "write" /\ Alone(s) /\ Ruleset \o Texts(out[s]) = Texts(Gen(Rules))
    BY <1>1, <1>9 DEF EmitLine, Knows
  <2>2. /\ h.text \in DOMAIN Ere /\ q \in Seq(Known) /\ Texts(q) \in Seq(DOMAIN Ere)
        /\ Texts(out[s]) = <<h.text>> \o Texts(q)
        /\ Ruleset \in Seq(DOMAIN Ere)
    <3>1. out[s] \in Seq(Known) /\ out[s] # <<>>
      BY <1>0, <1>9 DEF EmitLine, TypeOK
    <3>2. q \in Seq(Known)
      BY <3>1, HeadTailProperties
    <3>3. <<>> \in Seq(DOMAIN Ere)
      OBVIOUS
    <3>q. QED
      BY <1>0, <3>1, <3>2, <3>3, TextsType DEF Ruleset, TypeOK
  <2> HIDE DEF h, q
  <2>3. Append(Ruleset, h.text) \in Seq(DOMAIN Ere)
        /\ Append(Ruleset, h.text) = Ruleset \o <<h.text>>
    BY <2>2, AppendProperties, AppendIsConcat
  <2>4. Append(Ruleset, h.text) \o Texts(q) = Texts(Gen(Rules))
    <3>1. <<h.text>> \in Seq(DOMAIN Ere)
      BY <2>2
    <3>2. (Ruleset \o <<h.text>>) \o Texts(q) = Ruleset \o (<<h.text>> \o Texts(q))
      BY <2>2, <3>1, ConcatAssociative
    <3>q. QED
      BY <2>1, <2>2, <2>3, <3>2
  <2>5. /\ pfconf' = Append(Ruleset, h.text)
        /\ out'[s] = q /\ pc' = [pc EXCEPT ![s] = "emit"] /\ Rules' = Rules
    BY <1>0, <1>9, <2>1 DEF EmitLine, Goto, TypeOK, Rules, h, q
  <2>6. Ruleset' = Append(Ruleset, h.text)
    BY <2>3, <2>5, PfAssumption DEF Ruleset
  <2>7. Knows(s)'
    BY <1>0, <2>4, <2>5, <2>6 DEF Knows, TypeOK
  <2>q. QED
    BY <1>0, <2>1, <2>5, <2>7, OnlyScript DEF Labels
<1>10. ASSUME NEW s \in Sessions, LoadRules(s) PROVE OneAtATime'
  <2>1. Alone(s) /\ Ruleset \o Texts(out[s]) = Texts(Gen(Rules)) /\ out[s] = <<>>
    BY <1>1, <1>10 DEF LoadRules, Knows
  <2>2. Ruleset = Texts(Gen(Rules))
    <3>1. <<>> \in Seq(DOMAIN Ere)
      OBVIOUS
    <3>2. Ruleset \in Seq(DOMAIN Ere)
      BY <1>0, <3>1 DEF Ruleset, TypeOK
    <3>3. Ruleset \o <<>> = Ruleset
      BY <3>2, ConcatEmptySeq
    <3>q. QED
      BY <2>1, <3>3, NothingGenerated
  <2>3. Accepted(Ruleset) => loaded' = Ruleset
    <3>1. CASE pfconf # Missing
      BY <1>10, <3>1 DEF LoadRules, Load, Ruleset
    <3>2. CASE pfconf = Missing
      <4>1. Rules \in SUBSET Known /\ Gen(Rules) \in Seq(Known) /\ Texts(Gen(Rules)) = <<>>
        BY <1>0, <2>2, <3>2, RulesType, GenType DEF Ruleset
      <4>2. Gen(Rules) = <<>>
        BY <4>1, TextsType
      <4>3. Rules = {}
        BY <4>1, <4>2, NothingGenerated
      <4>4. conf # {}
        BY <1>10, <2>1 DEF LoadRules, RuleInv, EmptyToPass, Alone
      <4>5. conf = Missing
        BY <4>3, <4>4 DEF Rules
      <4>q. QED
        BY <1>10, <3>2, <4>5 DEF LoadRules, Load, RuleInv, NoRulesYet, Ruleset
    <3>q. QED
      BY <3>1, <3>2
  <2>4. InForce' /\ pc' = [pc EXCEPT ![s] = "idle"]
    BY <1>10, <2>2, <2>3 DEF LoadRules, Goto, InForce, Rules
  <2>q. QED
    BY <1>0, <2>1, <2>4, OnlyScript DEF Labels
<1>11. CASE UNCHANGED vars
  BY <1>11 DEF vars, files, RuleInv, OneAtATime, InForce, Alone, Knows, Rules, Ruleset
<1>q. QED
  BY <1>3, <1>4, <1>5, <1>6, <1>7, <1>8, <1>9, <1>10, <1>11, <1>12 DEF Next, Step

LEMMA RuleInvariant == Spec => []RuleInv
<1>1. RuleInv /\ [Next]_vars => RuleInv'
  BY TypeStep, FileStep, OneAtATimeStep DEF RuleInv
<1>q. QED
  BY RuleInit, <1>1, PTL DEF Spec

\* Whenever no script runs, the rules in force are those of nssh_pf.conf, if pfctl takes them
\* all, and scripts never ran at once or a reload ran alone since.
THEOREM RulesComeInForce == Spec => []RulesInForce
<1>1. RuleInv => RulesInForce
  BY DEF RuleInv, OneAtATime, InForce, RulesInForce
<1>q. QED
  BY RuleInvariant, <1>1, PTL

\* A rule leaves nssh_pf.conf only if it is the one that the deletion names, as long as no
\* other script has run beside.
THEOREM OnlyNamedRulesGo == Spec => OnlyDeletedRulesGo
<1> DEFINE Kept == ~disturbed => \A l \in Rules \ Rules' :
                       \E s \in Sessions : pc[s] = "replace" /\ Matches(arg[s], l)
<1>1. RuleInv /\ [Next]_vars => [Kept]_vars
  <2> SUFFICES ASSUME RuleInv, [Next]_vars, ~disturbed, NEW l \in Rules \ Rules'
               PROVE  \E s \in Sessions : pc[s] = "replace" /\ Matches(arg[s], l)
    OBVIOUS
  <2>1. ASSUME NEW s \in Sessions, Add(s) \/ Del(s) \/ Reload(s) \/ Grep(s) \/ Filter(s)
                                   \/ ReadRules(s) \/ Unlink(s) \/ OpenFile(s) \/ EmitLine(s)
                                   \/ LoadRules(s)
        PROVE  FALSE
    <3>1. conf' = conf
      BY <2>1 DEF Add, Del, Reload, Start, Grep, Filter, ReadRules, Unlink, OpenFile,
                  EmitLine, LoadRules, files
    <3>q. QED
      BY <3>1 DEF Rules
  <2>2. ASSUME NEW s \in Sessions, AppendRule(s) PROVE FALSE
    <3>1. conf' = Rules \cup {arg[s]} /\ conf' \in SUBSET Known
      BY <2>2, RulesType DEF AppendRule, RuleInv, TypeOK
    <3>q. QED
      BY <3>1, PfAssumption DEF Rules
  <2>3. ASSUME NEW s \in Sessions, Replace(s)
        PROVE  pc[s] = "replace" /\ Matches(arg[s], l)
    <3>1. pc[s] = "replace" /\ kept[s] = {k \in Rules : ~Matches(arg[s], k)}
      BY <2>3 DEF Replace, RuleInv, OneAtATime, Knows
    <3>2. kept[s] = conf' /\ conf' \in SUBSET Known
      BY <2>3, PfAssumption DEF Replace, RuleInv, TypeOK, Known
    <3>3. conf' # Missing
      BY <3>2, PfAssumption
    <3>4. l \notin kept[s]
      BY <3>2, <3>3 DEF Rules
    <3>q. QED
      BY <3>1, <3>4
  <2>4. ASSUME NEW s \in Sessions, WritePass(s) PROVE FALSE
    <3>1. pc[s] = "pass" /\ Rules = {}
      BY <2>4 DEF WritePass, RuleInv, OneAtATime, Knows
    <3>q. QED
      BY <3>1
  <2>5. CASE UNCHANGED vars
    BY <2>5 DEF vars, files, Rules
  <2>q. QED
    BY <2>1, <2>2, <2>3, <2>4, <2>5 DEF Next, Step
<1>q. QED
  BY RuleInvariant, <1>1, PTL DEF Spec, OnlyDeletedRulesGo
=============================================================================
