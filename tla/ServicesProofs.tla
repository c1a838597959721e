--------------------------- MODULE ServicesProofs ---------------------------
(***************************************************************************)
(* Proofs about Services, for any routing tables, settings, requests and   *)
(* numbers of processes.                                                   *)
(***************************************************************************)
EXTENDS Services, SequenceTheorems, WellFoundedInduction, TLAPS

Steps == StepNames \X Daemons

\* With the configuration c, in the boot if b: which step of the daemon d comes right after which.
Link(c, b, x, y, d) ==
    \/ d \in Dhcpds /\ Enabled(c, d) /\ <<x, y>> \in {<<"pkill", "write">>, <<"write", "start">>}
    \/ /\ d = "dnsmasq" /\ Enabled(c, d)
       /\ IF b THEN <<x, y>> = <<"pkill", "start">>
          ELSE <<x, y>> \in {<<"pkill", "sleep">>, <<"sleep", "start">>}
    \/ d = "dhcrelay" /\ <<x, y>> = <<"pidkill", "unlink">>
    \/ /\ d = "dhcrelay" /\ Enabled(c, d)
       /\ IF b THEN <<x, y>> = <<"unlink", "start">>
          ELSE <<x, y>> \in {<<"unlink", "sleep">>, <<"sleep", "start">>}
    \/ /\ d = "dyndns" /\ Enabled(c, d)
       /\ IF b THEN <<x, y>> = <<"pidkill", "write">>
          ELSE <<x, y>> \in {<<"pidkill", "sleep">>, <<"sleep", "write">>}
    \/ d = "dyndns" /\ Enabled(c, d) /\ <<x, y>> = <<"write", "start">>
    \/ d = "bgpd" /\ <<x, y>> \in {<<"write", "check">>, <<"pgrep", "start">>}
    \/ d = "relayd" /\ <<x, y>> \in {<<"write", "pkill">>, <<"pkill", "start">>}

\* The step a function begins with for the daemon d, and the others.
First(d) == IF d \in Dhcpds \cup {"dnsmasq"} THEN "pkill"
            ELSE IF d \in ByPid THEN "pidkill" ELSE "write"
NamesIf(p, names) == IF p THEN names ELSE {}
Names(c, d) ==
    IF d \in Dhcpds THEN {"pkill", "filter"} \cup NamesIf(Enabled(c, d), {"write", "start"})
    ELSE CASE d = "dnsmasq" -> {"pkill"} \cup NamesIf(Enabled(c, d), {"sleep", "start"})
           [] d = "dhcrelay" -> {"pidkill", "unlink"}
                                \cup NamesIf(Enabled(c, d), {"sleep", "start", "filter"})
           [] d = "dyndns" -> {"pidkill"} \cup NamesIf(Enabled(c, d), {"sleep", "write", "start"})
           [] d = "bgpd" -> {"write", "check"}
           [] d = "relayd" -> {"write", "pkill", "start"}
           [] OTHER -> {}

\* The steps that Check puts before the rest.
Late == {<<"pgrep", "bgpd">>, <<"start", "bgpd">>, <<"reload", "bgpd">>}

Has(q, a, d) == \E i \in DOMAIN q : q[i] = <<a, d>>
About(q, d) == \E i \in DOMAIN q : q[i][2] = d /\ q[i][1] # "filter"
NoFilter(q) == \A i \in DOMAIN q : q[i][1] # "filter"
Once(q) == \A i, j \in DOMAIN q : q[i] = q[j] => i = j
Followed(q, c, b) == \A x, y \in StepNames, d \in Daemons : Link(c, b, x, y, d) =>
    \A i \in DOMAIN q : q[i] = <<x, d>> => i + 1 \in DOMAIN q /\ q[i + 1] = <<y, d>>

\* The steps of a function that is about the daemons ds.
Whole(q, c, b, ds) ==
    /\ q \in Seq(Steps) /\ Once(q) /\ Followed(q, c, b)
    /\ \A i \in DOMAIN q : q[i][1] \in Names(c, q[i][2])
    /\ \A x, y \in StepNames, d \in Daemons : Link(c, b, x, y, d) =>
         \A i \in DOMAIN q : q[i] = <<y, d>> => i - 1 \in DOMAIN q /\ q[i - 1] = <<x, d>>
    /\ \A d \in Daemons : IF d \in ds /\ c[d] # Gone THEN Has(q, First(d), d) ELSE ~About(q, d)

\* What is left of them.
Plan(q, c, b) ==
    /\ q \in Seq(Steps) /\ Once(q) /\ Followed(q, c, b)
    /\ \A i \in DOMAIN q : q[i][1] \in Names(c, q[i][2]) \/ q[i] \in Late
    /\ \A i \in DOMAIN q : q[i] \in Late => i = 1 \/ (i = 2 /\ q[1] = <<"pgrep", "bgpd">>)
    /\ \A x, y \in StepNames, d \in Daemons : Link(c, b, x, y, d) =>
         \A i \in DOMAIN q : q[i] = <<y, d>> /\ i # 1 => q[i - 1] = <<x, d>>
-----------------------------------------------------------------------------
(* The functions. *)

LEMMA Kinds ==
  /\ Daemons = Dhcpds \cup {"dnsmasq", "dhcrelay", "dyndns", "bgpd", "relayd"}
  /\ \A d \in Dhcpds : d \notin {"dnsmasq", "dhcrelay", "dyndns", "bgpd", "relayd"}
  /\ Default \in Dhcpds /\ Default \notin TableDhcpds
  /\ \A d \in Dhcpds : d \in ByFile /\ d \notin Exclusive /\ d \notin ByPid
BY ServicesAssumption, SMT DEF Daemons, Dhcpds, ByFile, Exclusive, ByPid

\* The daemons are of two sets, and so are the steps.
LEMMA ConcatWhole ==
  ASSUME NEW c, NEW b, NEW q1, NEW q2, NEW d1, NEW d2, d1 \cap d2 = {}, d1 \cup d2 \subseteq Daemons,
         Whole(q1, c, b, d1), Whole(q2, c, b, d2), NoFilter(q1)
  PROVE  Whole(q1 \o q2, c, b, d1 \cup d2) /\ (NoFilter(q2) => NoFilter(q1 \o q2))
<1>1. PICK q : q = q1 \o q2
  OBVIOUS
<1>2. PICK m \in Nat, n \in Nat : m = Len(q1) /\ n = Len(q2)
  BY DEF Whole
<1>3. /\ q \in Seq(Steps) /\ DOMAIN q = 1..(m + n) /\ DOMAIN q1 = 1..m /\ DOMAIN q2 = 1..n
      /\ \A i \in 1..m : q[i] = q1[i]
      /\ \A i \in (m + 1)..(m + n) : q[i] = q2[i - m]
  BY <1>1, <1>2 DEF Whole
<1>4. /\ \A i \in DOMAIN q1 : i \in DOMAIN q /\ q[i] = q1[i]
      /\ \A i \in DOMAIN q2 : i + m \in DOMAIN q /\ q[i + m] = q2[i]
      /\ \A i \in DOMAIN q : i \in DOMAIN q1 \/ i - m \in DOMAIN q2
      /\ \A i \in DOMAIN q : i \notin DOMAIN q1 => i - m \in DOMAIN q2 /\ q[i] = q2[i - m]
  <2>1. \A i \in 1..n : i + m \in (m + 1)..(m + n) /\ i + m \in 1..(m + n) /\ (i + m) - m = i
    OBVIOUS
  <2>2. \A i \in 1..(m + n) : i \notin 1..m => i \in (m + 1)..(m + n) /\ i - m \in 1..n
    OBVIOUS
  <2>3. \A i \in 1..m : i \in 1..(m + n)
    OBVIOUS
  <2>q. QED
    BY <1>3, <2>1, <2>2, <2>3, Zenon
<1>5. \A i \in DOMAIN q1, j \in DOMAIN q2 : q1[i] # q2[j]
  <2> SUFFICES ASSUME NEW i \in DOMAIN q1, NEW j \in DOMAIN q2, q1[i] = q2[j] PROVE FALSE
    OBVIOUS
  <2>1. q1[i] \in Steps /\ q1[i][2] \in Daemons /\ q1[i][1] # "filter"
    BY DEF Whole, NoFilter, Steps
  <2>2. About(q1, q1[i][2]) /\ About(q2, q1[i][2])
    BY <2>1 DEF About
  <2>q. QED
    BY <2>1, <2>2 DEF Whole
<1>6. Once(q)
  <2> SUFFICES ASSUME NEW i \in DOMAIN q, NEW j \in DOMAIN q, q[i] = q[j] PROVE i = j
    BY DEF Once
  <2>1. CASE i \in DOMAIN q1 /\ j \in DOMAIN q1
    BY <2>1, <1>4 DEF Whole, Once
  <2>2. CASE i \notin DOMAIN q1 /\ j \notin DOMAIN q1
    <3>1. i - m \in DOMAIN q2 /\ j - m \in DOMAIN q2 /\ q2[i - m] = q2[j - m]
      BY <2>2, <1>4
    <3>2. i - m = j - m
      BY <3>1 DEF Whole, Once
    <3>q. QED
      BY <3>2, <1>3
  <2>3. CASE (i \in DOMAIN q1 /\ j \notin DOMAIN q1) \/ (i \notin DOMAIN q1 /\ j \in DOMAIN q1)
    BY <2>3, <1>4, <1>5
  <2>q. QED
    BY <2>1, <2>2, <2>3
<1>7. ASSUME NEW x \in StepNames, NEW y \in StepNames, NEW d \in Daemons, Link(c, b, x, y, d),
             NEW i \in DOMAIN q
      PROVE  /\ q[i] = <<x, d>> => i + 1 \in DOMAIN q /\ q[i + 1] = <<y, d>>
             /\ q[i] = <<y, d>> => i - 1 \in DOMAIN q /\ q[i - 1] = <<x, d>>
  <2>1. /\ \A j \in DOMAIN q1 : q1[j] = <<x, d>> => j + 1 \in DOMAIN q1 /\ q1[j + 1] = <<y, d>>
        /\ \A j \in DOMAIN q2 : q2[j] = <<x, d>> => j + 1 \in DOMAIN q2 /\ q2[j + 1] = <<y, d>>
    BY <1>7 DEF Whole, Followed
  <2>2. /\ \A j \in DOMAIN q1 : q1[j] = <<y, d>> => j - 1 \in DOMAIN q1 /\ q1[j - 1] = <<x, d>>
        /\ \A j \in DOMAIN q2 : q2[j] = <<y, d>> => j - 1 \in DOMAIN q2 /\ q2[j - 1] = <<x, d>>
    BY <1>7 DEF Whole
  <2>3. CASE i \in DOMAIN q1
    BY <2>1, <2>2, <2>3, <1>4
  <2>4. CASE i \notin DOMAIN q1
    <3>1. PICK j \in DOMAIN q2 : j = i - m /\ i = j + m
      BY <2>4, <1>3
    <3>2. j + 1 + m = i + 1 /\ j - 1 + m = i - 1 /\ q[i] = q2[j]
      BY <3>1, <1>3
    <3>3. q2[j] = <<x, d>> => (j + 1) + m \in DOMAIN q /\ q[(j + 1) + m] = <<y, d>>
      BY <2>1, <1>4
    <3>4. q2[j] = <<y, d>> => (j - 1) + m \in DOMAIN q /\ q[(j - 1) + m] = <<x, d>>
      BY <2>2, <1>4
    <3>q. QED
      BY <3>2, <3>3, <3>4
  <2>q. QED
    BY <2>3, <2>4
<1>8. \A i \in DOMAIN q : q[i][1] \in Names(c, q[i][2])
  BY <1>4 DEF Whole
<1>9. ASSUME NEW d \in Daemons
      PROVE  IF d \in d1 \cup d2 /\ c[d] # Gone THEN Has(q, First(d), d) ELSE ~About(q, d)
  <2>1. CASE d \in d1 \cup d2 /\ c[d] # Gone
    <3>1. Has(q1, First(d), d) \/ Has(q2, First(d), d)
      BY <2>1 DEF Whole
    <3>q. QED
      BY <2>1, <3>1, <1>4 DEF Has
  <2>2. CASE ~(d \in d1 \cup d2 /\ c[d] # Gone)
    <3>1. ~About(q1, d) /\ ~About(q2, d)
      BY <2>2 DEF Whole
    <3>q. QED
      BY <2>2, <3>1, <1>4 DEF About
  <2>q. QED
    BY <2>1, <2>2
<1>10. NoFilter(q2) => NoFilter(q)
  BY <1>4 DEF NoFilter
<1>11. Followed(q, c, b)
  BY <1>7 DEF Followed
<1>12. \A x, y \in StepNames, d \in Daemons : Link(c, b, x, y, d) =>
         \A i \in DOMAIN q : q[i] = <<y, d>> => i - 1 \in DOMAIN q /\ q[i - 1] = <<x, d>>
  BY <1>7
<1>13. Whole(q, c, b, d1 \cup d2)
  BY <1>3, <1>6, <1>8, <1>9, <1>11, <1>12, Zenon DEF Whole
<1>q. QED
  BY <1>1, <1>10, <1>13

\* A tuple of steps of one daemon is the whole of a function if each step has its link.
LEMMA ShortWhole ==
  ASSUME NEW c, NEW b, NEW q \in Seq(Steps), NEW d \in Daemons, c[d] # Gone,
         Once(q), Has(q, First(d), d),
         \A i \in DOMAIN q : q[i][2] = d /\ q[i][1] \in Names(c, d),
         \A x, y \in StepNames : Link(c, b, x, y, d) =>
           /\ \A i \in DOMAIN q : q[i] = <<x, d>> => i + 1 \in DOMAIN q /\ q[i + 1] = <<y, d>>
           /\ \A i \in DOMAIN q : q[i] = <<y, d>> => i - 1 \in DOMAIN q /\ q[i - 1] = <<x, d>>
  PROVE  Whole(q, c, b, {d})
<1>1. ASSUME NEW x \in StepNames, NEW y \in StepNames, NEW e \in Daemons, Link(c, b, x, y, e),
             NEW i \in DOMAIN q
      PROVE  /\ q[i] = <<x, e>> => i + 1 \in DOMAIN q /\ q[i + 1] = <<y, e>>
             /\ q[i] = <<y, e>> => i - 1 \in DOMAIN q /\ q[i - 1] = <<x, e>>
  <2>1. CASE e = d
    BY <1>1, <2>1
  <2>2. CASE e # d
    <3>1. q[i] # <<x, e>> /\ q[i] # <<y, e>>
      BY <2>2
    <3>q. QED
      BY <3>1
  <2>q. QED
    BY <2>1, <2>2
<1>2. Followed(q, c, b)
  BY <1>1 DEF Followed
<1>3. \A x, y \in StepNames, e \in Daemons : Link(c, b, x, y, e) =>
        \A i \in DOMAIN q : q[i] = <<y, e>> => i - 1 \in DOMAIN q /\ q[i - 1] = <<x, e>>
  BY <1>1
<1>4. \A i \in DOMAIN q : q[i][1] \in Names(c, q[i][2])
  OBVIOUS
<1>5. ASSUME NEW e \in Daemons
      PROVE  IF e \in {d} /\ c[e] # Gone THEN Has(q, First(e), e) ELSE ~About(q, e)
  BY Zenon DEF About
<1>q. QED
  BY <1>2, <1>3, <1>4, <1>5, Zenon DEF Whole

\* Tuples of steps put together.
LEMMA Joins ==
  /\ \A x, y \in Steps : <<x>> \o <<y>> = <<x, y>>
  /\ \A x, y, z \in Steps : <<x>> \o <<y, z>> = <<x, y, z>>
  /\ \A x, y, z \in Steps : <<x, y>> \o <<z>> = <<x, y, z>>
  /\ \A x, y, z, u \in Steps : <<x>> \o <<y, z, u>> = <<x, y, z, u>>
  /\ \A x, y, z, u, v \in Steps : <<x, y>> \o <<z, u, v>> = <<x, y, z, u, v>>
  /\ \A q \in Seq(Steps) : q \o <<>> = q /\ <<>> \o q = q
<1>1. ASSUME NEW x \in Steps, NEW y \in Steps PROVE <<x>> \o <<y>> = <<x, y>>
  <2>1. PICK s \in Seq(Steps), t \in Seq(Steps) : s = <<x>> \o <<y>> /\ t = <<x, y>>
    <3>1. <<x>> \o <<y>> \in Seq(Steps) /\ <<x, y>> \in Seq(Steps)
      OBVIOUS
    <3>q. QED
      BY <3>1
  <2>2. Len(s) = 2 /\ Len(t) = 2 /\ \A i \in 1..2 : s[i] = t[i]
    BY <2>1
  <2>3. s = t
    BY <2>2, SeqEqual
  <2>q. QED
    BY <2>1, <2>3
<1>2. ASSUME NEW x \in Steps, NEW y \in Steps, NEW z \in Steps PROVE <<x>> \o <<y, z>> = <<x, y, z>>
  <2>1. PICK s \in Seq(Steps), t \in Seq(Steps) : s = <<x>> \o <<y, z>> /\ t = <<x, y, z>>
    <3>1. <<x>> \o <<y, z>> \in Seq(Steps) /\ <<x, y, z>> \in Seq(Steps)
      OBVIOUS
    <3>q. QED
      BY <3>1
  <2>2. Len(s) = 3 /\ Len(t) = 3 /\ \A i \in 1..3 : s[i] = t[i]
    BY <2>1
  <2>3. s = t
    BY <2>2, SeqEqual
  <2>q. QED
    BY <2>1, <2>3
<1>3. ASSUME NEW x \in Steps, NEW y \in Steps, NEW z \in Steps PROVE <<x, y>> \o <<z>> = <<x, y, z>>
  <2>1. PICK s \in Seq(Steps), t \in Seq(Steps) : s = <<x, y>> \o <<z>> /\ t = <<x, y, z>>
    <3>1. <<x, y>> \o <<z>> \in Seq(Steps) /\ <<x, y, z>> \in Seq(Steps)
      OBVIOUS
    <3>q. QED
      BY <3>1
  <2>2. Len(s) = 3 /\ Len(t) = 3 /\ \A i \in 1..3 : s[i] = t[i]
    BY <2>1
  <2>3. s = t
    BY <2>2, SeqEqual
  <2>q. QED
    BY <2>1, <2>3
<1>4. ASSUME NEW x \in Steps, NEW y \in Steps, NEW z \in Steps, NEW u \in Steps PROVE <<x>> \o <<y, z, u>> = <<x, y, z, u>>
  <2>1. PICK s \in Seq(Steps), t \in Seq(Steps) : s = <<x>> \o <<y, z, u>> /\ t = <<x, y, z, u>>
    <3>1. <<x>> \o <<y, z, u>> \in Seq(Steps) /\ <<x, y, z, u>> \in Seq(Steps)
      OBVIOUS
    <3>q. QED
      BY <3>1
  <2>2. Len(s) = 4 /\ Len(t) = 4 /\ \A i \in 1..4 : s[i] = t[i]
    BY <2>1
  <2>3. s = t
    BY <2>2, SeqEqual
  <2>q. QED
    BY <2>1, <2>3
<1>5. ASSUME NEW x \in Steps, NEW y \in Steps, NEW z \in Steps, NEW u \in Steps, NEW v \in Steps PROVE <<x, y>> \o <<z, u, v>> = <<x, y, z, u, v>>
  <2>1. PICK s \in Seq(Steps), t \in Seq(Steps) : s = <<x, y>> \o <<z, u, v>> /\ t = <<x, y, z, u, v>>
    <3>1. <<x, y>> \o <<z, u, v>> \in Seq(Steps) /\ <<x, y, z, u, v>> \in Seq(Steps)
      OBVIOUS
    <3>q. QED
      BY <3>1
  <2>2. Len(s) = 5 /\ Len(t) = 5 /\ \A i \in 1..5 : s[i] = t[i]
    BY <2>1
  <2>3. s = t
    BY <2>2, SeqEqual
  <2>q. QED
    BY <2>1, <2>3
<1>6. \A q \in Seq(Steps) : q \o <<>> = q /\ <<>> \o q = q
  OBVIOUS
<1>q. QED
  BY <1>1, <1>2, <1>3, <1>4, <1>5, <1>6

\* No steps.
LEMMA NoneWhole ==
  ASSUME NEW c, NEW b, NEW ds, \A d \in Daemons \cap ds : c[d] = Gone
  PROVE  Whole(<<>>, c, b, ds) /\ NoFilter(<<>>)
<1>1. <<>> \in Seq(Steps) /\ DOMAIN <<>> = {}
  OBVIOUS
<1>2. Once(<<>>) /\ Followed(<<>>, c, b) /\ NoFilter(<<>>) /\ \A d : ~About(<<>>, d)
  BY <1>1, Zenon DEF Once, Followed, NoFilter, About
<1>q. QED
  BY <1>1, <1>2, Zenon DEF Whole

LEMMA DhcpdWhole ==
  ASSUME NEW c, NEW b, NEW d \in Dhcpds
  PROVE  Whole(DhcpdTable(c, d), c, b, {d}) /\ NoFilter(DhcpdTable(c, d))
<1>d. d \in Daemons /\ d \notin {"dnsmasq", "dhcrelay", "dyndns", "bgpd", "relayd"}
  BY Kinds
<1>1. CASE c[d] = Gone
  <2>1. DhcpdTable(c, d) = <<>>
    BY <1>1 DEF DhcpdTable, If
  <2>q. QED
    BY <1>1, <2>1, NoneWhole
<1>2. CASE c[d] # Gone /\ Enabled(c, d)
  <2>1. PICK q : q = <<<<"pkill", d>>, <<"write", d>>, <<"start", d>>>>
    OBVIOUS
  <2>2. DhcpdTable(c, d) = q
    <3>1. <<"pkill", d>> \in Steps /\ <<"write", d>> \in Steps /\ <<"start", d>> \in Steps
      BY <1>d DEF Steps, StepNames
    <3>2. <<<<"pkill", d>>>> \o <<<<"write", d>>, <<"start", d>>>> = q
      BY <2>1, <3>1, Joins
    <3>q. QED
      BY <1>2, <3>2 DEF DhcpdTable, If
  <2>3. /\ q \in Seq(Steps) /\ DOMAIN q = 1..3
        /\ q[1] = <<"pkill", d>> /\ q[2] = <<"write", d>> /\ q[3] = <<"start", d>>
    BY <1>d, <2>1 DEF Steps, StepNames
  <2>4. Once(q) /\ NoFilter(q)
    BY <2>3 DEF Once, NoFilter
  <2>5. Has(q, First(d), d) /\ \A i \in DOMAIN q : q[i][2] = d /\ q[i][1] \in Names(c, d)
    BY <1>2, <2>3 DEF Has, First, Names, NamesIf
  <2>6. ASSUME NEW x \in StepNames, NEW y \in StepNames, Link(c, b, x, y, d)
        PROVE  /\ \A i \in DOMAIN q : q[i] = <<x, d>> => i + 1 \in DOMAIN q /\ q[i + 1] = <<y, d>>
               /\ \A i \in DOMAIN q : q[i] = <<y, d>> => i - 1 \in DOMAIN q /\ q[i - 1] = <<x, d>>
    <3>1. (x = "pkill" /\ y = "write") \/ (x = "write" /\ y = "start")
      BY <1>d, <2>6 DEF Link
    <3>q. QED
      BY <2>3, <3>1
  <2>7. Whole(q, c, b, {d})
    BY <1>d, <1>2, <2>3, <2>4, <2>5, <2>6, ShortWhole
  <2>q. QED
    BY <2>2, <2>4, <2>7
<1>3. CASE c[d] # Gone /\ ~Enabled(c, d)
  <2>1. PICK q : q = <<<<"pkill", d>>>>
    OBVIOUS
  <2>2. DhcpdTable(c, d) = q
    BY <1>3, <2>1 DEF DhcpdTable, If
  <2>3. q \in Seq(Steps) /\ DOMAIN q = 1..1 /\ q[1] = <<"pkill", d>>
    BY <1>d, <2>1 DEF Steps, StepNames
  <2>4. Once(q) /\ NoFilter(q)
    BY <2>3 DEF Once, NoFilter
  <2>5. Has(q, First(d), d) /\ \A i \in DOMAIN q : q[i][2] = d /\ q[i][1] \in Names(c, d)
    BY <1>3, <2>3 DEF Has, First, Names, NamesIf
  <2>6. \A x, y \in StepNames : ~Link(c, b, x, y, d)
    BY <1>d, <1>3 DEF Link
  <2>7. Whole(q, c, b, {d})
    BY <1>d, <1>3, <2>3, <2>4, <2>5, <2>6, ShortWhole
  <2>q. QED
    BY <2>2, <2>4, <2>7
<1>q. QED
  BY <1>1, <1>2, <1>3

\* Induction, for a set of numbers.
LEMMA NatSet ==
  ASSUME NEW S, 0 \in S, \A n \in Nat : n \in S => n + 1 \in S
  PROVE  Nat \subseteq S
<1> SUFFICES ASSUME NEW m \in Nat, m \notin S PROVE FALSE
  OBVIOUS
<1> DEFINE T == {n \in Nat : n \notin S}
<1>1. PICK k \in T : \A n \in T : <<n, k>> \notin OpToRel(<, Nat)
  BY NatLessThanWellFounded, WFMin
<1>2. \A n \in Nat : n < k => n \in S
  BY <1>1 DEF OpToRel
<1>k. k \in Nat /\ k \notin S
  BY <1>1, Zenon
<1>3. k # 0 /\ k - 1 \in Nat /\ k - 1 < k
  BY <1>k
<1>4. k - 1 \in S
  BY <1>2, <1>3
<1>5. (k - 1) + 1 = k
  BY <1>k
<1>q. QED
  BY <1>k, <1>3, <1>4, <1>5

\* The steps for the first tables.
UpTo(i) == {Default} \cup {Tables[j] : j \in 1..i}
IsTables(f, m, c) == f = [i \in 0..m |-> IF i = 0 THEN DhcpdTable(c, Default)
                                         ELSE f[i - 1] \o DhcpdTable(c, Tables[i])]

LEMMA TablesAreThere ==
  ASSUME NEW c, NEW m \in Nat
  PROVE  \E f : IsTables(f, m, c)
<1> DEFINE S == {n \in Nat : \E f : IsTables(f, n, c)}
<1>1. 0 \in S
  <2> DEFINE f == [i \in 0..0 |-> DhcpdTable(c, Default)]
  <2>1. f = [i \in 0..0 |-> IF i = 0 THEN DhcpdTable(c, Default) ELSE f[i - 1] \o DhcpdTable(c, Tables[i])]
    OBVIOUS
  <2>q. QED
    BY <2>1 DEF IsTables
<1>2. ASSUME NEW n \in Nat, n \in S PROVE n + 1 \in S
  <2>1. PICK f : IsTables(f, n, c)
    BY <1>2
  <2> DEFINE g == [i \in 0..(n + 1) |-> IF i = n + 1 THEN f[n] \o DhcpdTable(c, Tables[n + 1]) ELSE f[i]]
             h == [i \in 0..(n + 1) |-> IF i = 0 THEN DhcpdTable(c, Default)
                                        ELSE g[i - 1] \o DhcpdTable(c, Tables[i])]
  <2>2. ASSUME NEW i \in 0..(n + 1) PROVE g[i] = h[i]
    <3>1. CASE i = n + 1
      <4>1. i # 0 /\ i - 1 = n /\ n # n + 1 /\ n \in 0..(n + 1)
        BY <3>1
      <4>q. QED
        BY <3>1, <4>1
    <3>2. CASE i # n + 1
      <4>1. i \in 0..n
        BY <3>2
      <4>2. f[i] = IF i = 0 THEN DhcpdTable(c, Default) ELSE f[i - 1] \o DhcpdTable(c, Tables[i])
        BY <2>1, <4>1 DEF IsTables
      <4>3. i # 0 => i - 1 \in 0..(n + 1) /\ i - 1 # n + 1
        BY <4>1
      <4>q. QED
        BY <3>2, <4>2, <4>3
    <3>q. QED
      BY <3>1, <3>2
  <2>3. g = [i \in 0..(n + 1) |-> g[i]] /\ h = [i \in 0..(n + 1) |-> h[i]]
    OBVIOUS
  <2>4. IsTables(g, n + 1, c)
    <3> HIDE DEF g
    <3>1. g = h
      <4> HIDE DEF h
      <4>q. QED
        BY <2>2, <2>3
    <3>q. QED
      BY <3>1 DEF IsTables
  <2> HIDE DEF g
  <2>q. QED
    BY <2>4
<1>q. QED
  BY <1>1, <1>2, NatSet

LEMMA TableList ==
  /\ Len(Tables) \in Nat /\ DOMAIN Tables = 1..Len(Tables)
  /\ UpTo(Len(Tables)) = Dhcpds
  /\ \A i \in 1..Len(Tables) : /\ Tables[i] \in Dhcpds /\ UpTo(i) = UpTo(i - 1) \cup {Tables[i]}
                               /\ Tables[i] \notin UpTo(i - 1) /\ UpTo(i - 1) \subseteq Dhcpds
  /\ UpTo(0) = {Default}
<1>1. Len(Tables) \in Nat /\ DOMAIN Tables = 1..Len(Tables)
  BY ServicesAssumption
<1>2. PICK n \in Nat : n = Len(Tables)
  BY <1>1
<1>3. UpTo(n) = Dhcpds
  BY <1>1, <1>2 DEF UpTo, Dhcpds, TableDhcpds
<1>4. UpTo(0) = {Default}
  BY DEF UpTo
<1>5. ASSUME NEW i \in 1..n
      PROVE  /\ Tables[i] \in Dhcpds /\ UpTo(i) = UpTo(i - 1) \cup {Tables[i]}
             /\ Tables[i] \notin UpTo(i - 1) /\ UpTo(i - 1) \subseteq Dhcpds
  <2>1. i \in DOMAIN Tables /\ Tables[i] \in TableDhcpds
    BY <1>1, <1>2 DEF TableDhcpds
  <2>2. 1..i = (1..(i - 1)) \cup {i} /\ i \notin 1..(i - 1) /\ 1..(i - 1) \subseteq 1..n
    BY <1>2
  <2>3. UpTo(i) = UpTo(i - 1) \cup {Tables[i]}
    BY <2>2, Zenon DEF UpTo
  <2>4. Tables[i] \notin UpTo(i - 1)
    <3> SUFFICES ASSUME NEW j \in 1..(i - 1), Tables[i] = Tables[j] PROVE FALSE
      BY <2>1, ServicesAssumption, Zenon DEF UpTo
    <3>1. j \in DOMAIN Tables
      BY <1>1, <1>2, <2>2
    <3>2. i = j
      BY <2>1, <3>1, ServicesAssumption
    <3>q. QED
      BY <2>2, <3>2
  <2>5. UpTo(i - 1) \subseteq Dhcpds
    BY <1>1, <1>2, <2>2, Zenon DEF UpTo, Dhcpds, TableDhcpds
  <2>q. QED
    BY <2>1, <2>3, <2>4, <2>5 DEF Dhcpds
<1>q. QED
  BY <1>1, <1>2, <1>3, <1>4, <1>5

LEMMA TablesWhole ==
  ASSUME NEW c, NEW b
  PROVE  Whole(DhcpdTables(c), c, b, Dhcpds) /\ NoFilter(DhcpdTables(c))
<1> DEFINE upTo == CHOOSE f : IsTables(f, Len(Tables), c)
           n == Len(Tables)
<1>1. n \in Nat
  BY TableList
<1>2. IsTables(upTo, n, c)
  BY <1>1, TablesAreThere
<1>3. DhcpdTables(c) = upTo[n]
  BY DEF DhcpdTables, IsTables
<1> HIDE DEF upTo
<1> DEFINE S == {k \in Nat : k <= n => Whole(upTo[k], c, b, UpTo(k)) /\ NoFilter(upTo[k])}
<1>4. 0 \in S
  <2>1. upTo[0] = DhcpdTable(c, Default)
    BY <1>1, <1>2 DEF IsTables
  <2>q. QED
    BY <2>1, TableList, Kinds, DhcpdWhole
<1>5. ASSUME NEW k \in Nat, k \in S PROVE k + 1 \in S
  <2> SUFFICES ASSUME k + 1 <= n PROVE Whole(upTo[k + 1], c, b, UpTo(k + 1)) /\ NoFilter(upTo[k + 1])
    OBVIOUS
  <2>1. PICK m \in 1..n : m = k + 1 /\ m - 1 = k /\ m # 0 /\ m \in 0..n
    BY <1>1
  <2>2. upTo[m] = upTo[k] \o DhcpdTable(c, Tables[m])
    BY <1>2, <2>1 DEF IsTables
  <2>3. Whole(upTo[k], c, b, UpTo(k)) /\ NoFilter(upTo[k])
    BY <1>1, <1>5
  <2>4. /\ Tables[m] \in Dhcpds /\ UpTo(m) = UpTo(k) \cup {Tables[m]} /\ UpTo(k) \subseteq Dhcpds
        /\ Tables[m] \notin UpTo(k)
    BY <2>1, TableList
  <2>5. Whole(DhcpdTable(c, Tables[m]), c, b, {Tables[m]}) /\ NoFilter(DhcpdTable(c, Tables[m]))
    BY <2>4, DhcpdWhole
  <2>6. UpTo(k) \cap {Tables[m]} = {} /\ UpTo(k) \cup {Tables[m]} \subseteq Daemons
    BY <2>4, Kinds
  <2>7. Whole(upTo[m], c, b, UpTo(m)) /\ NoFilter(upTo[m])
    <3>1. PICK q1, q2, d1, d2 : /\ q1 = upTo[k] /\ q2 = DhcpdTable(c, Tables[m])
                                /\ d1 = UpTo(k) /\ d2 = {Tables[m]}
      OBVIOUS
    <3>2. /\ d1 \cap d2 = {} /\ d1 \cup d2 \subseteq Daemons
          /\ Whole(q1, c, b, d1) /\ Whole(q2, c, b, d2) /\ NoFilter(q1) /\ NoFilter(q2)
      BY <3>1, <2>3, <2>5, <2>6
    <3>3. Whole(q1 \o q2, c, b, d1 \cup d2) /\ NoFilter(q1 \o q2)
      BY <3>2, ConcatWhole
    <3>4. q1 \o q2 = upTo[m] /\ d1 \cup d2 = UpTo(m)
      BY <3>1, <2>2, <2>4
    <3>q. QED
      BY <3>3, <3>4, Zenon
  <2>q. QED
    BY <2>1, <2>7
<1>6. n \in S
  BY <1>1, <1>4, <1>5, NatSet
<1>q. QED
  BY <1>1, <1>3, <1>6, TableList

\* What a configuration says of the daemons.
LEMMA NamedSetting ==
  /\ \A c \in Config, d \in Daemons : c[d] \in Values \cup {Off, Gone}
  /\ \A c \in Config, d \in {"dnsmasq", "dhcrelay", "dyndns", "bgpd", "relayd"} :
       d \in Daemons /\ c[d] # Gone
<1>1. \A c \in Config, d \in Daemons : d \notin TableDhcpds => c[d] # Gone
  BY DEF Config
<1>2. \A d \in {"dnsmasq", "dhcrelay", "dyndns", "bgpd", "relayd"} : d \in Daemons /\ d \notin TableDhcpds
  BY Kinds, SMT DEF Dhcpds
<1>3. \A c \in Config, d \in {"dnsmasq", "dhcrelay", "dyndns", "bgpd", "relayd"} :
        d \in Daemons /\ c[d] # Gone
  BY <1>1, <1>2, Zenon
<1>4. \A c \in Config, d \in Daemons : c[d] \in Values \cup {Off, Gone}
  BY DEF Config
<1>q. QED
  BY <1>3, <1>4

\* services_dnsmasq_configure() but for the dhcpds.
DnsmasqAlone(c, b) == <<<<"pkill", "dnsmasq">>>>
                      \o If(Enabled(c, "dnsmasq"),
                            If(~b, <<<<"sleep", "dnsmasq">>>>) \o <<<<"start", "dnsmasq">>>>)

LEMMA DnsmasqWhole ==
  ASSUME NEW c \in Config, NEW b \in BOOLEAN
  PROVE  Whole(DnsmasqAlone(c, b), c, b, {"dnsmasq"}) /\ NoFilter(DnsmasqAlone(c, b))
<1>g. "dnsmasq" \in Daemons /\ c["dnsmasq"] # Gone
  BY NamedSetting
<1>1. CASE ~Enabled(c, "dnsmasq")
  <2>1. PICK q : q = <<<<"pkill", "dnsmasq">>>>
    OBVIOUS
  <2>2. <<"pkill", "dnsmasq">> \in Steps
    BY Kinds DEF Steps, StepNames
  <2>3. DnsmasqAlone(c, b) = q
    <3>1. <<<<"pkill", "dnsmasq">>>> \o <<>> = q
      BY <2>1, <2>2, Joins
    <3>q. QED
      BY <1>1, <2>1, <3>1 DEF DnsmasqAlone, If
  <2>4. /\ q \in Seq(Steps) /\ DOMAIN q = 1..1
        /\ q[1] = <<"pkill", "dnsmasq">>
    BY <2>1, <2>2
  <2>5. Once(q) /\ NoFilter(q)
    BY <2>4 DEF Once, NoFilter
  <2>6. Has(q, First("dnsmasq"), "dnsmasq") /\ \A i \in DOMAIN q : q[i][2] = "dnsmasq" /\ q[i][1] \in Names(c, "dnsmasq")
    BY <1>1, <2>4, Kinds DEF Has, First, Names, NamesIf, ByPid
  <2>7. ASSUME NEW x \in StepNames, NEW y \in StepNames, Link(c, b, x, y, "dnsmasq")
        PROVE  /\ \A i \in DOMAIN q : q[i] = <<x, "dnsmasq">> => i + 1 \in DOMAIN q /\ q[i + 1] = <<y, "dnsmasq">>
               /\ \A i \in DOMAIN q : q[i] = <<y, "dnsmasq">> => i - 1 \in DOMAIN q /\ q[i - 1] = <<x, "dnsmasq">>
    <3>1. <<x, y>> \in {}
      BY <1>1, <2>7, Kinds DEF Link
    <3>q. QED
      BY <2>4, <3>1
  <2>8. Whole(q, c, b, {"dnsmasq"})
    BY <1>g, <2>4, <2>5, <2>6, <2>7, ShortWhole
  <2>q. QED
    BY <2>3, <2>5, <2>8
<1>2. CASE Enabled(c, "dnsmasq") /\ b
  <2>1. PICK q : q = <<<<"pkill", "dnsmasq">>, <<"start", "dnsmasq">>>>
    OBVIOUS
  <2>2. <<"pkill", "dnsmasq">> \in Steps /\ <<"start", "dnsmasq">> \in Steps
    BY Kinds DEF Steps, StepNames
  <2>3. DnsmasqAlone(c, b) = q
    <3>1. <<>> \o <<<<"start", "dnsmasq">>>> = <<<<"start", "dnsmasq">>>>
      BY <2>1, <2>2, Joins
    <3>2. <<<<"pkill", "dnsmasq">>>> \o <<<<"start", "dnsmasq">>>> = q
      BY <2>1, <2>2, Joins
    <3>q. QED
      BY <1>2, <2>1, <3>1, <3>2 DEF DnsmasqAlone, If
  <2>4. /\ q \in Seq(Steps) /\ DOMAIN q = 1..2
        /\ q[1] = <<"pkill", "dnsmasq">> /\ q[2] = <<"start", "dnsmasq">>
    BY <2>1, <2>2
  <2>5. Once(q) /\ NoFilter(q)
    BY <2>4 DEF Once, NoFilter
  <2>6. Has(q, First("dnsmasq"), "dnsmasq") /\ \A i \in DOMAIN q : q[i][2] = "dnsmasq" /\ q[i][1] \in Names(c, "dnsmasq")
    BY <1>2, <2>4, Kinds DEF Has, First, Names, NamesIf, ByPid
  <2>7. ASSUME NEW x \in StepNames, NEW y \in StepNames, Link(c, b, x, y, "dnsmasq")
        PROVE  /\ \A i \in DOMAIN q : q[i] = <<x, "dnsmasq">> => i + 1 \in DOMAIN q /\ q[i + 1] = <<y, "dnsmasq">>
               /\ \A i \in DOMAIN q : q[i] = <<y, "dnsmasq">> => i - 1 \in DOMAIN q /\ q[i - 1] = <<x, "dnsmasq">>
    <3>1. <<x, y>> \in {<<"pkill", "start">>}
      BY <1>2, <2>7, Kinds DEF Link
    <3>q. QED
      BY <2>4, <3>1
  <2>8. Whole(q, c, b, {"dnsmasq"})
    BY <1>g, <2>4, <2>5, <2>6, <2>7, ShortWhole
  <2>q. QED
    BY <2>3, <2>5, <2>8
<1>3. CASE Enabled(c, "dnsmasq") /\ ~b
  <2>1. PICK q : q = <<<<"pkill", "dnsmasq">>, <<"sleep", "dnsmasq">>, <<"start", "dnsmasq">>>>
    OBVIOUS
  <2>2. <<"pkill", "dnsmasq">> \in Steps /\ <<"sleep", "dnsmasq">> \in Steps /\ <<"start", "dnsmasq">> \in Steps
    BY Kinds DEF Steps, StepNames
  <2>3. DnsmasqAlone(c, b) = q
    <3>1. <<<<"sleep", "dnsmasq">>>> \o <<<<"start", "dnsmasq">>>> = <<<<"sleep", "dnsmasq">>, <<"start", "dnsmasq">>>>
      BY <2>1, <2>2, Joins
    <3>2. <<<<"pkill", "dnsmasq">>>> \o <<<<"sleep", "dnsmasq">>, <<"start", "dnsmasq">>>> = q
      BY <2>1, <2>2, Joins
    <3>q. QED
      BY <1>3, <2>1, <3>1, <3>2 DEF DnsmasqAlone, If
  <2>4. /\ q \in Seq(Steps) /\ DOMAIN q = 1..3
        /\ q[1] = <<"pkill", "dnsmasq">> /\ q[2] = <<"sleep", "dnsmasq">> /\ q[3] = <<"start", "dnsmasq">>
    BY <2>1, <2>2
  <2>5. Once(q) /\ NoFilter(q)
    BY <2>4 DEF Once, NoFilter
  <2>6. Has(q, First("dnsmasq"), "dnsmasq") /\ \A i \in DOMAIN q : q[i][2] = "dnsmasq" /\ q[i][1] \in Names(c, "dnsmasq")
    BY <1>3, <2>4, Kinds DEF Has, First, Names, NamesIf, ByPid
  <2>7. ASSUME NEW x \in StepNames, NEW y \in StepNames, Link(c, b, x, y, "dnsmasq")
        PROVE  /\ \A i \in DOMAIN q : q[i] = <<x, "dnsmasq">> => i + 1 \in DOMAIN q /\ q[i + 1] = <<y, "dnsmasq">>
               /\ \A i \in DOMAIN q : q[i] = <<y, "dnsmasq">> => i - 1 \in DOMAIN q /\ q[i - 1] = <<x, "dnsmasq">>
    <3>1. <<x, y>> \in {<<"pkill", "sleep">>, <<"sleep", "start">>}
      BY <1>3, <2>7, Kinds DEF Link
    <3>q. QED
      BY <2>4, <3>1
  <2>8. Whole(q, c, b, {"dnsmasq"})
    BY <1>g, <2>4, <2>5, <2>6, <2>7, ShortWhole
  <2>q. QED
    BY <2>3, <2>5, <2>8
<1>q. QED
  BY <1>1, <1>2, <1>3

LEMMA DhcrelayWhole ==
  ASSUME NEW c \in Config, NEW b \in BOOLEAN
  PROVE  Whole(Dhcrelay(c, b), c, b, {"dhcrelay"}) /\ (b => NoFilter(Dhcrelay(c, b)))
<1>g. "dhcrelay" \in Daemons /\ c["dhcrelay"] # Gone
  BY NamedSetting
<1>1. CASE ~Enabled(c, "dhcrelay")
  <2>1. PICK q : q = <<<<"pidkill", "dhcrelay">>, <<"unlink", "dhcrelay">>>>
    OBVIOUS
  <2>2. <<"pidkill", "dhcrelay">> \in Steps /\ <<"unlink", "dhcrelay">> \in Steps
    BY Kinds DEF Steps, StepNames
  <2>3. Dhcrelay(c, b) = q
    <3>1. <<<<"pidkill", "dhcrelay">>, <<"unlink", "dhcrelay">>>> \o <<>> = q
      BY <2>1, <2>2, Joins
    <3>q. QED
      BY <1>1, <2>1, <3>1 DEF Dhcrelay, If
  <2>4. /\ q \in Seq(Steps) /\ DOMAIN q = 1..2
        /\ q[1] = <<"pidkill", "dhcrelay">> /\ q[2] = <<"unlink", "dhcrelay">>
    BY <2>1, <2>2
  <2>5. Once(q) /\ NoFilter(q)
    BY <2>4 DEF Once, NoFilter
  <2>6. Has(q, First("dhcrelay"), "dhcrelay") /\ \A i \in DOMAIN q : q[i][2] = "dhcrelay" /\ q[i][1] \in Names(c, "dhcrelay")
    BY <1>1, <2>4, Kinds DEF Has, First, Names, NamesIf, ByPid
  <2>7. ASSUME NEW x \in StepNames, NEW y \in StepNames, Link(c, b, x, y, "dhcrelay")
        PROVE  /\ \A i \in DOMAIN q : q[i] = <<x, "dhcrelay">> => i + 1 \in DOMAIN q /\ q[i + 1] = <<y, "dhcrelay">>
               /\ \A i \in DOMAIN q : q[i] = <<y, "dhcrelay">> => i - 1 \in DOMAIN q /\ q[i - 1] = <<x, "dhcrelay">>
    <3>1. <<x, y>> \in {<<"pidkill", "unlink">>}
      BY <1>1, <2>7, Kinds DEF Link
    <3>q. QED
      BY <2>4, <3>1
  <2>8. Whole(q, c, b, {"dhcrelay"})
    BY <1>g, <2>4, <2>5, <2>6, <2>7, ShortWhole
  <2>q. QED
    BY <2>3, <2>5, <2>8
<1>2. CASE Enabled(c, "dhcrelay") /\ b
  <2>1. PICK q : q = <<<<"pidkill", "dhcrelay">>, <<"unlink", "dhcrelay">>, <<"start", "dhcrelay">>>>
    OBVIOUS
  <2>2. <<"pidkill", "dhcrelay">> \in Steps /\ <<"unlink", "dhcrelay">> \in Steps /\ <<"start", "dhcrelay">> \in Steps
    BY Kinds DEF Steps, StepNames
  <2>3. Dhcrelay(c, b) = q
    <3>1. <<>> \o <<<<"start", "dhcrelay">>>> = <<<<"start", "dhcrelay">>>>
      BY <2>1, <2>2, Joins
    <3>2. <<<<"start", "dhcrelay">>>> \o <<>> = <<<<"start", "dhcrelay">>>>
      BY <2>1, <2>2, Joins
    <3>3. <<<<"pidkill", "dhcrelay">>, <<"unlink", "dhcrelay">>>> \o <<<<"start", "dhcrelay">>>> = q
      BY <2>1, <2>2, Joins
    <3>q. QED
      BY <1>2, <2>1, <3>1, <3>2, <3>3 DEF Dhcrelay, If
  <2>4. /\ q \in Seq(Steps) /\ DOMAIN q = 1..3
        /\ q[1] = <<"pidkill", "dhcrelay">> /\ q[2] = <<"unlink", "dhcrelay">> /\ q[3] = <<"start", "dhcrelay">>
    BY <2>1, <2>2
  <2>5. Once(q) /\ NoFilter(q)
    BY <2>4 DEF Once, NoFilter
  <2>6. Has(q, First("dhcrelay"), "dhcrelay") /\ \A i \in DOMAIN q : q[i][2] = "dhcrelay" /\ q[i][1] \in Names(c, "dhcrelay")
    BY <1>2, <2>4, Kinds DEF Has, First, Names, NamesIf, ByPid
  <2>7. ASSUME NEW x \in StepNames, NEW y \in StepNames, Link(c, b, x, y, "dhcrelay")
        PROVE  /\ \A i \in DOMAIN q : q[i] = <<x, "dhcrelay">> => i + 1 \in DOMAIN q /\ q[i + 1] = <<y, "dhcrelay">>
               /\ \A i \in DOMAIN q : q[i] = <<y, "dhcrelay">> => i - 1 \in DOMAIN q /\ q[i - 1] = <<x, "dhcrelay">>
    <3>1. <<x, y>> \in {<<"pidkill", "unlink">>, <<"unlink", "start">>}
      BY <1>2, <2>7, Kinds DEF Link
    <3>q. QED
      BY <2>4, <3>1
  <2>8. Whole(q, c, b, {"dhcrelay"})
    BY <1>g, <2>4, <2>5, <2>6, <2>7, ShortWhole
  <2>q. QED
    BY <2>3, <2>5, <2>8
<1>3. CASE Enabled(c, "dhcrelay") /\ ~b
  <2>1. PICK q : q = <<<<"pidkill", "dhcrelay">>, <<"unlink", "dhcrelay">>, <<"sleep", "dhcrelay">>, <<"start", "dhcrelay">>, <<"filter", "dhcrelay">>>>
    OBVIOUS
  <2>2. <<"pidkill", "dhcrelay">> \in Steps /\ <<"unlink", "dhcrelay">> \in Steps /\ <<"sleep", "dhcrelay">> \in Steps /\ <<"start", "dhcrelay">> \in Steps /\ <<"filter", "dhcrelay">> \in Steps
    BY Kinds DEF Steps, StepNames
  <2>3. Dhcrelay(c, b) = q
    <3>1. <<<<"sleep", "dhcrelay">>>> \o <<<<"start", "dhcrelay">>>> = <<<<"sleep", "dhcrelay">>, <<"start", "dhcrelay">>>>
      BY <2>1, <2>2, Joins
    <3>2. <<<<"sleep", "dhcrelay">>, <<"start", "dhcrelay">>>> \o <<<<"filter", "dhcrelay">>>> = <<<<"sleep", "dhcrelay">>, <<"start", "dhcrelay">>, <<"filter", "dhcrelay">>>>
      BY <2>1, <2>2, Joins
    <3>3. <<<<"pidkill", "dhcrelay">>, <<"unlink", "dhcrelay">>>> \o <<<<"sleep", "dhcrelay">>, <<"start", "dhcrelay">>, <<"filter", "dhcrelay">>>> = q
      BY <2>1, <2>2, Joins
    <3>q. QED
      BY <1>3, <2>1, <3>1, <3>2, <3>3 DEF Dhcrelay, If
  <2>4. /\ q \in Seq(Steps) /\ DOMAIN q = 1..5
        /\ q[1] = <<"pidkill", "dhcrelay">> /\ q[2] = <<"unlink", "dhcrelay">> /\ q[3] = <<"sleep", "dhcrelay">> /\ q[4] = <<"start", "dhcrelay">> /\ q[5] = <<"filter", "dhcrelay">>
    BY <2>1, <2>2
  <2>5. Once(q)
    BY <2>4 DEF Once, NoFilter
  <2>6. Has(q, First("dhcrelay"), "dhcrelay") /\ \A i \in DOMAIN q : q[i][2] = "dhcrelay" /\ q[i][1] \in Names(c, "dhcrelay")
    BY <1>3, <2>4, Kinds DEF Has, First, Names, NamesIf, ByPid
  <2>7. ASSUME NEW x \in StepNames, NEW y \in StepNames, Link(c, b, x, y, "dhcrelay")
        PROVE  /\ \A i \in DOMAIN q : q[i] = <<x, "dhcrelay">> => i + 1 \in DOMAIN q /\ q[i + 1] = <<y, "dhcrelay">>
               /\ \A i \in DOMAIN q : q[i] = <<y, "dhcrelay">> => i - 1 \in DOMAIN q /\ q[i - 1] = <<x, "dhcrelay">>
    <3>1. <<x, y>> \in {<<"pidkill", "unlink">>, <<"unlink", "sleep">>, <<"sleep", "start">>}
      BY <1>3, <2>7, Kinds DEF Link
    <3>q. QED
      BY <2>4, <3>1
  <2>8. Whole(q, c, b, {"dhcrelay"})
    BY <1>g, <2>4, <2>5, <2>6, <2>7, ShortWhole
  <2>q. QED
    BY <1>3, <2>3, <2>5, <2>8
<1>q. QED
  BY <1>1, <1>2, <1>3

LEMMA DyndnsWhole ==
  ASSUME NEW c \in Config, NEW b \in BOOLEAN
  PROVE  Whole(Dyndns(c, b), c, b, {"dyndns"}) /\ NoFilter(Dyndns(c, b))
<1>g. "dyndns" \in Daemons /\ c["dyndns"] # Gone
  BY NamedSetting
<1>1. CASE ~Enabled(c, "dyndns")
  <2>1. PICK q : q = <<<<"pidkill", "dyndns">>>>
    OBVIOUS
  <2>2. <<"pidkill", "dyndns">> \in Steps
    BY Kinds DEF Steps, StepNames
  <2>3. Dyndns(c, b) = q
    <3>1. <<<<"pidkill", "dyndns">>>> \o <<>> = q
      BY <2>1, <2>2, Joins
    <3>q. QED
      BY <1>1, <2>1, <3>1 DEF Dyndns, If
  <2>4. /\ q \in Seq(Steps) /\ DOMAIN q = 1..1
        /\ q[1] = <<"pidkill", "dyndns">>
    BY <2>1, <2>2
  <2>5. Once(q) /\ NoFilter(q)
    BY <2>4 DEF Once, NoFilter
  <2>6. Has(q, First("dyndns"), "dyndns") /\ \A i \in DOMAIN q : q[i][2] = "dyndns" /\ q[i][1] \in Names(c, "dyndns")
    BY <1>1, <2>4, Kinds DEF Has, First, Names, NamesIf, ByPid
  <2>7. ASSUME NEW x \in StepNames, NEW y \in StepNames, Link(c, b, x, y, "dyndns")
        PROVE  /\ \A i \in DOMAIN q : q[i] = <<x, "dyndns">> => i + 1 \in DOMAIN q /\ q[i + 1] = <<y, "dyndns">>
               /\ \A i \in DOMAIN q : q[i] = <<y, "dyndns">> => i - 1 \in DOMAIN q /\ q[i - 1] = <<x, "dyndns">>
    <3>1. <<x, y>> \in {}
      BY <1>1, <2>7, Kinds DEF Link
    <3>q. QED
      BY <2>4, <3>1
  <2>8. Whole(q, c, b, {"dyndns"})
    BY <1>g, <2>4, <2>5, <2>6, <2>7, ShortWhole
  <2>q. QED
    BY <2>3, <2>5, <2>8
<1>2. CASE Enabled(c, "dyndns") /\ b
  <2>1. PICK q : q = <<<<"pidkill", "dyndns">>, <<"write", "dyndns">>, <<"start", "dyndns">>>>
    OBVIOUS
  <2>2. <<"pidkill", "dyndns">> \in Steps /\ <<"write", "dyndns">> \in Steps /\ <<"start", "dyndns">> \in Steps
    BY Kinds DEF Steps, StepNames
  <2>3. Dyndns(c, b) = q
    <3>1. <<>> \o <<<<"write", "dyndns">>, <<"start", "dyndns">>>> = <<<<"write", "dyndns">>, <<"start", "dyndns">>>>
      BY <2>1, <2>2, Joins
    <3>2. <<<<"pidkill", "dyndns">>>> \o <<<<"write", "dyndns">>, <<"start", "dyndns">>>> = q
      BY <2>1, <2>2, Joins
    <3>q. QED
      BY <1>2, <2>1, <3>1, <3>2 DEF Dyndns, If
  <2>4. /\ q \in Seq(Steps) /\ DOMAIN q = 1..3
        /\ q[1] = <<"pidkill", "dyndns">> /\ q[2] = <<"write", "dyndns">> /\ q[3] = <<"start", "dyndns">>
    BY <2>1, <2>2
  <2>5. Once(q) /\ NoFilter(q)
    BY <2>4 DEF Once, NoFilter
  <2>6. Has(q, First("dyndns"), "dyndns") /\ \A i \in DOMAIN q : q[i][2] = "dyndns" /\ q[i][1] \in Names(c, "dyndns")
    BY <1>2, <2>4, Kinds DEF Has, First, Names, NamesIf, ByPid
  <2>7. ASSUME NEW x \in StepNames, NEW y \in StepNames, Link(c, b, x, y, "dyndns")
        PROVE  /\ \A i \in DOMAIN q : q[i] = <<x, "dyndns">> => i + 1 \in DOMAIN q /\ q[i + 1] = <<y, "dyndns">>
               /\ \A i \in DOMAIN q : q[i] = <<y, "dyndns">> => i - 1 \in DOMAIN q /\ q[i - 1] = <<x, "dyndns">>
    <3>1. <<x, y>> \in {<<"pidkill", "write">>, <<"write", "start">>}
      BY <1>2, <2>7, Kinds DEF Link
    <3>q. QED
      BY <2>4, <3>1
  <2>8. Whole(q, c, b, {"dyndns"})
    BY <1>g, <2>4, <2>5, <2>6, <2>7, ShortWhole
  <2>q. QED
    BY <2>3, <2>5, <2>8
<1>3. CASE Enabled(c, "dyndns") /\ ~b
  <2>1. PICK q : q = <<<<"pidkill", "dyndns">>, <<"sleep", "dyndns">>, <<"write", "dyndns">>, <<"start", "dyndns">>>>
    OBVIOUS
  <2>2. <<"pidkill", "dyndns">> \in Steps /\ <<"sleep", "dyndns">> \in Steps /\ <<"write", "dyndns">> \in Steps /\ <<"start", "dyndns">> \in Steps
    BY Kinds DEF Steps, StepNames
  <2>3. Dyndns(c, b) = q
    <3>1. <<<<"sleep", "dyndns">>>> \o <<<<"write", "dyndns">>, <<"start", "dyndns">>>> = <<<<"sleep", "dyndns">>, <<"write", "dyndns">>, <<"start", "dyndns">>>>
      BY <2>1, <2>2, Joins
    <3>2. <<<<"pidkill", "dyndns">>>> \o <<<<"sleep", "dyndns">>, <<"write", "dyndns">>, <<"start", "dyndns">>>> = q
      BY <2>1, <2>2, Joins
    <3>q. QED
      BY <1>3, <2>1, <3>1, <3>2 DEF Dyndns, If
  <2>4. /\ q \in Seq(Steps) /\ DOMAIN q = 1..4
        /\ q[1] = <<"pidkill", "dyndns">> /\ q[2] = <<"sleep", "dyndns">> /\ q[3] = <<"write", "dyndns">> /\ q[4] = <<"start", "dyndns">>
    BY <2>1, <2>2
  <2>5. Once(q) /\ NoFilter(q)
    BY <2>4 DEF Once, NoFilter
  <2>6. Has(q, First("dyndns"), "dyndns") /\ \A i \in DOMAIN q : q[i][2] = "dyndns" /\ q[i][1] \in Names(c, "dyndns")
    BY <1>3, <2>4, Kinds DEF Has, First, Names, NamesIf, ByPid
  <2>7. ASSUME NEW x \in StepNames, NEW y \in StepNames, Link(c, b, x, y, "dyndns")
        PROVE  /\ \A i \in DOMAIN q : q[i] = <<x, "dyndns">> => i + 1 \in DOMAIN q /\ q[i + 1] = <<y, "dyndns">>
               /\ \A i \in DOMAIN q : q[i] = <<y, "dyndns">> => i - 1 \in DOMAIN q /\ q[i - 1] = <<x, "dyndns">>
    <3>1. <<x, y>> \in {<<"pidkill", "sleep">>, <<"sleep", "write">>, <<"write", "start">>}
      BY <1>3, <2>7, Kinds DEF Link
    <3>q. QED
      BY <2>4, <3>1
  <2>8. Whole(q, c, b, {"dyndns"})
    BY <1>g, <2>4, <2>5, <2>6, <2>7, ShortWhole
  <2>q. QED
    BY <2>3, <2>5, <2>8
<1>q. QED
  BY <1>1, <1>2, <1>3

LEMMA BgpdWhole ==
  ASSUME NEW c \in Config, NEW b \in BOOLEAN
  PROVE  Whole(Bgpd, c, b, {"bgpd"}) /\ NoFilter(Bgpd)
<1>g. "bgpd" \in Daemons /\ c["bgpd"] # Gone
  BY NamedSetting
<1>1. CASE TRUE
  <2>1. PICK q : q = <<<<"write", "bgpd">>, <<"check", "bgpd">>>>
    OBVIOUS
  <2>2. <<"write", "bgpd">> \in Steps /\ <<"check", "bgpd">> \in Steps
    BY Kinds DEF Steps, StepNames
  <2>3. Bgpd = q
    <3>q. QED
      BY <1>1, <2>1 DEF Bgpd, If
  <2>4. /\ q \in Seq(Steps) /\ DOMAIN q = 1..2
        /\ q[1] = <<"write", "bgpd">> /\ q[2] = <<"check", "bgpd">>
    BY <2>1, <2>2
  <2>5. Once(q) /\ NoFilter(q)
    BY <2>4 DEF Once, NoFilter
  <2>6. Has(q, First("bgpd"), "bgpd") /\ \A i \in DOMAIN q : q[i][2] = "bgpd" /\ q[i][1] \in Names(c, "bgpd")
    BY <1>1, <2>4, Kinds DEF Has, First, Names, NamesIf, ByPid
  <2>7. ASSUME NEW x \in StepNames, NEW y \in StepNames, Link(c, b, x, y, "bgpd")
        PROVE  /\ \A i \in DOMAIN q : q[i] = <<x, "bgpd">> => i + 1 \in DOMAIN q /\ q[i + 1] = <<y, "bgpd">>
               /\ \A i \in DOMAIN q : q[i] = <<y, "bgpd">> => i - 1 \in DOMAIN q /\ q[i - 1] = <<x, "bgpd">>
    <3>1. <<x, y>> \in {<<"write", "check">>, <<"pgrep", "start">>}
      BY <1>1, <2>7, Kinds DEF Link
    <3>q. QED
      BY <2>4, <3>1
  <2>8. Whole(q, c, b, {"bgpd"})
    BY <1>g, <2>4, <2>5, <2>6, <2>7, ShortWhole
  <2>q. QED
    BY <2>3, <2>5, <2>8
<1>q. QED
  BY <1>1

LEMMA RelaydWhole ==
  ASSUME NEW c \in Config, NEW b \in BOOLEAN
  PROVE  Whole(Relayd, c, b, {"relayd"}) /\ NoFilter(Relayd)
<1>g. "relayd" \in Daemons /\ c["relayd"] # Gone
  BY NamedSetting
<1>1. CASE TRUE
  <2>1. PICK q : q = <<<<"write", "relayd">>, <<"pkill", "relayd">>, <<"start", "relayd">>>>
    OBVIOUS
  <2>2. <<"write", "relayd">> \in Steps /\ <<"pkill", "relayd">> \in Steps /\ <<"start", "relayd">> \in Steps
    BY Kinds DEF Steps, StepNames
  <2>3. Relayd = q
    <3>q. QED
      BY <1>1, <2>1 DEF Relayd, If
  <2>4. /\ q \in Seq(Steps) /\ DOMAIN q = 1..3
        /\ q[1] = <<"write", "relayd">> /\ q[2] = <<"pkill", "relayd">> /\ q[3] = <<"start", "relayd">>
    BY <2>1, <2>2
  <2>5. Once(q) /\ NoFilter(q)
    BY <2>4 DEF Once, NoFilter
  <2>6. Has(q, First("relayd"), "relayd") /\ \A i \in DOMAIN q : q[i][2] = "relayd" /\ q[i][1] \in Names(c, "relayd")
    BY <1>1, <2>4, Kinds DEF Has, First, Names, NamesIf, ByPid
  <2>7. ASSUME NEW x \in StepNames, NEW y \in StepNames, Link(c, b, x, y, "relayd")
        PROVE  /\ \A i \in DOMAIN q : q[i] = <<x, "relayd">> => i + 1 \in DOMAIN q /\ q[i + 1] = <<y, "relayd">>
               /\ \A i \in DOMAIN q : q[i] = <<y, "relayd">> => i - 1 \in DOMAIN q /\ q[i - 1] = <<x, "relayd">>
    <3>1. <<x, y>> \in {<<"write", "pkill">>, <<"pkill", "start">>}
      BY <1>1, <2>7, Kinds DEF Link
    <3>q. QED
      BY <2>4, <3>1
  <2>8. Whole(q, c, b, {"relayd"})
    BY <1>g, <2>4, <2>5, <2>6, <2>7, ShortWhole
  <2>q. QED
    BY <2>3, <2>5, <2>8
<1>q. QED
  BY <1>1

\* A last call of filter_configure().
LEMMA FilterWhole ==
  ASSUME NEW c \in Config, NEW b \in BOOLEAN
  PROVE  Whole(If(~b, <<<<"filter", Default>>>>), c, b, {}) /\ (b => NoFilter(If(~b, <<<<"filter", Default>>>>)))
<1>1. CASE b
  <2>1. If(~b, <<<<"filter", Default>>>>) = <<>>
    BY <1>1 DEF If
  <2>2. Whole(<<>>, c, b, {}) /\ NoFilter(<<>>)
    BY NoneWhole
  <2>q. QED
    BY <2>1, <2>2
<1>2. CASE ~b
  <2>1. PICK q : q = <<<<"filter", Default>>>>
    OBVIOUS
  <2>2. q \in Seq(Steps) /\ DOMAIN q = 1..1 /\ q[1] = <<"filter", Default>>
    BY <2>1, Kinds DEF Steps, StepNames
  <2>3. Once(q) /\ \A d \in Daemons : ~About(q, d)
    BY <2>2 DEF Once, About
  <2>4. \A i \in DOMAIN q : q[i][1] \in Names(c, q[i][2])
    BY <2>2, Kinds DEF Names
  <2>5. \A x, y \in StepNames, d \in Daemons : Link(c, b, x, y, d) => x # "filter" /\ y # "filter"
    BY Kinds DEF Link
  <2>6. \A x, y \in StepNames, d \in Daemons : Link(c, b, x, y, d) =>
          \A i \in DOMAIN q : q[i] # <<x, d>> /\ q[i] # <<y, d>>
    BY <2>2, <2>5
  <2>7. Whole(q, c, b, {})
    BY <2>2, <2>3, <2>4, <2>6, Zenon DEF Whole, Followed
  <2>q. QED
    BY <1>2, <2>1, <2>7 DEF If
<1>q. QED
  BY <1>1, <1>2

LEMMA DhcpdFunction ==
  ASSUME NEW c \in Config, NEW b \in BOOLEAN
  PROVE  Whole(Dhcpd(c, b), c, b, Dhcpds) /\ (b => NoFilter(Dhcpd(c, b)))
<1>1. PICK q1, q2 : q1 = DhcpdTables(c) /\ q2 = If(~b, <<<<"filter", Default>>>>)
  OBVIOUS
<1>2. /\ Whole(q1, c, b, Dhcpds) /\ NoFilter(q1)
      /\ Whole(q2, c, b, {}) /\ (b => NoFilter(q2))
  BY <1>1, TablesWhole, FilterWhole
<1>3. Dhcpds \cap {} = {} /\ Dhcpds \cup {} = Dhcpds /\ Dhcpds \subseteq Daemons
  BY Kinds
<1>4. Whole(q1 \o q2, c, b, Dhcpds) /\ (b => NoFilter(q1 \o q2))
  <2>1. Whole(q1 \o q2, c, b, Dhcpds \cup {}) /\ (NoFilter(q2) => NoFilter(q1 \o q2))
    BY <1>2, <1>3, ConcatWhole
  <2>q. QED
    BY <1>2, <1>3, <2>1, Zenon
<1>q. QED
  BY <1>1, <1>4 DEF Dhcpd

\* The daemons a function is for.
Group(d) == {d} \cup (IF d \in Dhcpds \cup {"dnsmasq"} THEN Dhcpds ELSE {})

LEMMA DnsmasqFunction ==
  ASSUME NEW c \in Config
  PROVE  Whole(Dnsmasq(c, FALSE), c, FALSE, Group("dnsmasq"))
<1>1. PICK q1, q2 : q1 = DnsmasqAlone(c, FALSE) /\ q2 = Dhcpd(c, FALSE)
  OBVIOUS
<1>2. Whole(q1, c, FALSE, {"dnsmasq"}) /\ NoFilter(q1) /\ Whole(q2, c, FALSE, Dhcpds)
  BY <1>1, DnsmasqWhole, DhcpdFunction
<1>3. /\ {"dnsmasq"} \cap Dhcpds = {} /\ {"dnsmasq"} \cup Dhcpds = Group("dnsmasq")
      /\ Group("dnsmasq") \subseteq Daemons
  BY Kinds DEF Group
<1>4. Whole(q1 \o q2, c, FALSE, Group("dnsmasq"))
  <2>1. Whole(q1 \o q2, c, FALSE, {"dnsmasq"} \cup Dhcpds)
    BY <1>2, <1>3, ConcatWhole
  <2>q. QED
    BY <1>3, <2>1, Zenon
<1>5. Dnsmasq(c, FALSE) = q1 \o q2
  <2>1. Dnsmasq(c, FALSE) = q1 \o If(~FALSE, q2)
    BY <1>1 DEF Dnsmasq, DnsmasqAlone
  <2>2. If(~FALSE, q2) = q2
    BY DEF If
  <2>q. QED
    BY <2>1, <2>2
<1>q. QED
  BY <1>4, <1>5

LEMMA FunctionWhole ==
  ASSUME NEW c \in Config, NEW d \in Daemons
  PROVE  Whole(Function(c, d), c, FALSE, Group(d))
<1>1. CASE d \in Dhcpds
  <2>1. Function(c, d) = Dhcpd(c, FALSE) /\ Group(d) = Dhcpds
    <3>1. d \notin {"dnsmasq", "dhcrelay", "dyndns", "bgpd", "relayd"}
      BY <1>1, Kinds
    <3>2. Function(c, d) = Dhcpd(c, FALSE)
      BY <1>1, <3>1 DEF Function
    <3>q. QED
      BY <1>1, <3>2 DEF Group
  <2>q. QED
    BY <2>1, DhcpdFunction
<1>2. CASE d = "dnsmasq"
  <2>1. Function(c, d) = Dnsmasq(c, FALSE)
    BY <1>2, Kinds DEF Function
  <2>q. QED
    BY <1>2, <2>1, DnsmasqFunction
<1>3. CASE d = "dhcrelay"
  <2>1. Function(c, d) = Dhcrelay(c, FALSE) /\ Group(d) = {"dhcrelay"}
    BY <1>3, Kinds DEF Function, Group
  <2>q. QED
    BY <2>1, DhcrelayWhole
<1>4. CASE d = "dyndns"
  <2>1. Function(c, d) = Dyndns(c, FALSE) /\ Group(d) = {"dyndns"}
    BY <1>4, Kinds DEF Function, Group
  <2>q. QED
    BY <2>1, DyndnsWhole
<1>5. CASE d = "bgpd"
  <2>1. Function(c, d) = Bgpd /\ Group(d) = {"bgpd"}
    BY <1>5, Kinds DEF Function, Group
  <2>q. QED
    BY <2>1, BgpdWhole
<1>6. CASE d = "relayd"
  <2>1. Function(c, d) = Relayd /\ Group(d) = {"relayd"}
    BY <1>6, Kinds DEF Function, Group
  <2>q. QED
    BY <2>1, RelaydWhole
<1>q. QED
  BY <1>1, <1>2, <1>3, <1>4, <1>5, <1>6, Kinds

LEMMA BootWhole ==
  ASSUME NEW c \in Config
  PROVE  Whole(BootSteps(c), c, TRUE, Daemons \ {"relayd"})
<1>1. PICK q1, q2, q3, q4, q5 : /\ q1 = DnsmasqAlone(c, TRUE) /\ q2 = Dhcpd(c, TRUE)
                                /\ q3 = Dhcrelay(c, TRUE) /\ q4 = Bgpd /\ q5 = Dyndns(c, TRUE)
  OBVIOUS
<1>2. /\ Whole(q1, c, TRUE, {"dnsmasq"}) /\ NoFilter(q1)
      /\ Whole(q2, c, TRUE, Dhcpds) /\ NoFilter(q2)
      /\ Whole(q3, c, TRUE, {"dhcrelay"}) /\ NoFilter(q3)
      /\ Whole(q4, c, TRUE, {"bgpd"}) /\ NoFilter(q4)
      /\ Whole(q5, c, TRUE, {"dyndns"}) /\ NoFilter(q5)
  BY <1>1, DnsmasqWhole, DhcpdFunction, DhcrelayWhole, BgpdWhole, DyndnsWhole
<1>3. Whole(q1 \o q2, c, TRUE, {"dnsmasq"} \cup Dhcpds) /\ NoFilter(q1 \o q2)
  <2>1. {"dnsmasq"} \cap Dhcpds = {} /\ {"dnsmasq"} \cup Dhcpds \subseteq Daemons
    BY Kinds
  <2>q. QED
    BY <1>2, <2>1, ConcatWhole
<1>4. PICK r1, s1 : r1 = q1 \o q2 /\ s1 = {"dnsmasq"} \cup Dhcpds
  OBVIOUS
<1>5. Whole(r1 \o q3, c, TRUE, s1 \cup {"dhcrelay"}) /\ NoFilter(r1 \o q3)
  <2>1. s1 \cap {"dhcrelay"} = {} /\ s1 \cup {"dhcrelay"} \subseteq Daemons
    BY <1>4, Kinds
  <2>q. QED
    BY <1>2, <1>3, <1>4, <2>1, ConcatWhole
<1>6. PICK r2, s2 : r2 = r1 \o q3 /\ s2 = s1 \cup {"dhcrelay"}
  OBVIOUS
<1>7. Whole(r2 \o q4, c, TRUE, s2 \cup {"bgpd"}) /\ NoFilter(r2 \o q4)
  <2>1. s2 \cap {"bgpd"} = {} /\ s2 \cup {"bgpd"} \subseteq Daemons
    BY <1>4, <1>6, Kinds
  <2>q. QED
    BY <1>2, <1>5, <1>6, <2>1, ConcatWhole
<1>8. PICK r3, s3 : r3 = r2 \o q4 /\ s3 = s2 \cup {"bgpd"}
  OBVIOUS
<1>9. Whole(r3 \o q5, c, TRUE, s3 \cup {"dyndns"})
  <2>1. s3 \cap {"dyndns"} = {} /\ s3 \cup {"dyndns"} \subseteq Daemons
    BY <1>4, <1>6, <1>8, Kinds
  <2>q. QED
    BY <1>2, <1>7, <1>8, <2>1, ConcatWhole
<1>10. s3 \cup {"dyndns"} = Daemons \ {"relayd"}
  BY <1>4, <1>6, <1>8, Kinds
<1>11. BootSteps(c) = r3 \o q5
  <2>1. Dnsmasq(c, TRUE) = q1
    <3>1. Dnsmasq(c, TRUE) = q1 \o If(~TRUE, Dhcpd(c, TRUE))
      BY <1>1 DEF Dnsmasq, DnsmasqAlone
    <3>2. If(~TRUE, Dhcpd(c, TRUE)) = <<>> /\ q1 \in Seq(Steps)
      BY <1>2 DEF If, Whole
    <3>q. QED
      BY <3>1, <3>2, Joins
  <2>q. QED
    BY <1>1, <1>4, <1>6, <1>8, <2>1 DEF BootSteps
<1>q. QED
  BY <1>9, <1>10, <1>11
-----------------------------------------------------------------------------
(* What is left of a function. *)

LEMMA LateNames ==
  /\ \A c, d, e : <<e, d>> \in Late => d = "bgpd" /\ e \notin Names(c, d)
  /\ Late \subseteq Steps
<1>1. "bgpd" \notin Dhcpds /\ "bgpd" \in Daemons
  BY Kinds
<1>2. \A c : Names(c, "bgpd") = {"write", "check"}
  BY <1>1 DEF Names
<1>3. \A d, e : <<e, d>> \in Late => d = "bgpd" /\ e \in {"pgrep", "start", "reload"}
  BY DEF Late
<1>q. QED
  BY <1>1, <1>2, <1>3 DEF Late, Steps, StepNames

LEMMA WholePlan ==
  ASSUME NEW c, NEW b, NEW q, NEW ds, Whole(q, c, b, ds)
  PROVE  Plan(q, c, b)
<1>1. \A i \in DOMAIN q : q[i] \notin Late
  <2> SUFFICES ASSUME NEW i \in DOMAIN q, q[i] \in Late PROVE FALSE
    OBVIOUS
  <2>1. q[i] \in Steps /\ q[i] = <<q[i][1], q[i][2]>> /\ q[i][1] \in Names(c, q[i][2])
    BY DEF Whole, Steps
  <2>q. QED
    BY <2>1, LateNames
<1>2. \A x, y \in StepNames, d \in Daemons : Link(c, b, x, y, d) =>
         \A i \in DOMAIN q : q[i] = <<y, d>> /\ i # 1 => q[i - 1] = <<x, d>>
  BY SMT DEF Whole
<1>3. /\ \A i \in DOMAIN q : q[i][1] \in Names(c, q[i][2]) \/ q[i] \in Late
      /\ \A i \in DOMAIN q : q[i] \in Late => i = 1 \/ (i = 2 /\ q[1] = <<"pgrep", "bgpd">>)
  BY <1>1, Zenon DEF Whole
<1>4. q \in Seq(Steps) /\ Once(q) /\ Followed(q, c, b)
  BY Zenon DEF Whole
<1>q. QED
  BY <1>2, <1>3, <1>4, Zenon DEF Plan

LEMMA TailOf ==
  ASSUME NEW q \in Seq(Steps), q # <<>>
  PROVE  /\ Tail(q) \in Seq(Steps) /\ Head(q) \in Steps /\ Head(q) = q[1] /\ 1 \in DOMAIN q
         /\ \A i \in DOMAIN Tail(q) : i + 1 \in DOMAIN q /\ Tail(q)[i] = q[i + 1] /\ i \in Nat \ {0}
         /\ \A i \in DOMAIN q : i # 1 => i - 1 \in DOMAIN Tail(q) /\ q[i] = Tail(q)[i - 1]
         /\ \A i \in DOMAIN q : i \in Nat \ {0}
<1>1. PICK n \in Nat : Len(q) = n + 1
  <2>1. Len(q) \in Nat /\ Len(q) # 0
    OBVIOUS
  <2>2. Len(q) - 1 \in Nat /\ Len(q) = (Len(q) - 1) + 1
    BY <2>1
  <2>q. QED
    BY <2>2
<1>2. /\ Tail(q) \in Seq(Steps) /\ Len(Tail(q)) = n /\ Head(q) = q[1] /\ Head(q) \in Steps
      /\ \A i \in 1..n : Tail(q)[i] = q[i + 1]
  BY <1>1
<1>3. DOMAIN q = 1..(n + 1) /\ DOMAIN Tail(q) = 1..n
  BY <1>1, <1>2
<1>4. /\ \A i \in 1..n : i + 1 \in 1..(n + 1) /\ i \in Nat \ {0}
      /\ \A i \in 1..(n + 1) : i # 1 => i - 1 \in 1..n /\ (i - 1) + 1 = i
      /\ \A i \in 1..(n + 1) : i \in Nat \ {0}
      /\ 1 \in 1..(n + 1)
  OBVIOUS
<1>q. QED
  BY <1>2, <1>3, <1>4

LEMMA TailPlan ==
  ASSUME NEW c, NEW b, NEW q, Plan(q, c, b), q # <<>>
  PROVE  Plan(Tail(q), c, b)
<1>1. q \in Seq(Steps)
  BY DEF Plan
<1>2. PICK p \in Seq(Steps) : p = Tail(q)
  BY <1>1, TailOf
<1>3. /\ \A i \in DOMAIN p : i + 1 \in DOMAIN q /\ p[i] = q[i + 1] /\ i \in Nat \ {0}
      /\ \A i \in DOMAIN q : i # 1 => i - 1 \in DOMAIN p /\ q[i] = p[i - 1]
      /\ \A i \in DOMAIN q : i \in Nat \ {0}
  BY <1>1, <1>2, TailOf
<1>4. Once(p)
  <2> SUFFICES ASSUME NEW i \in DOMAIN p, NEW j \in DOMAIN p, p[i] = p[j] PROVE i = j
    BY DEF Once
  <2>1. i + 1 = j + 1
    BY <1>3 DEF Plan, Once
  <2>q. QED
    BY <1>3, <2>1
<1>5. Followed(p, c, b)
  <2> SUFFICES ASSUME NEW x \in StepNames, NEW y \in StepNames, NEW d \in Daemons,
                      Link(c, b, x, y, d), NEW i \in DOMAIN p, p[i] = <<x, d>>
               PROVE  i + 1 \in DOMAIN p /\ p[i + 1] = <<y, d>>
    BY DEF Followed
  <2>1. (i + 1) + 1 \in DOMAIN q /\ q[(i + 1) + 1] = <<y, d>>
    BY <1>3 DEF Plan, Followed
  <2>2. (i + 1) + 1 # 1 /\ ((i + 1) + 1) - 1 = i + 1
    BY <1>3
  <2>q. QED
    BY <1>3, <2>1, <2>2
<1>6. \A i \in DOMAIN p : p[i][1] \in Names(c, p[i][2]) \/ p[i] \in Late
  BY <1>3 DEF Plan
<1>7. \A i \in DOMAIN p : p[i] \in Late => i = 1
  <2> SUFFICES ASSUME NEW i \in DOMAIN p, p[i] \in Late PROVE i = 1
    OBVIOUS
  <2>1. i + 1 = 1 \/ i + 1 = 2
    BY <1>3 DEF Plan
  <2>q. QED
    BY <1>3, <2>1
<1>8. ASSUME NEW x \in StepNames, NEW y \in StepNames, NEW d \in Daemons, Link(c, b, x, y, d),
             NEW i \in DOMAIN p, p[i] = <<y, d>>, i # 1
      PROVE  p[i - 1] = <<x, d>>
  <2>1. i + 1 # 1 /\ (i + 1) - 1 = i /\ i \in DOMAIN q
    <3>1. i + 1 \in DOMAIN q /\ i \in Nat \ {0}
      BY <1>3
    <3>2. DOMAIN q = 1..Len(q) /\ Len(q) \in Nat
      BY <1>1
    <3>q. QED
      BY <3>1, <3>2
  <2>2. q[i] = <<x, d>>
    <3>1. q[i + 1] = <<y, d>> /\ i + 1 \in DOMAIN q
      BY <1>3, <1>8
    <3>q. QED
      BY <1>8, <2>1, <3>1 DEF Plan
  <2>q. QED
    BY <1>3, <1>8, <2>1, <2>2
<1>9. \A x, y \in StepNames, d \in Daemons : Link(c, b, x, y, d) =>
         \A i \in DOMAIN p : p[i] = <<y, d>> /\ i # 1 => p[i - 1] = <<x, d>>
  BY <1>8
<1>10. \A i \in DOMAIN p : p[i] \in Late => i = 1 \/ (i = 2 /\ p[1] = <<"pgrep", "bgpd">>)
  BY <1>7
<1>11. Plan(p, c, b)
  BY <1>4, <1>5, <1>6, <1>9, <1>10, Zenon DEF Plan
<1>q. QED
  BY <1>2, <1>11

\* What is there of a daemon after the first step.
LEMMA TailHas ==
  ASSUME NEW c, NEW b, NEW q, Plan(q, c, b), q # <<>>
  PROVE  /\ \A a, d : Has(q, a, d) <=> Has(Tail(q), a, d) \/ Head(q) = <<a, d>>
         /\ \A a, d : Head(q) = <<a, d>> => ~Has(Tail(q), a, d)
         /\ \A x, y \in StepNames, d \in Daemons : Link(c, b, x, y, d) =>
              /\ Head(q) = <<x, d>> => Has(Tail(q), y, d)
              /\ Has(Tail(q), y, d) /\ Head(q) # <<x, d>> => Has(Tail(q), x, d)
<1>1. q \in Seq(Steps)
  BY DEF Plan
<1>2. PICK p \in Seq(Steps) : p = Tail(q)
  BY <1>1, TailOf
<1>3. /\ \A i \in DOMAIN p : i + 1 \in DOMAIN q /\ p[i] = q[i + 1] /\ i \in Nat \ {0}
      /\ \A i \in DOMAIN q : i # 1 => i - 1 \in DOMAIN p /\ q[i] = p[i - 1]
      /\ Head(q) = q[1] /\ 1 \in DOMAIN q
  BY <1>1, <1>2, TailOf
<1>4. \A a, d : Has(q, a, d) <=> Has(p, a, d) \/ Head(q) = <<a, d>>
  BY <1>3 DEF Has
<1>5. ASSUME NEW a, NEW d, Head(q) = <<a, d>>, Has(p, a, d) PROVE FALSE
  <2>1. PICK i \in DOMAIN p : p[i] = <<a, d>>
    BY <1>5 DEF Has
  <2>2. i + 1 = 1
    BY <1>3, <1>5, <2>1 DEF Plan, Once
  <2>q. QED
    BY <1>3, <2>2
<1>6. ASSUME NEW x \in StepNames, NEW y \in StepNames, NEW d \in Daemons, Link(c, b, x, y, d)
      PROVE  /\ Head(q) = <<x, d>> => Has(p, y, d)
             /\ Has(p, y, d) /\ Head(q) # <<x, d>> => Has(p, x, d)
  <2>1. ASSUME Head(q) = <<x, d>> PROVE Has(p, y, d)
    <3>1. 1 + 1 \in DOMAIN q /\ q[1 + 1] = <<y, d>>
      BY <1>3, <1>6, <2>1 DEF Plan, Followed
    <3>q. QED
      BY <1>3, <3>1 DEF Has
  <2>2. ASSUME Has(p, y, d), Head(q) # <<x, d>> PROVE Has(p, x, d)
    <3>1. PICK i \in DOMAIN p : p[i] = <<y, d>>
      BY <2>2 DEF Has
    <3>2. i + 1 # 1 /\ (i + 1) - 1 = i
      BY <1>3
    <3>3. q[i] = <<x, d>>
      <4>1. i + 1 \in DOMAIN q /\ q[i + 1] = <<y, d>>
        BY <1>3, <3>1
      <4>q. QED
        BY <1>6, <3>2, <4>1 DEF Plan
    <3>4. i \in DOMAIN q
      <4>1. DOMAIN q = 1..Len(q) /\ Len(q) \in Nat /\ i + 1 \in DOMAIN q /\ i \in Nat \ {0}
        BY <1>1, <1>3
      <4>q. QED
        BY <4>1
    <3>5. i # 1
      BY <1>3, <2>2, <3>3
    <3>q. QED
      BY <1>3, <3>3, <3>4, <3>5 DEF Has
  <2>q. QED
    BY <2>1, <2>2
<1>q. QED
  BY <1>2, <1>4, <1>5, <1>6

\* Check puts its steps before what is left.
LEMMA CheckPlan ==
  ASSUME NEW c, NEW b, NEW q, Plan(q, c, b), q # <<>>, Head(q) = <<"check", "bgpd">>,
         NEW m, m = <<<<"pgrep", "bgpd">>, <<"start", "bgpd">>>> \/ m = <<<<"reload", "bgpd">>>>
  PROVE  /\ Plan(m \o Tail(q), c, b)
         /\ \A a, d : Has(m \o Tail(q), a, d) <=> Has(m, a, d) \/ Has(Tail(q), a, d)
         /\ \A a : Has(Tail(q), a, "bgpd") => a = "write"
<1>1. q \in Seq(Steps)
  BY DEF Plan
<1>2. PICK t \in Seq(Steps) : t = Tail(q)
  BY <1>1, TailOf
<1>3. /\ \A i \in DOMAIN t : i + 1 \in DOMAIN q /\ t[i] = q[i + 1] /\ i \in Nat \ {0}
      /\ Head(q) = q[1] /\ 1 \in DOMAIN q
  BY <1>1, <1>2, TailOf
<1>4. Plan(t, c, b)
  BY <1>2, TailPlan
<1>5. \A i \in DOMAIN q : q[i] \notin Late
  <2>1. "check" # "pgrep" /\ <<"check", "bgpd">> \notin Late
    BY DEF Late
  <2>2. q[1] # <<"pgrep", "bgpd">> /\ q[1] \notin Late
    BY <1>3, <2>1, SMT DEF Late
  <2>q. QED
    BY <2>2 DEF Plan
<1>6. \A i \in DOMAIN t : t[i] \notin Late
  BY <1>3, <1>5
<1>7. PICK k \in {1, 2} : Len(m) = k /\ DOMAIN m = 1..k
  OBVIOUS
<1>m. m \in Seq(Steps) /\ \A i \in DOMAIN m : m[i] \in Late
  <2>1. <<"pgrep", "bgpd">> \in Late /\ <<"start", "bgpd">> \in Late /\ <<"reload", "bgpd">> \in Late
    BY DEF Late
  <2>2. <<"pgrep", "bgpd">> \in Steps /\ <<"start", "bgpd">> \in Steps /\ <<"reload", "bgpd">> \in Steps
    BY <2>1, LateNames
  <2>3. CASE m = <<<<"pgrep", "bgpd">>, <<"start", "bgpd">>>>
    <3>1. m \in Seq(Steps) /\ DOMAIN m = 1..2 /\ m[1] = <<"pgrep", "bgpd">> /\ m[2] = <<"start", "bgpd">>
      BY <2>2, <2>3
    <3>2. \A i \in 1..2 : i = 1 \/ i = 2
      OBVIOUS
    <3>3. \A i \in DOMAIN m : m[i] \in Late
      BY <2>1, <3>1, <3>2, Zenon
    <3>q. QED
      BY <3>1, <3>3
  <2>4. CASE m = <<<<"reload", "bgpd">>>>
    <3>1. m \in Seq(Steps) /\ DOMAIN m = 1..1 /\ m[1] = <<"reload", "bgpd">>
      BY <2>2, <2>4
    <3>q. QED
      BY <2>1, <3>1
  <2>q. QED
    BY <2>3, <2>4
<1>8. PICK p \in Seq(Steps) : p = m \o t
  <2>1. m \o t \in Seq(Steps)
    BY <1>m, ConcatProperties
  <2>q. QED
    BY <2>1
<1>9. PICK n \in Nat : Len(t) = n
  OBVIOUS
<1>10. /\ DOMAIN p = 1..(k + n) /\ DOMAIN t = 1..n
       /\ \A i \in 1..k : p[i] = m[i]
       /\ \A i \in (k + 1)..(k + n) : p[i] = t[i - k]
  BY <1>7, <1>8, <1>9, <1>m
<1>k. k \in Nat
  BY <1>7
<1>11. /\ \A i \in DOMAIN m : i \in DOMAIN p /\ p[i] = m[i]
       /\ \A i \in DOMAIN t : i + k \in DOMAIN p /\ p[i + k] = t[i]
       /\ \A i \in DOMAIN p : i \notin DOMAIN m => i - k \in DOMAIN t /\ p[i] = t[i - k]
  <2>1. \A i \in 1..n : i + k \in (k + 1)..(k + n) /\ i + k \in 1..(k + n) /\ (i + k) - k = i
    BY <1>k
  <2>2. \A i \in 1..(k + n) : i \notin 1..k => i \in (k + 1)..(k + n) /\ i - k \in 1..n
    BY <1>k
  <2>3. \A i \in 1..k : i \in 1..(k + n)
    BY <1>k
  <2>4. DOMAIN m = 1..k
    BY <1>7
  <2>5. \A i \in DOMAIN m : i \in DOMAIN p /\ p[i] = m[i]
    BY <1>10, <2>3, <2>4, Zenon
  <2>6. \A i \in DOMAIN t : i + k \in DOMAIN p /\ p[i + k] = t[i]
    BY <1>10, <2>1, SMT
  <2>7. \A i \in DOMAIN p : i \notin DOMAIN m => i - k \in DOMAIN t /\ p[i] = t[i - k]
    BY <1>10, <2>2, <2>4, Zenon
  <2>q. QED
    BY <2>5, <2>6, <2>7
<1>12. \A i, j \in DOMAIN m : m[i] = m[j] => i = j
  BY <1>7
<1>13. Once(p)
  <2> SUFFICES ASSUME NEW i \in DOMAIN p, NEW j \in DOMAIN p, p[i] = p[j] PROVE i = j
    BY DEF Once
  <2>1. CASE i \in DOMAIN m /\ j \in DOMAIN m
    BY <2>1, <1>11, <1>12
  <2>2. CASE i \notin DOMAIN m /\ j \notin DOMAIN m
    <3>1. i - k = j - k
      <4>1. i - k \in DOMAIN t /\ j - k \in DOMAIN t /\ t[i - k] = t[j - k]
        BY <1>11, <2>2
      <4>q. QED
        BY <4>1, <1>4 DEF Plan, Once
    <3>q. QED
      BY <3>1, <1>7, <1>10
  <2>3. CASE (i \in DOMAIN m /\ j \notin DOMAIN m) \/ (i \notin DOMAIN m /\ j \in DOMAIN m)
    BY <2>3, <1>6, <1>11, <1>m
  <2>q. QED
    BY <2>1, <2>2, <2>3
<1>14. ASSUME NEW x \in StepNames, NEW y \in StepNames, NEW d \in Daemons, Link(c, b, x, y, d)
       PROVE  /\ \A i \in DOMAIN m : /\ m[i] = <<x, d>> => i + 1 \in DOMAIN m /\ m[i + 1] = <<y, d>>
                                     /\ m[i] = <<y, d>> /\ i # 1 => m[i - 1] = <<x, d>>
              /\ <<x, d>> # <<"check", "bgpd">>
  <2>1. d = "bgpd" => (x = "write" /\ y = "check") \/ (x = "pgrep" /\ y = "start")
    BY <1>14, Kinds, SMT DEF Link
  <2>2. CASE d # "bgpd"
    BY <2>2
  <2>3. CASE d = "bgpd" /\ x = "write" /\ y = "check"
    BY <2>3
  <2>4. CASE d = "bgpd" /\ x = "pgrep" /\ y = "start"
    BY <2>4
  <2>q. QED
    BY <2>1, <2>2, <2>3, <2>4
<1>15. Followed(p, c, b)
  <2> SUFFICES ASSUME NEW x \in StepNames, NEW y \in StepNames, NEW d \in Daemons,
                      Link(c, b, x, y, d), NEW i \in DOMAIN p, p[i] = <<x, d>>
               PROVE  i + 1 \in DOMAIN p /\ p[i + 1] = <<y, d>>
    BY DEF Followed
  <2>1. CASE i \in DOMAIN m
    BY <2>1, <1>11, <1>14
  <2>2. CASE i \notin DOMAIN m
    <3>1. i - k \in DOMAIN t /\ t[i - k] = <<x, d>>
      BY <2>2, <1>11
    <3>2. (i - k) + 1 \in DOMAIN t /\ t[(i - k) + 1] = <<y, d>>
      BY <3>1, <1>4 DEF Plan, Followed
    <3>3. ((i - k) + 1) + k = i + 1
      BY <1>7, <1>10
    <3>q. QED
      BY <3>2, <3>3, <1>11
  <2>q. QED
    BY <2>1, <2>2
<1>16. \A i \in DOMAIN p : p[i][1] \in Names(c, p[i][2]) \/ p[i] \in Late
  <2> SUFFICES ASSUME NEW i \in DOMAIN p PROVE p[i][1] \in Names(c, p[i][2]) \/ p[i] \in Late
    OBVIOUS
  <2>1. CASE i \in DOMAIN m
    BY <2>1, <1>11, <1>m
  <2>2. CASE i \notin DOMAIN m
    BY <2>2, <1>4, <1>11 DEF Plan
  <2>q. QED
    BY <2>1, <2>2
<1>17. \A i \in DOMAIN p : p[i] \in Late => i = 1 \/ (i = 2 /\ p[1] = <<"pgrep", "bgpd">>)
  <2> SUFFICES ASSUME NEW i \in DOMAIN p, p[i] \in Late
               PROVE  i = 1 \/ (i = 2 /\ p[1] = <<"pgrep", "bgpd">>)
    OBVIOUS
  <2>1. i \in DOMAIN m
    BY <1>6, <1>11
  <2>2. i = 1 \/ (i = 2 /\ m[1] = <<"pgrep", "bgpd">>)
    BY <2>1, <1>7
  <2>3. p[1] = m[1]
    BY <1>7, <1>10
  <2>q. QED
    BY <2>2, <2>3
<1>18. ASSUME NEW x \in StepNames, NEW y \in StepNames, NEW d \in Daemons, Link(c, b, x, y, d),
              NEW i \in DOMAIN p, p[i] = <<y, d>>, i # 1
       PROVE  p[i - 1] = <<x, d>>
  <2>1. CASE i \in DOMAIN m
    <3>1. m[i - 1] = <<x, d>> /\ i - 1 \in DOMAIN m
      BY <2>1, <1>7, <1>11, <1>14, <1>18
    <3>q. QED
      BY <3>1, <1>11
  <2>2. CASE i \notin DOMAIN m
    <3>1. PICK j \in DOMAIN t : j = i - k /\ t[j] = <<y, d>>
      BY <2>2, <1>11, <1>18
    <3>2. j + 1 \in DOMAIN q /\ q[j + 1] = <<y, d>> /\ j + 1 # 1 /\ (j + 1) - 1 = j
      BY <1>3, <3>1
    <3>3. q[j] = <<x, d>>
      BY <3>2, <1>18 DEF Plan
    <3>4. j # 1
      BY <3>3, <1>3, <1>14, <1>18
    <3>5. t[j - 1] = <<x, d>>
      BY <3>1, <3>4, <1>4, <1>18 DEF Plan
    <3>6. j - 1 \in DOMAIN t /\ (j - 1) + k = i - 1
      BY <3>1, <3>4, <1>7, <1>10
    <3>q. QED
      BY <3>5, <3>6, <1>11
  <2>q. QED
    BY <2>1, <2>2
<1>19. \A x, y \in StepNames, d \in Daemons : Link(c, b, x, y, d) =>
         \A i \in DOMAIN p : p[i] = <<y, d>> /\ i # 1 => p[i - 1] = <<x, d>>
  BY <1>18
<1>20. Plan(p, c, b)
  BY <1>13, <1>15, <1>16, <1>17, <1>19, Zenon DEF Plan
<1>21. \A a, d : Has(p, a, d) <=> Has(m, a, d) \/ Has(t, a, d)
  <2> SUFFICES ASSUME NEW a, NEW d PROVE Has(p, a, d) <=> Has(m, a, d) \/ Has(t, a, d)
    OBVIOUS
  <2>1. ASSUME Has(p, a, d) PROVE Has(m, a, d) \/ Has(t, a, d)
    <3>1. PICK i \in DOMAIN p : p[i] = <<a, d>>
      BY <2>1 DEF Has
    <3>2. CASE i \in DOMAIN m
      BY <3>1, <3>2, <1>11, Zenon DEF Has
    <3>3. CASE i \notin DOMAIN m
      <4>1. i - k \in DOMAIN t /\ t[i - k] = <<a, d>>
        BY <3>1, <3>3, <1>11, Zenon
      <4>q. QED
        BY <4>1, Zenon DEF Has
    <3>q. QED
      BY <3>2, <3>3
  <2>2. ASSUME Has(m, a, d) \/ Has(t, a, d) PROVE Has(p, a, d)
    BY <2>2, <1>11, SMT DEF Has
  <2>q. QED
    BY <2>1, <2>2
<1>22. ASSUME NEW a, Has(t, a, "bgpd") PROVE a = "write"
  <2>1. PICK i \in DOMAIN t : t[i] = <<a, "bgpd">>
    BY <1>22 DEF Has
  <2>2. a \in Names(c, "bgpd") /\ a # "check"
    <3>1. t[i][1] \in Names(c, t[i][2])
      BY <1>4, <1>6 DEF Plan
    <3>2. ~Has(t, "check", "bgpd")
      BY <1>2, TailHas
    <3>3. t[i][1] = a /\ t[i][2] = "bgpd"
      BY <2>1
    <3>q. QED
      BY <2>1, <3>1, <3>2, <3>3 DEF Has
  <2>3. Names(c, "bgpd") = {"write", "check"}
    BY Kinds DEF Names
  <2>q. QED
    BY <2>2, <2>3
<1>q. QED
  BY <1>2, <1>8, <1>20, <1>21, <1>22
-----------------------------------------------------------------------------
(* The daemons that run. *)

Young(d) == {p \in Running(d) : proc[p].young}
NewProc(d, v) == [svc |-> d, conf |-> v, dying |-> FALSE, young |-> d \in ByPid]
ProcType == proc \in [Pids -> Proc \cup {NoProc}]

LEMMA ProcFields ==
  /\ NoProc \notin Proc
  /\ \A x \in Proc : /\ x.svc \in Daemons /\ x.conf \in Values /\ x.dying \in BOOLEAN
                     /\ x.young \in BOOLEAN
  /\ \A x \in Proc, e \in BOOLEAN :
       /\ [x EXCEPT !.dying = e] \in Proc /\ [x EXCEPT !.young = e] \in Proc
       /\ [x EXCEPT !.dying = e].svc = x.svc /\ [x EXCEPT !.young = e].svc = x.svc
       /\ [x EXCEPT !.dying = e].conf = x.conf /\ [x EXCEPT !.young = e].conf = x.conf
       /\ [x EXCEPT !.dying = e].young = x.young /\ [x EXCEPT !.young = e].dying = x.dying
       /\ [x EXCEPT !.dying = e].dying = e /\ [x EXCEPT !.young = e].young = e
  /\ \A x \in Proc, v \in Values :
       /\ [x EXCEPT !.conf = v] \in Proc /\ [x EXCEPT !.conf = v].svc = x.svc
       /\ [x EXCEPT !.conf = v].conf = v /\ [x EXCEPT !.conf = v].dying = x.dying
       /\ [x EXCEPT !.conf = v].young = x.young
  /\ \A d \in Daemons, v \in Values :
       /\ NewProc(d, v) \in Proc /\ NewProc(d, v).svc = d /\ NewProc(d, v).conf = v
       /\ ~NewProc(d, v).dying /\ (NewProc(d, v).young <=> d \in ByPid)
<1>1. NoProc \notin Proc
  BY ServicesAssumption DEF Proc
<1>2. \A x \in Proc : /\ x.svc \in Daemons /\ x.conf \in Values /\ x.dying \in BOOLEAN
                      /\ x.young \in BOOLEAN
  BY DEF Proc
<1>3. \A x \in Proc, e \in BOOLEAN :
       /\ [x EXCEPT !.dying = e] \in Proc /\ [x EXCEPT !.young = e] \in Proc
       /\ [x EXCEPT !.dying = e].svc = x.svc /\ [x EXCEPT !.young = e].svc = x.svc
       /\ [x EXCEPT !.dying = e].conf = x.conf /\ [x EXCEPT !.young = e].conf = x.conf
       /\ [x EXCEPT !.dying = e].young = x.young /\ [x EXCEPT !.young = e].dying = x.dying
       /\ [x EXCEPT !.dying = e].dying = e /\ [x EXCEPT !.young = e].young = e
  BY DEF Proc
<1>4. \A x \in Proc, v \in Values :
       /\ [x EXCEPT !.conf = v] \in Proc /\ [x EXCEPT !.conf = v].svc = x.svc
       /\ [x EXCEPT !.conf = v].conf = v /\ [x EXCEPT !.conf = v].dying = x.dying
       /\ [x EXCEPT !.conf = v].young = x.young
  BY DEF Proc
<1>5. ASSUME NEW d \in Daemons, NEW v \in Values
      PROVE  /\ NewProc(d, v) \in Proc /\ NewProc(d, v).svc = d /\ NewProc(d, v).conf = v
             /\ ~NewProc(d, v).dying /\ (NewProc(d, v).young <=> d \in ByPid)
  <2>1. NewProc(d, v).svc = d /\ NewProc(d, v).conf = v
    BY DEF NewProc
  <2>2. ~NewProc(d, v).dying /\ (NewProc(d, v).young <=> d \in ByPid)
    BY Zenon DEF NewProc
  <2>3. (d \in ByPid) \in BOOLEAN
    OBVIOUS
  <2>4. NewProc(d, v) \in Proc
    BY <2>3, Zenon DEF NewProc, Proc
  <2>q. QED
    BY <2>1, <2>2, <2>4
<1>q. QED
  BY <1>1, <1>2, <1>3, <1>4, <1>5

\* The process does what its first step says.
LEMMA DoIs ==
  ASSUME TypeOK, NEW r \in Processes, NEW a, NEW d, Do(r, a, d)
  PROVE  /\ pc[r] = "run" /\ todo[r] # <<>> /\ todo[r] \in Seq(Steps) /\ Head(todo[r]) = <<a, d>>
         /\ a \in StepNames /\ d \in Daemons
<1>1. todo[r] \in Seq(Steps)
  BY DEF TypeOK, Steps
<1>2. d \in Target(r) /\ Head(todo[r])[1] = a
  BY DEF Do
<1>3. pc[r] = "run" /\ todo[r] # <<>> /\ d = Head(todo[r])[2]
  BY <1>2, Zenon DEF Target
<1>4. Head(todo[r]) \in Steps
  BY <1>1, <1>3, TailOf
<1>5. Head(todo[r]) = <<Head(todo[r])[1], Head(todo[r])[2]>>
  BY <1>4 DEF Steps
<1>q. QED
  BY <1>1, <1>2, <1>3, <1>4, <1>5 DEF Steps

LEMMA FreePid ==
  ASSUME NEW free, free \subseteq Pids, free # {}
  PROVE  (CHOOSE q \in free : \A o \in free : q <= o) \in free
<1>1. free \subseteq Nat /\ \A o \in free : o \in Nat
  BY ServicesAssumption DEF Pids
<1>2. PICK k \in free : \A o \in free : <<o, k>> \notin OpToRel(<, Nat)
  BY <1>1, NatLessThanWellFounded, WFMin
<1>3. \A o \in free : ~(o < k)
  BY <1>1, <1>2 DEF OpToRel
<1>4. \A o \in free : k <= o
  BY <1>1, <1>3
<1>q. QED
  BY <1>2, <1>4

\* Signals make processes die.
LEMMA KillEffect ==
  ASSUME ProcType, NEW ps, \A p \in ps : p \in Pids /\ proc[p] # NoProc, Kill(ps)
  PROVE  /\ ProcType'
         /\ \A d : Running(d)' = Running(d) /\ Living(d)' = Living(d) \ ps /\ Young(d)' = Young(d)
         /\ \A p \in Pids : /\ proc'[p] = NoProc <=> proc[p] = NoProc
                            /\ proc[p] # NoProc => proc'[p].conf = proc[p].conf
<1>1. ASSUME NEW p \in Pids
      PROVE  /\ proc'[p] = IF p \in ps THEN [proc[p] EXCEPT !.dying = TRUE] ELSE proc[p]
             /\ proc'[p] \in Proc \cup {NoProc}
             /\ proc'[p] = NoProc <=> proc[p] = NoProc
             /\ proc[p] # NoProc => /\ proc'[p].conf = proc[p].conf /\ proc'[p].svc = proc[p].svc
                                    /\ proc'[p].young = proc[p].young
                                    /\ p \in ps => proc'[p].dying = TRUE
                                    /\ p \notin ps => proc'[p].dying = proc[p].dying
  <2>1. proc'[p] = IF p \in ps THEN [proc[p] EXCEPT !.dying = TRUE] ELSE proc[p]
    BY DEF Kill
  <2>2. CASE p \in ps
    <3>1. proc[p] \in Proc /\ proc[p] # NoProc /\ TRUE \in BOOLEAN
      BY <2>2 DEF ProcType
    <3>2. PICK x \in Proc : x = proc[p]
      BY <3>1
    <3>3. /\ [x EXCEPT !.dying = TRUE] \in Proc /\ [x EXCEPT !.dying = TRUE].svc = x.svc
          /\ [x EXCEPT !.dying = TRUE].conf = x.conf /\ [x EXCEPT !.dying = TRUE].young = x.young
          /\ [x EXCEPT !.dying = TRUE].dying = TRUE
      BY <3>1, ProcFields, Zenon
    <3>4. proc'[p] = [x EXCEPT !.dying = TRUE]
      BY <2>1, <2>2, <3>2
    <3>5. proc'[p] # NoProc
      <4>1. NoProc \notin Proc
        BY ProcFields, Zenon
      <4>q. QED
        BY <3>3, <3>4, <4>1, Zenon
    <3>q. QED
      BY <2>1, <2>2, <3>1, <3>2, <3>3, <3>4, <3>5, Zenon
  <2>3. CASE p \notin ps
    BY <2>1, <2>3, Zenon DEF ProcType
  <2>q. QED
    BY <2>2, <2>3
<1>2. ProcType'
  <2>1. proc' = [p \in Pids |-> proc'[p]]
    BY DEF Kill
  <2>q. QED
    BY <1>1, <2>1 DEF ProcType
<1>3. ASSUME NEW d
      PROVE  Running(d)' = Running(d) /\ Living(d)' = Living(d) \ ps /\ Young(d)' = Young(d)
  <2>1. Running(d)' = Running(d)
    BY <1>1, Zenon DEF Running
  <2>2. \A p \in Running(d) : p \in Pids /\ proc[p] # NoProc
    BY DEF Running
  <2>3. Living(d)' = Living(d) \ ps
    BY <1>1, <2>1, <2>2, Zenon DEF Living
  <2>4. Young(d)' = Young(d)
    BY <1>1, <2>1, <2>2, Zenon DEF Young
  <2>q. QED
    BY <2>1, <2>3, <2>4
<1>q. QED
  BY <1>1, <1>2, <1>3

\* A daemon is started as the process p.
LEMMA NewEffect ==
  ASSUME ProcType, NEW p \in Pids, proc[p] = NoProc, NEW d \in Daemons, NEW v \in Values,
         proc' = [proc EXCEPT ![p] = NewProc(d, v)]
  PROVE  /\ ProcType'
         /\ \A e : e # d => Running(e)' = Running(e) /\ Living(e)' = Living(e) /\ Young(e)' = Young(e)
         /\ Running(d)' = Running(d) \cup {p} /\ Living(d)' = Living(d) \cup {p}
         /\ Young(d)' = IF d \in ByPid THEN Young(d) \cup {p} ELSE Young(d)
         /\ p \notin Running(d) /\ proc'[p] # NoProc /\ proc'[p].conf = v
         /\ \A o \in Pids : o # p => proc'[o] = proc[o]
<1>1. /\ NewProc(d, v) \in Proc /\ NewProc(d, v).svc = d /\ NewProc(d, v).conf = v
      /\ ~NewProc(d, v).dying /\ (NewProc(d, v).young <=> d \in ByPid)
  BY ProcFields, Zenon
<1>2. NoProc \notin Proc
  BY ProcFields, Zenon
<1>3. proc'[p] = NewProc(d, v) /\ \A o \in Pids : o # p => proc'[o] = proc[o]
  BY DEF ProcType
<1>4. ProcType'
  BY <1>1 DEF ProcType
<1>5. proc'[p] # NoProc
  BY <1>1, <1>2, <1>3, Zenon
<1>6. /\ proc'[p].svc = d /\ proc'[p].conf = v /\ ~proc'[p].dying
      /\ (proc'[p].young <=> d \in ByPid)
  BY <1>1, <1>3, Zenon
<1>7. \A e : Running(e)' = IF e = d THEN Running(e) \cup {p} ELSE Running(e)
  BY <1>3, <1>5, <1>6, Zenon DEF Running
<1>8. \A e : p \notin Running(e) /\ Running(e) \subseteq Pids
  BY Zenon DEF Running
<1>9. ASSUME NEW e PROVE Living(e)' = IF e = d THEN Living(e) \cup {p} ELSE Living(e)
  BY <1>3, <1>6, <1>7, <1>8, Zenon DEF Living
<1>10. ASSUME NEW e PROVE Young(e)' = IF e = d /\ d \in ByPid THEN Young(e) \cup {p} ELSE Young(e)
  <2>1. CASE e = d /\ d \in ByPid
    BY <1>3, <1>6, <1>7, <1>8, <2>1, Zenon DEF Young
  <2>2. CASE e = d /\ d \notin ByPid
    BY <1>3, <1>6, <1>7, <1>8, <2>2, Zenon DEF Young
  <2>3. CASE e # d
    BY <1>3, <1>6, <1>7, <1>8, <2>3, Zenon DEF Young
  <2>q. QED
    BY <2>1, <2>2, <2>3
<1>q. QED
  BY <1>3, <1>4, <1>5, <1>6, <1>7, <1>8, <1>9, <1>10, Zenon

\* The process p is gone.
LEMMA GoneEffect ==
  ASSUME ProcType, NEW p \in Pids, proc' = [proc EXCEPT ![p] = NoProc]
  PROVE  /\ ProcType'
         /\ \A d : /\ Running(d)' = Running(d) \ {p} /\ Living(d)' = Living(d) \ {p}
                   /\ Young(d)' = Young(d) \ {p}
         /\ proc'[p] = NoProc
         /\ \A o \in Pids : o # p => proc'[o] = proc[o]
<1>1. ProcType' /\ proc'[p] = NoProc /\ \A o \in Pids : o # p => proc'[o] = proc[o]
  BY DEF ProcType
<1>2. \A d : Running(d) \subseteq Pids /\ Running(d)' = Running(d) \ {p}
  BY <1>1, Zenon DEF Running
<1>3. ASSUME NEW d PROVE Living(d)' = Living(d) \ {p}
  BY <1>1, <1>2, Zenon DEF Living
<1>4. ASSUME NEW d PROVE Young(d)' = Young(d) \ {p}
  BY <1>1, <1>2, Zenon DEF Young
<1>q. QED
  BY <1>1, <1>2, <1>3, <1>4

\* The process p has written its pid file.
LEMMA GrownEffect ==
  ASSUME ProcType, NEW p \in Pids, proc[p] # NoProc, proc' = [proc EXCEPT ![p].young = FALSE]
  PROVE  /\ ProcType'
         /\ \A d : /\ Running(d)' = Running(d) /\ Living(d)' = Living(d)
                   /\ Young(d)' = Young(d) \ {p}
         /\ \A o \in Pids : /\ proc'[o] = NoProc <=> proc[o] = NoProc
                            /\ proc[o] # NoProc => proc'[o].conf = proc[o].conf
<1>1. PICK x \in Proc : x = proc[p]
  BY DEF ProcType
<1>2. FALSE \in BOOLEAN
  OBVIOUS
<1>3. /\ [x EXCEPT !.young = FALSE] \in Proc /\ [x EXCEPT !.young = FALSE].svc = x.svc
      /\ [x EXCEPT !.young = FALSE].conf = x.conf /\ [x EXCEPT !.young = FALSE].dying = x.dying
      /\ [x EXCEPT !.young = FALSE].young = FALSE
  BY <1>2, ProcFields, Zenon
<1>4. PICK y : y = [x EXCEPT !.young = FALSE]
  OBVIOUS
<1>5. y \in Proc /\ y.svc = x.svc /\ y.conf = x.conf /\ y.dying = x.dying /\ y.young = FALSE
  BY <1>3, <1>4, Zenon
<1>6. proc' = [proc EXCEPT ![p] = y]
  BY <1>1, <1>4, Zenon
<1>7. ProcType' /\ proc'[p] = y /\ \A o \in Pids : o # p => proc'[o] = proc[o]
  BY <1>5, <1>6 DEF ProcType
<1>8. NoProc \notin Proc
  BY ProcFields, Zenon
<1>9. proc'[p] # NoProc
  BY <1>5, <1>7, <1>8, Zenon
<1>10. \A o \in Pids : /\ proc'[o] = NoProc <=> proc[o] = NoProc
                       /\ proc'[o].conf = proc[o].conf /\ proc'[o].svc = proc[o].svc
                       /\ proc'[o].dying = proc[o].dying
  BY <1>1, <1>5, <1>7, <1>9, Zenon
<1>11. \A d : Running(d) \subseteq Pids /\ Running(d)' = Running(d)
  BY <1>10, Zenon DEF Running
<1>12. ASSUME NEW d PROVE Living(d)' = Living(d)
  <2>1. \A o \in Running(d) : proc'[o].dying = proc[o].dying
    BY <1>10, <1>11, Zenon
  <2>q. QED
    BY <1>11, <2>1, Zenon DEF Living
<1>13. ~proc'[p].young
  BY <1>5, <1>7, Zenon
<1>14. ASSUME NEW d PROVE Young(d)' = Young(d) \ {p}
  BY <1>7, <1>11, <1>13, Zenon DEF Young
<1>q. QED
  BY <1>7, <1>10, <1>11, <1>12, <1>14, Zenon

\* The processes ps have read the configuration v.
LEMMA ReadEffect ==
  ASSUME ProcType, NEW ps, NEW v \in Values, \A p \in ps : p \in Pids /\ proc[p] # NoProc,
         proc' = [p \in Pids |-> IF p \in ps THEN [proc[p] EXCEPT !.conf = v] ELSE proc[p]]
  PROVE  /\ ProcType'
         /\ \A d : Running(d)' = Running(d) /\ Living(d)' = Living(d) /\ Young(d)' = Young(d)
         /\ \A p \in Pids : /\ proc'[p] = NoProc <=> proc[p] = NoProc
                            /\ p \in ps => proc'[p].conf = v
                            /\ p \notin ps => proc'[p] = proc[p]
<1>1. ASSUME NEW p \in Pids
      PROVE  /\ proc'[p] = IF p \in ps THEN [proc[p] EXCEPT !.conf = v] ELSE proc[p]
             /\ proc'[p] \in Proc \cup {NoProc}
             /\ proc'[p] = NoProc <=> proc[p] = NoProc
             /\ p \in ps => proc'[p].conf = v
             /\ p \notin ps => proc'[p] = proc[p]
             /\ proc'[p].svc = proc[p].svc /\ proc'[p].young = proc[p].young
             /\ proc'[p].dying = proc[p].dying
  <2>1. proc'[p] = IF p \in ps THEN [proc[p] EXCEPT !.conf = v] ELSE proc[p]
    OBVIOUS
  <2>2. CASE p \in ps
    <3>1. proc[p] \in Proc /\ proc[p] # NoProc
      BY <2>2 DEF ProcType
    <3>2. PICK x \in Proc : x = proc[p]
      BY <3>1
    <3>3. /\ [x EXCEPT !.conf = v] \in Proc /\ [x EXCEPT !.conf = v].svc = x.svc
          /\ [x EXCEPT !.conf = v].conf = v /\ [x EXCEPT !.conf = v].dying = x.dying
          /\ [x EXCEPT !.conf = v].young = x.young
      BY ProcFields, ZenonT(60)
    <3>4. proc'[p] = [x EXCEPT !.conf = v]
      BY <2>1, <2>2, <3>2
    <3>5. proc'[p] # NoProc
      <4>1. NoProc \notin Proc
        BY ProcFields, Zenon
      <4>q. QED
        BY <3>3, <3>4, <4>1, Zenon
    <3>q. QED
      BY <2>1, <2>2, <3>1, <3>2, <3>3, <3>4, <3>5, Zenon
  <2>3. CASE p \notin ps
    BY <2>1, <2>3, Zenon DEF ProcType
  <2>q. QED
    BY <2>2, <2>3
<1>2. ProcType'
  <2>1. proc' = [p \in Pids |-> proc'[p]]
    OBVIOUS
  <2>q. QED
    BY <1>1, <2>1 DEF ProcType
<1>3. ASSUME NEW d
      PROVE  Running(d)' = Running(d) /\ Living(d)' = Living(d) /\ Young(d)' = Young(d)
  <2>1. Running(d)' = Running(d) /\ Running(d) \subseteq Pids
    BY <1>1, Zenon DEF Running
  <2>2. Living(d)' = Living(d)
    BY <1>1, <2>1, ZenonT(60) DEF Living
  <2>3. \A p \in Running(d) : proc'[p].young = proc[p].young
    BY <1>1, <2>1, Zenon
  <2>4. Young(d)' = Young(d)
    BY <2>1, <2>3, Zenon DEF Young
  <2>q. QED
    BY <2>1, <2>2, <2>4
<1>q. QED
  BY <1>1, <1>2, <1>3
-----------------------------------------------------------------------------
(* The types, and what is left for each process to do. *)

Planned(r) == IF r = rcbootup THEN Plan(todo[r], view[r], TRUE) ELSE Plan(todo[r], view[r], FALSE)

TypeInv == /\ TypeOK
           /\ \A r \in Processes : Planned(r) /\ (pc[r] # "run" => todo[r] = <<>>)
-----------------------------------------------------------------------------
(* Who is alone. *)

SoloInv == /\ \A r, u \in Processes : Busy(r) /\ solo[r] /\ Busy(u) => u = r
           /\ calm => \A r \in Processes : Busy(r) => solo[r]
\* The first step is gone, and nothing else of the processes changes.
LEMMA ThenEffect ==
  ASSUME TypeInv, NEW r \in Processes, pc[r] = "run", todo[r] # <<>>, Then(r, <<>>)
  PROVE  /\ todo' \in [Processes -> Seq(Steps)] /\ todo'[r] = Tail(todo[r])
         /\ \A t \in Processes : t # r => todo'[t] = todo[t]
         /\ pc' = pc /\ view' = view
         /\ \A t \in Processes : Planned(t)' /\ (pc'[t] # "run" => todo'[t] = <<>>)
<1>1. todo \in [Processes -> Seq(Steps)]
  BY DEF TypeInv, TypeOK, Steps
<1>2. PICK q \in Seq(Steps) : q = Tail(todo[r])
  BY <1>1, TailOf
<1>3. <<>> \o q = q
  BY Joins
<1>4. todo' = [todo EXCEPT ![r] = q]
  BY <1>2, <1>3 DEF Then
<1>5. pc' = pc /\ view' = view
  BY DEF Then
<1>6. /\ todo' \in [Processes -> Seq(Steps)] /\ todo'[r] = q
      /\ \A t \in Processes : t # r => todo'[t] = todo[t]
  BY <1>1, <1>4
<1>7. ASSUME NEW t \in Processes PROVE Planned(t)' /\ (pc'[t] # "run" => todo'[t] = <<>>)
  <2>1. Planned(t) /\ (pc[t] # "run" => todo[t] = <<>>)
    BY DEF TypeInv
  <2>2. CASE t = r
    <3>1. \A b : Plan(todo[r], view[r], b) => Plan(q, view[r], b)
      BY <1>2, TailPlan
    <3>q. QED
      BY <2>1, <2>2, <3>1, <1>5, <1>6, Zenon DEF Planned
  <2>3. CASE t # r
    BY <2>1, <2>3, <1>5, <1>6, Zenon DEF Planned
  <2>q. QED
    BY <2>2, <2>3
<1>q. QED
  BY <1>2, <1>5, <1>6, <1>7

\* Check puts steps before the rest.
LEMMA MoreEffect ==
  ASSUME TypeInv, NEW r \in Processes, Check(r)
  PROVE  \E m \in Seq(Steps) :
           /\ m = IF pidfile["bgpd"] = NoPid THEN <<<<"pgrep", "bgpd">>, <<"start", "bgpd">>>>
                  ELSE <<<<"reload", "bgpd">>>>
           /\ todo' \in [Processes -> Seq(Steps)] /\ todo'[r] = m \o Tail(todo[r])
           /\ \A t \in Processes : t # r => todo'[t] = todo[t]
           /\ pc' = pc /\ view' = view
           /\ \A t \in Processes : Planned(t)' /\ (pc'[t] # "run" => todo'[t] = <<>>)
<1>1. todo \in [Processes -> Seq(Steps)] /\ TypeOK
  BY DEF TypeInv, TypeOK, Steps
<1>2. Do(r, "check", "bgpd")
  BY DEF Check
<1>3. pc[r] = "run" /\ todo[r] # <<>> /\ Head(todo[r]) = <<"check", "bgpd">>
  BY <1>1, <1>2, DoIs
<1>4. PICK q \in Seq(Steps) : q = Tail(todo[r])
  BY <1>1, <1>3, TailOf
<1>5. PICK m : m = IF pidfile["bgpd"] = NoPid THEN <<<<"pgrep", "bgpd">>, <<"start", "bgpd">>>>
                   ELSE <<<<"reload", "bgpd">>>>
  OBVIOUS
<1>6. m \in Seq(Steps)
  <2>1. <<"pgrep", "bgpd">> \in Steps /\ <<"start", "bgpd">> \in Steps /\ <<"reload", "bgpd">> \in Steps
    BY LateNames DEF Late
  <2>q. QED
    BY <1>5, <2>1
<1>7. PICK n \in Seq(Steps) : n = m \o q
  BY <1>6, ConcatProperties
<1>8. Then(r, m) /\ pc' = pc /\ view' = view
  BY <1>5 DEF Check, Then
<1>9. todo' = [todo EXCEPT ![r] = n]
  BY <1>4, <1>7, <1>8 DEF Then
<1>10. /\ todo' \in [Processes -> Seq(Steps)] /\ todo'[r] = n
       /\ \A t \in Processes : t # r => todo'[t] = todo[t]
  BY <1>1, <1>9
<1>11. ASSUME NEW t \in Processes PROVE Planned(t)' /\ (pc'[t] # "run" => todo'[t] = <<>>)
  <2>1. Planned(t) /\ (pc[t] # "run" => todo[t] = <<>>)
    BY DEF TypeInv
  <2>2. CASE t = r
    <3>1. ASSUME NEW b, Plan(todo[r], view[r], b) PROVE Plan(n, view[r], b)
      <4>1. Plan(m \o Tail(todo[r]), view[r], b)
        <5>1. m = <<<<"pgrep", "bgpd">>, <<"start", "bgpd">>>> \/ m = <<<<"reload", "bgpd">>>>
          BY <1>5, Zenon
        <5>q. QED
          BY <1>3, <5>1, <3>1, CheckPlan, Zenon
      <4>q. QED
        BY <4>1, <1>4, <1>7
    <3>q. QED
      BY <2>1, <2>2, <3>1, <1>3, <1>8, <1>10, Zenon DEF Planned
  <2>3. CASE t # r
    BY <2>1, <2>3, <1>8, <1>10, Zenon DEF Planned
  <2>q. QED
    BY <2>2, <2>3
<1>q. QED
  BY <1>4, <1>5, <1>6, <1>7, <1>8, <1>10, <1>11, Zenon

\* Only what is enabled is started with arguments.
LEMMA HeadNames ==
  ASSUME TypeInv, NEW r \in Processes, todo[r] # <<>>, NEW a, NEW d, Head(todo[r]) = <<a, d>>
  PROVE  a \in Names(view[r], d) \/ <<a, d>> \in Late
<1>1. todo[r] \in Seq(Steps) /\ Planned(r)
  BY DEF TypeInv, TypeOK, Steps
<1>2. PICK b : Plan(todo[r], view[r], b)
  BY <1>1 DEF Planned
<1>3. 1 \in DOMAIN todo[r] /\ todo[r][1] = <<a, d>>
  BY <1>1, TailOf
<1>4. todo[r][1][1] \in Names(view[r], todo[r][1][2]) \/ todo[r][1] \in Late
  BY <1>2, <1>3 DEF Plan
<1>q. QED
  BY <1>3, <1>4

LEMMA EnabledNames ==
  /\ \A c : \A d \in Dhcpds \cup {"dnsmasq", "dhcrelay", "dyndns"} :
       Names(c, d) \cap {"start", "write", "sleep"} # {} => Enabled(c, d)
  /\ \A c : "write" \notin Names(c, "dnsmasq") /\ "write" \notin Names(c, "dhcrelay")
<1>1. ASSUME NEW c, NEW d \in Dhcpds
      PROVE  Names(c, d) \cap {"start", "write", "sleep"} # {} => Enabled(c, d)
  BY DEF Names, NamesIf
<1>2. "dnsmasq" \notin Dhcpds /\ "dhcrelay" \notin Dhcpds /\ "dyndns" \notin Dhcpds
  BY Kinds
<1>3. ASSUME NEW c
      PROVE  /\ Names(c, "dnsmasq") \cap {"start", "write", "sleep"} # {} => Enabled(c, "dnsmasq")
             /\ Names(c, "dhcrelay") \cap {"start", "write", "sleep"} # {} => Enabled(c, "dhcrelay")
             /\ Names(c, "dyndns") \cap {"start", "write", "sleep"} # {} => Enabled(c, "dyndns")
             /\ "write" \notin Names(c, "dnsmasq") /\ "write" \notin Names(c, "dhcrelay")
  BY <1>2 DEF Names, NamesIf
<1>q. QED
  BY <1>1, <1>3

LEMMA StartEffect ==
  ASSUME TypeInv, NEW r \in Processes, NEW d \in Daemons, Start(r, d)
  PROVE  /\ Starts(r, d) => Given(r, d) \in Values
         /\ IF Starts(r, d)
            THEN \E p \in Pids : /\ proc[p] = NoProc
                                 /\ proc' = [proc EXCEPT ![p] = NewProc(d, Given(r, d))]
            ELSE proc' = proc
<1>1. TypeOK /\ view[r] \in Config
  BY DEF TypeInv, TypeOK
<1>2. Do(r, "start", d)
  BY DEF Start
<1>3. todo[r] # <<>> /\ Head(todo[r]) = <<"start", d>>
  BY <1>1, <1>2, DoIs
<1>4. ASSUME Starts(r, d) PROVE Given(r, d) \in Values
  <2>1. CASE d \in ByFile
    BY <1>1, <1>4, <2>1 DEF Starts, Given, TypeOK
  <2>2. CASE d \notin ByFile
    <3>1. d \in {"dnsmasq", "dhcrelay"}
      BY <2>2, Kinds DEF ByFile
    <3>2. "start" \in Names(view[r], d)
      <4>1. <<"start", d>> \notin Late
        BY <3>1 DEF Late
      <4>q. QED
        BY <1>3, <4>1, HeadNames
    <3>3. Enabled(view[r], d)
      <4>1. Names(view[r], d) \cap {"start", "write", "sleep"} # {}
        BY <3>2
      <4>2. d \in Dhcpds \cup {"dnsmasq", "dhcrelay", "dyndns"}
        BY <3>1
      <4>q. QED
        BY <4>1, <4>2, EnabledNames, Zenon
    <3>4. view[r][d] \in Values \cup {Off, Gone}
      BY <1>1, NamedSetting
    <3>q. QED
      BY <2>2, <3>3, <3>4 DEF Given, Enabled
  <2>q. QED
    BY <2>1, <2>2
<1>5. ASSUME Starts(r, d)
      PROVE  \E p \in Pids : proc[p] = NoProc /\ proc' = [proc EXCEPT ![p] = NewProc(d, Given(r, d))]
  <2> DEFINE free == {p \in Pids : proc[p] = NoProc}
             p == CHOOSE q \in free : \A o \in free : q <= o
  <2>1. free # {} /\ proc' = [proc EXCEPT ![p] = NewProc(d, Given(r, d))]
    BY <1>5, Zenon DEF Start, NewProc
  <2>2. p \in free
    BY <2>1, FreePid
  <2>q. QED
    BY <2>1, <2>2
<1>6. ~Starts(r, d) => proc' = proc
  BY Zenon DEF Start
<1>q. QED
  BY <1>4, <1>5, <1>6

LEMMA TypeRest ==
  ASSUME TypeInv, NEW r \in Processes, NEW a, NEW d, Do(r, a, d), Then(r, <<>>),
         etc' \in [ByFile -> Values \cup {Off}], ProcType',
         pidfile' \in [ByPid \cup {"bgpd"} -> Pids \cup {NoPid, Off}], filter' \in Config,
         calm' \in BOOLEAN
  PROVE  TypeInv'
<1>1. pc[r] = "run" /\ todo[r] # <<>>
  BY DoIs DEF TypeInv
<1>2. /\ todo' \in [Processes -> Seq(Steps)]
      /\ \A t \in Processes : Planned(t)' /\ (pc'[t] # "run" => todo'[t] = <<>>)
  BY <1>1, ThenEffect
<1>3. /\ stored' \in Config /\ pc' \in [Processes -> {"idle", "edit", "run", "end"}]
      /\ view' \in [Processes -> Config] /\ covered' \in [Processes -> SUBSET Daemons]
      /\ solo' \in [Processes -> BOOLEAN] /\ given' \in 0..MaxGiven
  BY DEF Then, TypeInv, TypeOK
<1>4. TypeOK'
  BY <1>2, <1>3, Zenon DEF TypeOK, ProcType, Steps
<1>q. QED
  BY <1>2, <1>4, Zenon DEF TypeInv

LEMMA TypeKill ==
  ASSUME TypeInv, NEW r \in Processes, NEW d, Pkill(r, d) \/ PidKill(r, d)
  PROVE  TypeInv'
<1>t. ProcType /\ TypeOK
  BY DEF TypeInv, TypeOK, ProcType
<1>1. CASE Pkill(r, d)
  <2>1. \A p \in Running(d) : p \in Pids /\ proc[p] # NoProc
    BY DEF Running
  <2>2. ProcType'
    BY <1>t, <1>1, <2>1, KillEffect, Zenon DEF Pkill
  <2>q. QED
    BY <1>t, <1>1, <2>2, TypeRest DEF Pkill, TypeOK
<1>2. CASE PidKill(r, d)
  <2>1. \A p \in {pidfile[d]} \cap {p \in Pids : proc[p] # NoProc} : p \in Pids /\ proc[p] # NoProc
    OBVIOUS
  <2>2. ProcType'
    BY <1>t, <1>2, <2>1, KillEffect, Zenon DEF PidKill
  <2>3. calm' \in BOOLEAN
    BY <1>t, <1>2, Zenon DEF PidKill
  <2>4. Do(r, "pidkill", d) /\ Then(r, <<>>) /\ UNCHANGED <<etc, pidfile, filter>>
    BY <1>2 DEF PidKill
  <2>q. QED
    BY <1>t, <2>2, <2>3, <2>4, TypeRest DEF TypeOK
<1>q. QED
  BY <1>1, <1>2

LEMMA TypeStart ==
  ASSUME TypeInv, NEW r \in Processes, NEW d, Start(r, d)
  PROVE  TypeInv'
<1>t. ProcType /\ TypeOK
  BY DEF TypeInv, TypeOK, ProcType
<1>1. Do(r, "start", d) /\ Then(r, <<>>) /\ UNCHANGED <<etc, pidfile, filter, calm>>
  BY DEF Start
<1>2. d \in Daemons
  BY <1>t, <1>1, DoIs
<1>3. CASE Starts(r, d)
  <2>1. PICK p \in Pids : proc[p] = NoProc /\ proc' = [proc EXCEPT ![p] = NewProc(d, Given(r, d))]
    BY <1>2, <1>3, StartEffect, Zenon
  <2>2. ProcType'
    BY <1>t, <1>2, <1>3, <2>1, StartEffect, NewEffect, Zenon
  <2>q. QED
    BY <1>t, <1>1, <2>2, TypeRest DEF TypeOK
<1>4. CASE ~Starts(r, d)
  <2>1. ProcType'
    BY <1>t, <1>2, <1>4, StartEffect, Zenon DEF ProcType
  <2>q. QED
    BY <1>t, <1>1, <2>1, TypeRest DEF TypeOK
<1>q. QED
  BY <1>3, <1>4

LEMMA TypeStep ==
  ASSUME TypeInv, NEW r \in Processes, Step(r)
  PROVE  TypeInv'
<1>t. ProcType /\ TypeOK
  BY DEF TypeInv, TypeOK, ProcType
<1>1. ASSUME NEW d, Unlink(r, d) PROVE TypeInv'
  <2>1. Do(r, "unlink", d) /\ Then(r, <<>>) /\ UNCHANGED <<etc, proc, filter, calm>>
    BY <1>1 DEF Unlink
  <2>2. pidfile' \in [ByPid \cup {"bgpd"} -> Pids \cup {NoPid, Off}]
    BY <1>t, <1>1 DEF Unlink, TypeOK
  <2>q. QED
    BY <1>t, <2>1, <2>2, TypeRest DEF TypeOK, ProcType
<1>2. ASSUME NEW d, Sleep(r, d) PROVE TypeInv'
  BY <1>t, <1>2, TypeRest DEF Sleep, TypeOK, ProcType, system
<1>3. ASSUME NEW d, Write(r, d) PROVE TypeInv'
  <2>1. Do(r, "write", d) /\ Then(r, <<>>) /\ UNCHANGED <<proc, pidfile, filter, calm>>
    BY <1>3 DEF Write
  <2>2. d \in Daemons /\ view[r] \in Config
    BY <1>t, <2>1, DoIs DEF TypeOK
  <2>3. view[r][d] \in Values \cup {Off, Gone}
    BY <2>2, NamedSetting
  <2>4. PICK v \in Values \cup {Off} : v = IF Enabled(view[r], d) THEN view[r][d] ELSE Off
    BY <2>3 DEF Enabled
  <2>5. etc' = [etc EXCEPT ![d] = v]
    BY <1>3, <2>4 DEF Write
  <2>6. etc' \in [ByFile -> Values \cup {Off}]
    BY <1>t, <2>5 DEF TypeOK
  <2>q. QED
    BY <1>t, <2>1, <2>6, TypeRest DEF TypeOK, ProcType
<1>4. ASSUME NEW d, Filter(r, d) PROVE TypeInv'
  <2>1. Do(r, "filter", d) /\ Then(r, <<>>) /\ UNCHANGED <<etc, proc, pidfile, calm>>
    BY <1>4 DEF Filter
  <2>2. filter' \in Config
    BY <1>t, <1>4 DEF Filter, TypeOK
  <2>q. QED
    BY <1>t, <2>1, <2>2, TypeRest DEF TypeOK, ProcType
<1>5. ASSUME Check(r) PROVE TypeInv'
  <2>1. /\ todo' \in [Processes -> Seq(Steps)]
        /\ \A t \in Processes : Planned(t)' /\ (pc'[t] # "run" => todo'[t] = <<>>)
    BY <1>5, MoreEffect, Zenon
  <2>2. UNCHANGED <<stored, pc, view, covered, solo, given, etc, proc, pidfile, filter, calm>>
    BY <1>5 DEF Check, Then, system
  <2>3. TypeOK'
    BY <1>t, <2>1, <2>2 DEF TypeOK, Steps
  <2>q. QED
    BY <2>1, <2>3, Zenon DEF TypeInv
<1>6. ASSUME Pgrep(r) PROVE TypeInv'
  <2>1. Do(r, "pgrep", "bgpd") /\ Then(r, <<>>) /\ UNCHANGED <<etc, proc, filter, calm>>
    BY <1>6 DEF Pgrep
  <2>2. PICK p \in Pids \cup {Off} : pidfile' = [pidfile EXCEPT !["bgpd"] = p]
    BY <1>6 DEF Pgrep
  <2>3. pidfile' \in [ByPid \cup {"bgpd"} -> Pids \cup {NoPid, Off}]
    BY <1>t, <2>2 DEF TypeOK
  <2>q. QED
    BY <1>t, <2>1, <2>3, TypeRest DEF TypeOK, ProcType
<1>7. ASSUME Reload(r) PROVE TypeInv'
  <2>1. Do(r, "reload", "bgpd") /\ Then(r, <<>>) /\ UNCHANGED <<etc, pidfile, filter, calm>>
    BY <1>7 DEF Reload
  <2>2. CASE etc["bgpd"] \in Refused \cup {Off}
    <3>1. proc' = proc
      BY <1>7, <2>2, Zenon DEF Reload
    <3>q. QED
      BY <1>t, <2>1, <3>1, TypeRest DEF TypeOK, ProcType
  <2>3. CASE etc["bgpd"] \notin Refused \cup {Off}
    <3>1. proc' = [p \in Pids |-> IF p \in Living("bgpd")
                                  THEN [proc[p] EXCEPT !.conf = etc["bgpd"]] ELSE proc[p]]
      BY <1>7, <2>3, Zenon DEF Reload
    <3>2. etc["bgpd"] \in Values
      <4>1. "bgpd" \in ByFile
        BY DEF ByFile
      <4>q. QED
        BY <1>t, <2>3, <4>1 DEF TypeOK
    <3>3. \A p \in Living("bgpd") : p \in Pids /\ proc[p] # NoProc
      BY DEF Living, Running
    <3>4. ProcType'
      BY <1>t, <3>1, <3>2, <3>3, ReadEffect, Zenon
    <3>q. QED
      BY <1>t, <2>1, <3>4, TypeRest DEF TypeOK
  <2>q. QED
    BY <2>2, <2>3
<1>8. ASSUME Return(r) \/ End(r) PROVE TypeInv'
  <2>1. Nothing \in Config
    BY ServicesAssumption DEF Nothing, Config
  <2>2. /\ UNCHANGED <<stored, etc, proc, pidfile, filter, todo, calm, given>>
        /\ \A t \in Processes : t # r => pc'[t] = pc[t] /\ view'[t] = view[t]
        /\ todo[r] = <<>>
    BY <1>t, <1>8 DEF TypeOK, TypeInv, Return, End, system
  <2>3. TypeOK'
    <3>1. pc' \in [Processes -> {"idle", "edit", "run", "end"}]
      BY <1>t, <1>8 DEF TypeOK, Return, End
    <3>3. view' \in [Processes -> Config]
      BY <1>t, <1>8, <2>1 DEF TypeOK, Return, End
    <3>2. covered' \in [Processes -> SUBSET Daemons] /\ solo' \in [Processes -> BOOLEAN]
      BY <1>t, <1>8 DEF TypeOK, Return, End
    <3>q. QED
      BY <1>t, <2>2, <3>1, <3>2, <3>3 DEF TypeOK
  <2>4. ASSUME NEW t \in Processes PROVE Planned(t)' /\ (pc'[t] # "run" => todo'[t] = <<>>)
    <3>1. Planned(t) /\ (pc[t] # "run" => todo[t] = <<>>)
      BY DEF TypeInv
    <3>2. CASE t # r
      BY <2>2, <3>1, <3>2, Zenon DEF Planned
    <3>3. CASE t = r
      <4>1. Whole(<<>>, view'[r], TRUE, {}) /\ Whole(<<>>, view'[r], FALSE, {})
        BY NoneWhole
      <4>2. Plan(<<>>, view'[r], TRUE) /\ Plan(<<>>, view'[r], FALSE)
        BY <4>1, WholePlan
      <4>q. QED
        BY <2>2, <3>3, <4>2, Zenon DEF Planned
    <3>q. QED
      BY <3>2, <3>3
  <2>q. QED
    BY <2>3, <2>4, Zenon DEF TypeInv
<1>q. QED
  BY <1>1, <1>2, <1>3, <1>4, <1>5, <1>6, <1>7, <1>8, TypeKill, TypeStart DEF Step

\* A request stores its change, and goes on to the function of the daemon.
LEMMA SaveEffect ==
  ASSUME TypeInv, NEW r \in Requests, Save(r)
  PROVE  \E d \in Daemons, c \in Config :
           /\ view'[r] = c /\ stored' = c /\ \A e \in Daemons : e # d => c[e] = view[r][e]
           /\ todo'[r] = Function(c, d) /\ Whole(todo'[r], c, FALSE, Group(d))
           /\ covered'[r] = {d} \cup (IF d \in Dhcpds \cup {"dnsmasq"} THEN Dhcpds ELSE {})
           /\ view' \in [Processes -> Config] /\ todo' \in [Processes -> Seq(Steps)]
           /\ covered' \in [Processes -> SUBSET Daemons]
           /\ \A t \in Processes : t # r => /\ view'[t] = view[t] /\ todo'[t] = todo[t]
                                           /\ covered'[t] = covered[t]
<1>t. TypeOK /\ r \in Processes
  BY DEF TypeInv, Processes
<1>1. PICK d \in Daemons : \E v \in Changes[d] :
        /\ view' = [view EXCEPT ![r][d] = v]
        /\ stored' = view'[r]
        /\ todo' = [todo EXCEPT ![r] = Function(stored', d)]
        /\ covered' = [covered EXCEPT ![r] = {d} \cup (IF d \in Dhcpds \cup {"dnsmasq"} THEN Dhcpds ELSE {})]
  BY DEF Save
<1>2. PICK v \in Changes[d] :
        /\ view' = [view EXCEPT ![r][d] = v]
        /\ stored' = view'[r]
        /\ todo' = [todo EXCEPT ![r] = Function(stored', d)]
        /\ covered' = [covered EXCEPT ![r] = {d} \cup (IF d \in Dhcpds \cup {"dnsmasq"} THEN Dhcpds ELSE {})]
  BY <1>1
<1>3. v \in Values \cup {Off, Gone} /\ (d \notin TableDhcpds => v # Gone)
  <2>1. v \in Setting(d) /\ Gone \notin Values \cup {Off}
    BY ServicesAssumption
  <2>q. QED
    BY <2>1 DEF Setting
<1>4. PICK c \in Config : c = view[r]
  BY <1>t DEF TypeOK
<1>5. PICK e : e = [c EXCEPT ![d] = v]
  OBVIOUS
<1>6. e \in Config /\ \A x \in Daemons : x # d => e[x] = c[x]
  BY <1>3, <1>5 DEF Config
<1>7. view' = [view EXCEPT ![r] = e]
  BY <1>2, <1>4, <1>5, Zenon
<1>8. /\ view' \in [Processes -> Config] /\ view'[r] = e /\ stored' = e
      /\ \A t \in Processes : t # r => view'[t] = view[t]
  BY <1>t, <1>2, <1>6, <1>7 DEF TypeOK
<1>9. PICK q : q = Function(e, d)
  OBVIOUS
<1>10. q \in Seq(Steps) /\ Whole(q, e, FALSE, Group(d))
  <2>1. Whole(q, e, FALSE, Group(d))
    BY <1>6, <1>9, FunctionWhole
  <2>q. QED
    BY <2>1 DEF Whole
<1>11. /\ todo' \in [Processes -> Seq(Steps)] /\ todo'[r] = q
       /\ \A t \in Processes : t # r => todo'[t] = todo[t]
  BY <1>t, <1>2, <1>8, <1>9, <1>10 DEF TypeOK, Steps
<1>12. PICK ds : ds = {d} \cup (IF d \in Dhcpds \cup {"dnsmasq"} THEN Dhcpds ELSE {})
  OBVIOUS
<1>13. /\ covered' \in [Processes -> SUBSET Daemons] /\ covered'[r] = ds
       /\ \A t \in Processes : t # r => covered'[t] = covered[t]
  <2>1. ds \in SUBSET Daemons
    BY <1>12, Kinds
  <2>2. covered' = [covered EXCEPT ![r] = ds]
    BY <1>2, <1>12
  <2>q. QED
    BY <1>t, <2>1, <2>2 DEF TypeOK
<1>14. \A x \in Daemons : x # d => e[x] = view[r][x]
  BY <1>4, <1>6
<1>15. covered'[r] = {d} \cup (IF d \in Dhcpds \cup {"dnsmasq"} THEN Dhcpds ELSE {})
  BY <1>12, <1>13
<1>16. todo'[r] = Function(e, d) /\ Whole(todo'[r], e, FALSE, Group(d))
  BY <1>9, <1>10, <1>11
<1>17. \A t \in Processes : t # r => /\ view'[t] = view[t] /\ todo'[t] = todo[t]
                                    /\ covered'[t] = covered[t]
  BY <1>8, <1>11, <1>13
<1>q. QED
  BY <1>6, <1>8, <1>11, <1>13, <1>14, <1>15, <1>16, <1>17, Zenon

LEMMA TypeSave ==
  ASSUME TypeInv, NEW r \in Requests, Save(r)
  PROVE  TypeInv'
<1>t. TypeOK /\ r \in Processes /\ r # rcbootup
  BY ServicesAssumption DEF TypeInv, Processes
<1>1. PICK d \in Daemons, c \in Config :
        /\ view'[r] = c /\ stored' = c /\ Whole(todo'[r], c, FALSE, Group(d))
        /\ view' \in [Processes -> Config] /\ todo' \in [Processes -> Seq(Steps)]
        /\ covered' \in [Processes -> SUBSET Daemons]
        /\ \A t \in Processes : t # r => view'[t] = view[t] /\ todo'[t] = todo[t]
  BY SaveEffect, Zenon
<1>2. Plan(todo'[r], c, FALSE)
  BY <1>1, WholePlan
<1>3. /\ pc' \in [Processes -> {"idle", "edit", "run", "end"}] /\ pc'[r] = "run"
      /\ \A t \in Processes : t # r => pc'[t] = pc[t]
  BY <1>t DEF Save, TypeOK
<1>4. TypeOK'
  BY <1>t, <1>1, <1>3 DEF TypeOK, Save, system, Steps
<1>5. ASSUME NEW t \in Processes PROVE Planned(t)' /\ (pc'[t] # "run" => todo'[t] = <<>>)
  <2>1. Planned(t) /\ (pc[t] # "run" => todo[t] = <<>>)
    BY DEF TypeInv
  <2>2. CASE t # r
    BY <2>1, <2>2, <1>1, <1>3, Zenon DEF Planned
  <2>3. CASE t = r
    BY <2>3, <1>t, <1>1, <1>2, <1>3, Zenon DEF Planned
  <2>q. QED
    BY <2>2, <2>3
<1>q. QED
  BY <1>4, <1>5, Zenon DEF TypeInv

LEMMA TypeLoad ==
  ASSUME TypeInv, NEW r \in Requests, Load(r)
  PROVE  TypeInv'
<1>t. TypeOK /\ r \in Processes
  BY DEF TypeInv, Processes
<1>1. /\ todo' = todo /\ todo[r] = <<>>
      /\ \A t \in Processes : t # r => pc'[t] = pc[t] /\ view'[t] = view[t]
  BY <1>t DEF TypeInv, TypeOK, Load
<1>2. given' \in 0..MaxGiven
  BY <1>t, ServicesAssumption DEF TypeOK, Load
<1>3. solo' \in [Processes -> BOOLEAN]
  <2>1. \A t : (IF t = r THEN \A u \in Processes \ {r} : ~Busy(u) ELSE ~Busy(t)) \in BOOLEAN
    OBVIOUS
  <2>q. QED
    BY <2>1, Zenon DEF Load
<1>4. calm' \in BOOLEAN
  BY <1>t, <1>3, Zenon DEF Load, TypeOK
<1>5. TypeOK'
  BY <1>t, <1>2, <1>3, <1>4 DEF TypeOK, Load, system
<1>6. ASSUME NEW t \in Processes PROVE Planned(t)' /\ (pc'[t] # "run" => todo'[t] = <<>>)
  <2>1. Planned(t) /\ (pc[t] # "run" => todo[t] = <<>>)
    BY DEF TypeInv
  <2>2. CASE t # r
    BY <2>1, <2>2, <1>1, Zenon DEF Planned
  <2>3. CASE t = r
    <3>1. Whole(<<>>, view'[r], TRUE, {}) /\ Whole(<<>>, view'[r], FALSE, {})
      BY NoneWhole
    <3>2. Plan(<<>>, view'[r], TRUE) /\ Plan(<<>>, view'[r], FALSE)
      BY <3>1, WholePlan
    <3>q. QED
      BY <1>1, <2>3, <3>2, Zenon DEF Planned
  <2>q. QED
    BY <2>2, <2>3
<1>q. QED
  BY <1>5, <1>6, Zenon DEF TypeInv

LEMMA TypeBoot ==
  ASSUME stored \in Config, given \in 0..MaxGiven
  PROVE  /\ Init => TypeInv
         /\ Reboot => TypeInv'
<1>1. PICK c \in Config : c = stored
  OBVIOUS
<1>2. Whole(BootSteps(c), c, TRUE, Daemons \ {"relayd"})
  BY BootWhole
<1>3. PICK q : q = BootSteps(c)
  OBVIOUS
<1>4. q \in Seq(Steps) /\ Plan(q, c, TRUE)
  <2>1. Plan(q, c, TRUE)
    BY <1>2, <1>3, WholePlan
  <2>q. QED
    BY <2>1 DEF Plan
<1>5. Nothing \in Config
  BY ServicesAssumption DEF Nothing, Config
<1>6. \A x : Plan(<<>>, x, FALSE)
  <2>1. \A x : Whole(<<>>, x, FALSE, {})
    BY NoneWhole
  <2>q. QED
    BY <2>1, WholePlan
<1>7. rcbootup \in Processes /\ <<>> \in Seq(Steps) /\ Daemons \ {"relayd"} \in SUBSET Daemons
      /\ {} \in SUBSET Daemons
  BY DEF Processes
<1>8. ASSUME Init PROVE TypeInv
  <2>1. view = [r \in Processes |-> IF r = rcbootup THEN c ELSE Nothing]
    BY <1>1, <1>8 DEF Init
  <2>2. todo = [r \in Processes |-> IF r = rcbootup THEN q ELSE <<>>]
    BY <1>1, <1>3, <1>8 DEF Init
  <2>3. TypeOK
    BY <1>1, <1>4, <1>5, <1>7, <1>8, <2>1, <2>2 DEF Init, TypeOK, Steps
  <2>4. ASSUME NEW r \in Processes PROVE Planned(r) /\ (pc[r] # "run" => todo[r] = <<>>)
    BY <1>4, <1>6, <1>8, <2>1, <2>2 DEF Init, Planned
  <2>q. QED
    BY <2>3, <2>4 DEF TypeInv
<1>9. ASSUME Reboot PROVE TypeInv'
  <2>1. view' = [r \in Processes |-> IF r = rcbootup THEN c ELSE Nothing]
    BY <1>1, <1>9 DEF Reboot
  <2>2. todo' = [r \in Processes |-> IF r = rcbootup THEN q ELSE <<>>]
    BY <1>1, <1>3, <1>9 DEF Reboot
  <2>3. TypeOK'
    BY <1>1, <1>4, <1>5, <1>7, <1>9, <2>1, <2>2 DEF Reboot, TypeOK, Steps
  <2>4. ASSUME NEW r \in Processes PROVE Planned(r)' /\ (pc'[r] # "run" => todo'[r] = <<>>)
    BY <1>4, <1>6, <1>9, <2>1, <2>2 DEF Reboot, Planned
  <2>q. QED
    BY <2>3, <2>4 DEF TypeInv
<1>q. QED
  BY <1>8, <1>9

LEMMA PlanOf ==
  ASSUME TypeInv, NEW r \in Processes
  PROVE  \E b \in BOOLEAN : b = (r = rcbootup) /\ Plan(todo[r], view[r], b)
<1>1. Planned(r)
  BY DEF TypeInv
<1>2. CASE r = rcbootup
  BY <1>1, <1>2, Zenon DEF Planned
<1>3. CASE r # rcbootup
  BY <1>1, <1>3, Zenon DEF Planned
<1>q. QED
  BY <1>2, <1>3

LEMMA Links ==
  ASSUME NEW c
  PROVE  /\ \A d \in Dhcpds, b \in BOOLEAN : Enabled(c, d) =>
              Link(c, b, "pkill", "write", d) /\ Link(c, b, "write", "start", d)
         /\ Enabled(c, "dnsmasq") => /\ Link(c, TRUE, "pkill", "start", "dnsmasq")
                                     /\ Link(c, FALSE, "pkill", "sleep", "dnsmasq")
                                     /\ Link(c, FALSE, "sleep", "start", "dnsmasq")
         /\ \A b \in BOOLEAN : Link(c, b, "pidkill", "unlink", "dhcrelay")
         /\ Enabled(c, "dhcrelay") => /\ Link(c, TRUE, "unlink", "start", "dhcrelay")
                                      /\ Link(c, FALSE, "unlink", "sleep", "dhcrelay")
                                      /\ Link(c, FALSE, "sleep", "start", "dhcrelay")
         /\ Enabled(c, "dyndns") => /\ Link(c, TRUE, "pidkill", "write", "dyndns")
                                    /\ Link(c, FALSE, "pidkill", "sleep", "dyndns")
                                    /\ Link(c, FALSE, "sleep", "write", "dyndns")
                                    /\ \A b \in BOOLEAN : Link(c, b, "write", "start", "dyndns")
         /\ \A b \in BOOLEAN : /\ Link(c, b, "write", "check", "bgpd")
                               /\ Link(c, b, "pgrep", "start", "bgpd")
                               /\ Link(c, b, "write", "pkill", "relayd")
                               /\ Link(c, b, "pkill", "start", "relayd")
<1>1. \A d \in Dhcpds, b \in BOOLEAN : Enabled(c, d) =>
              Link(c, b, "pkill", "write", d) /\ Link(c, b, "write", "start", d)
  BY DEF Link
<1>2. Enabled(c, "dnsmasq") => /\ Link(c, TRUE, "pkill", "start", "dnsmasq")
                               /\ Link(c, FALSE, "pkill", "sleep", "dnsmasq")
                               /\ Link(c, FALSE, "sleep", "start", "dnsmasq")
  BY DEF Link
<1>3. \A b \in BOOLEAN : Link(c, b, "pidkill", "unlink", "dhcrelay")
  BY DEF Link
<1>4. Enabled(c, "dhcrelay") => /\ Link(c, TRUE, "unlink", "start", "dhcrelay")
                                /\ Link(c, FALSE, "unlink", "sleep", "dhcrelay")
                                /\ Link(c, FALSE, "sleep", "start", "dhcrelay")
  BY DEF Link
<1>5. Enabled(c, "dyndns") => /\ Link(c, TRUE, "pidkill", "write", "dyndns")
                              /\ Link(c, FALSE, "pidkill", "sleep", "dyndns")
                              /\ Link(c, FALSE, "sleep", "write", "dyndns")
                              /\ \A b \in BOOLEAN : Link(c, b, "write", "start", "dyndns")
  BY DEF Link
<1>6. \A b \in BOOLEAN : /\ Link(c, b, "write", "check", "bgpd")
                         /\ Link(c, b, "pgrep", "start", "bgpd")
                         /\ Link(c, b, "write", "pkill", "relayd")
                         /\ Link(c, b, "pkill", "start", "relayd")
  BY DEF Link
<1>q. QED
  BY <1>1, <1>2, <1>3, <1>4, <1>5, <1>6

\* What is written is what something comes after.
LEMMA WriteFollowed ==
  ASSUME TypeInv, NEW r \in Processes, NEW d, Do(r, "write", d)
  PROVE  Tail(todo[r]) # <<>>
<1>1. /\ todo[r] # <<>> /\ todo[r] \in Seq(Steps) /\ Head(todo[r]) = <<"write", d>>
      /\ "write" \in StepNames /\ d \in Daemons
  BY DoIs DEF TypeInv
<1>2. PICK b \in BOOLEAN : b = (r = rcbootup) /\ Plan(todo[r], view[r], b)
  BY PlanOf
<1>3. \E y \in StepNames : Link(view[r], b, "write", y, d)
  <2>1. "write" \in Names(view[r], d)
    <3>1. <<"write", d>> \notin Late
      BY DEF Late
    <3>q. QED
      BY <1>1, <3>1, HeadNames
  <2>2. d \in Dhcpds \cup {"dnsmasq", "dhcrelay", "dyndns"} => Enabled(view[r], d)
    <3>1. Names(view[r], d) \cap {"start", "write", "sleep"} # {}
      BY <2>1
    <3>q. QED
      BY <3>1, EnabledNames, Zenon
  <2>3. d \notin {"dnsmasq", "dhcrelay"}
    BY <2>1, EnabledNames
  <2>4. {"start", "check", "pkill"} \subseteq StepNames
    BY DEF StepNames
  <2>5. CASE d \in Dhcpds
    BY <2>2, <2>4, <2>5, Links
  <2>6. CASE d = "dyndns"
    BY <2>2, <2>4, <2>6, Links
  <2>7. CASE d = "bgpd"
    BY <2>4, <2>7, Links
  <2>8. CASE d = "relayd"
    BY <2>4, <2>8, Links
  <2>q. QED
    BY <1>1, <2>3, <2>5, <2>6, <2>7, <2>8, Kinds
<1>4. PICK y \in StepNames : Link(view[r], b, "write", y, d)
  BY <1>3
<1>5. Has(Tail(todo[r]), y, d)
  BY <1>1, <1>2, <1>4, TailHas
<1>q. QED
  BY <1>5 DEF Has

\* A write that fails leaves the rest of a function, too.
LEMMA TypeFails ==
  ASSUME TypeInv, NEW r \in Processes, NEW d, WriteFails(r, d)
  PROVE  TypeInv'
<1>1. /\ todo \in [Processes -> Seq(Steps)] /\ TypeOK
      /\ \A t \in Processes : Planned(t) /\ (pc[t] # "run" => todo[t] = <<>>)
  BY DEF TypeInv, TypeOK, Steps
<1>2. Do(r, "write", d)
  BY DEF WriteFails
<1>3. pc[r] = "run" /\ todo[r] # <<>>
  BY <1>1, <1>2, DoIs
<1>4. PICK q \in Seq(Steps) : q = Tail(todo[r])
  BY <1>1, <1>3, TailOf
<1>5. q # <<>>
  BY <1>2, <1>4, WriteFollowed
<1>6. PICK n \in Seq(Steps) : n = IF d = "relayd" THEN q ELSE Tail(q)
  BY <1>5, TailOf
<1>7. todo' = [todo EXCEPT ![r] = n]
  BY <1>4, <1>6 DEF WriteFails
<1>8. /\ todo' \in [Processes -> Seq(Steps)] /\ todo'[r] = n
      /\ \A t \in Processes : t # r => todo'[t] = todo[t]
  BY <1>1, <1>7
<1>9. UNCHANGED <<stored, etc, proc, pidfile, filter, pc, view, covered, given>> /\ calm' = FALSE
  BY DEF WriteFails, system
<1>10. ASSUME NEW b, Plan(todo[r], view[r], b) PROVE Plan(n, view[r], b)
  <2>1. Plan(q, view[r], b)
    BY <1>3, <1>4, <1>10, TailPlan
  <2>2. Plan(Tail(q), view[r], b)
    BY <1>5, <2>1, TailPlan
  <2>q. QED
    BY <1>6, <2>1, <2>2
<1>11. ASSUME NEW t \in Processes PROVE Planned(t)' /\ (pc'[t] # "run" => todo'[t] = <<>>)
  <2>1. CASE t = r
    BY <1>1, <1>3, <1>8, <1>9, <1>10, <2>1, Zenon DEF Planned
  <2>2. CASE t # r
    BY <1>1, <1>8, <1>9, <2>2, Zenon DEF Planned
  <2>q. QED
    BY <2>1, <2>2
<1>12. solo' \in [Processes -> BOOLEAN]
  <2>1. \A t : (~Busy(t)) \in BOOLEAN
    OBVIOUS
  <2>q. QED
    BY <2>1, Zenon DEF WriteFails
<1>13. TypeOK'
  BY <1>1, <1>8, <1>9, <1>12 DEF TypeOK, Steps
<1>q. QED
  BY <1>11, <1>13, Zenon DEF TypeInv

LEMMA TypeItself ==
  ASSUME TypeInv, NEW p \in Pids, WritePid(p) \/ Exit(p) \/ Crash(p)
  PROVE  TypeInv'
<1>t. ProcType /\ TypeOK
  BY DEF TypeInv, TypeOK, ProcType
<1>1. ASSUME TypeOK', UNCHANGED <<pc, view, todo>> PROVE TypeInv'
  <2>1. \A r \in Processes : Planned(r)' /\ (pc'[r] # "run" => todo'[r] = <<>>)
    BY <1>1, Zenon DEF TypeInv, Planned
  <2>q. QED
    BY <1>1, <2>1, Zenon DEF TypeInv
<1>2. CASE WritePid(p)
  <2>1. proc[p] # NoProc /\ proc' = [proc EXCEPT ![p].young = FALSE]
    BY <1>2 DEF WritePid
  <2>2. ProcType'
    BY <1>t, <2>1, GrownEffect, Zenon
  <2>3. PICK d : d = proc[p].svc
    OBVIOUS
  <2>4. pidfile' = [pidfile EXCEPT ![d] = p]
    BY <1>2, <2>3 DEF WritePid
  <2>5. pidfile' \in [ByPid \cup {"bgpd"} -> Pids \cup {NoPid, Off}]
    BY <1>t, <2>4 DEF TypeOK
  <2>6. UNCHANGED <<stored, etc, filter, pc, view, todo, covered, solo, calm, given>>
    BY <1>2 DEF WritePid
  <2>q. QED
    BY <1>t, <1>1, <2>2, <2>5, <2>6 DEF TypeOK, ProcType
<1>3. CASE Exit(p)
  <2>1. ProcType'
    BY <1>t, <1>3, GoneEffect, Zenon DEF Exit
  <2>2. pidfile' = [pidfile EXCEPT !["dyndns"] = NoPid] \/ pidfile' = pidfile
    BY <1>3 DEF Exit
  <2>3. pidfile' \in [ByPid \cup {"bgpd"} -> Pids \cup {NoPid, Off}]
    BY <1>t, <2>2 DEF TypeOK
  <2>4. UNCHANGED <<stored, etc, filter, pc, view, todo, covered, solo, calm, given>>
    BY <1>3 DEF Exit
  <2>q. QED
    BY <1>t, <1>1, <2>1, <2>3, <2>4 DEF TypeOK, ProcType
<1>4. CASE Crash(p)
  <2>1. ProcType'
    BY <1>t, <1>4, GoneEffect, Zenon DEF Crash
  <2>2. given' \in 0..MaxGiven
    BY <1>t, <1>4, ServicesAssumption DEF TypeOK, Crash
  <2>3. solo' \in [Processes -> BOOLEAN]
    <3>1. \A r : (~Busy(r)) \in BOOLEAN
      OBVIOUS
    <3>q. QED
      BY <1>4, <3>1, Zenon DEF Crash
  <2>4. UNCHANGED <<stored, etc, pidfile, filter, pc, view, todo, covered>> /\ calm' = FALSE
    BY <1>4 DEF Crash
  <2>q. QED
    BY <1>t, <1>1, <2>1, <2>2, <2>3, <2>4 DEF TypeOK, ProcType
<1>q. QED
  BY <1>2, <1>3, <1>4

\* Every variable keeps its type: what is started has a configuration, and what is left to do
\* is the rest of a function, in its order.
THEOREM ServicesTypeCorrect == Spec => []TypeOK
<1>1. Init => TypeInv
  <2>1. Init => stored \in Config /\ given \in 0..MaxGiven
    BY ServicesAssumption DEF Init
  <2>q. QED
    BY <2>1, TypeBoot
<1>2. ASSUME TypeInv, [Next]_vars PROVE TypeInv'
  <2>1. ASSUME NEW r \in Processes, Step(r) PROVE TypeInv'
    BY <1>2, <2>1, TypeStep
  <2>2. ASSUME NEW r \in Requests, Load(r) \/ Save(r) PROVE TypeInv'
    BY <1>2, <2>2, TypeLoad, TypeSave
  <2>3. ASSUME NEW p \in Pids, WritePid(p) \/ Exit(p) \/ Crash(p) PROVE TypeInv'
    BY <1>2, <2>3, TypeItself
  <2>6. ASSUME NEW r \in Processes, NEW d \in Target(r), WriteFails(r, d) PROVE TypeInv'
    BY <1>2, <2>6, TypeFails
  <2>4. ASSUME Reboot PROVE TypeInv'
    BY <1>2, <2>4, TypeBoot DEF TypeInv, TypeOK
  <2>5. ASSUME UNCHANGED vars PROVE TypeInv'
    BY <1>2, <2>5 DEF vars, system, TypeInv, TypeOK, Planned
  <2>q. QED
    BY <1>2, <2>1, <2>2, <2>3, <2>4, <2>5, <2>6, Zenon DEF Next
<1>3. TypeInv => TypeOK
  BY DEF TypeInv
<1>q. QED
  BY <1>1, <1>2, <1>3, PTL DEF Spec
-----------------------------------------------------------------------------
(* The daemons, as the processes have left them. *)

\* Daemons that are stopped and started again.
Servers == Dhcpds \cup {"dnsmasq"} \cup ByPid
Ends(r, d) == Has(todo[r], First(d), d)
Starting(r, d) == Has(todo[r], "start", d)

Single(d) == \A p, o \in Living(d) : p = o

\* What the steps ahead of r say of d: before r has told it to stop, one of it runs at most
\* if r has to find it by its pid file, and none in the boot; between the stop and the start
\* none that is not dying; afterwards, and if r is not about it, it serves.
ServerState(r, d) ==
    IF Ends(r, d)
    THEN /\ d \in ByPid => Single(d) /\ (r = rcbootup => Living(d) = {})
         /\ d \in Exclusive /\ r = rcbootup => Running(d) = {}
    ELSE IF Starting(r, d)
    THEN /\ Living(d) = {}
         /\ d \in ByFile /\ ~Has(todo[r], "write", d) => etc[d] = view[r][d]
         /\ d \in Exclusive /\ (r = rcbootup \/ ~Has(todo[r], "sleep", d)) => Running(d) = {}
    ELSE view[r][d] # Gone => Serves(d, view[r])

Written(c, d) == IF Enabled(c, d) THEN c[d] ELSE Off

\* bgpd is started once, and then told to read its file.
BgpdState(r) ==
    /\ Starting(r, "bgpd") => /\ Running("bgpd") = {}
                              /\ ~Has(todo[r], "pgrep", "bgpd") => pidfile["bgpd"] # NoPid
    /\ ~Has(todo[r], "write", "bgpd") =>
      IF Has(todo[r], "check", "bgpd") \/ Has(todo[r], "reload", "bgpd") \/ Starting(r, "bgpd")
      THEN etc["bgpd"] = Written(view[r], "bgpd")
      ELSE \A p \in Living("bgpd") : Enabled(view[r], "bgpd") /\ view[r]["bgpd"] \notin Refused =>
                                       proc[p].conf = view[r]["bgpd"]

RelaydState(r) ==
    ~Has(todo[r], "write", "relayd") =>
      IF Has(todo[r], "pkill", "relayd") \/ Starting(r, "relayd")
      THEN /\ etc["relayd"] = Written(view[r], "relayd")
           /\ ~Has(todo[r], "pkill", "relayd") => Living("relayd") = {}
      ELSE \A p \in Living("relayd") : proc[p].conf = view[r]["relayd"]

State(r, d) == IF d \in Servers THEN ServerState(r, d)
               ELSE IF d = "bgpd" THEN BgpdState(r) ELSE RelaydState(r)

Settled == /\ \A d \in Servers : stored[d] # Gone => Serves(d, stored)
           /\ \A p \in Living("relayd") : proc[p].conf = stored["relayd"]
           /\ \A p \in Living("bgpd") : Enabled(stored, "bgpd") /\ stored["bgpd"] \notin Refused =>
                                          proc[p].conf = stored["bgpd"]

\* The pid files: a daemon that has had the time to is in its file; the file of ez-ipupdate
\* goes with it; the one of dhcrelay stays until the next step takes it away.
Tracked == \A d \in ByPid : \A p \in Living(d) : p \in Young(d) \/ pidfile[d] = p
OwnDyndns == \A p \in Pids : pidfile["dyndns"] = p => p \in Running("dyndns")
OwnDhcrelay == \A p \in Pids : pidfile["dhcrelay"] = p =>
    \/ p \in Living("dhcrelay")
    \/ /\ p \in Running("dhcrelay") \/ proc[p] = NoProc
       /\ \E r \in Processes : Do(r, "unlink", "dhcrelay")
BgpdFile == pidfile["bgpd"] = NoPid => Running("bgpd") = {}

\* As long as no calls have met, no daemon has crashed, and none was missed.
CalmInv == calm =>
    /\ \A r \in Processes : Busy(r) => view[r] = stored /\ \A d \in Daemons : State(r, d)
    /\ (\A r \in Processes : ~Busy(r)) => Settled
    /\ Tracked /\ OwnDyndns /\ OwnDhcrelay /\ BgpdFile

\* rc.bootup misses nothing, for nothing runs yet.
BootCalm == Busy(rcbootup) /\ solo[rcbootup] => calm /\ filter = view[rcbootup]

\* A request that is alone, for a dhcpd or dnsmasq.
Filters(r) == \E d \in Daemons : Has(todo[r], "filter", d)
Alone(r) == \A d \in covered[r] \cap (Dhcpds \cup {"dnsmasq"}) :
              /\ \A e \in ByPid \cup {"bgpd", "relayd"} : ~About(todo[r], e)
              /\ ServerState(r, d)
              /\ Filters(r) \/ filter = view[r]
LoneInv == \A r \in Requests : solo[r] /\ pc[r] \in {"run", "end"} => Alone(r)

\* A step leaves the daemon d alone, but for processes that have exited; and the process r
\* has the same steps ahead of it for d.
Same(d) == /\ Running(d)' \subseteq Running(d) /\ Living(d)' = Living(d)
           /\ \A p \in Living(d) : proc'[p].conf = proc[p].conf
           /\ d \in ByFile => etc'[d] = etc[d]
           /\ d = "bgpd" => pidfile'["bgpd"] = pidfile["bgpd"]
Left(r, d) == /\ view'[r] = view[r]
              /\ \A a \in StepNames \ {"unlink", "filter"} :
                   Has(todo'[r], a, d) <=> Has(todo[r], a, d)

LEMMA ServesFrame ==
  ASSUME NEW d, NEW c, Living(d)' = Living(d), \A p \in Living(d) : proc'[p].conf = proc[p].conf,
         Serves(d, c)
  PROVE  Serves(d, c)'
<1>1. CASE Enabled(c, d) /\ c[d] \notin Refused
  <2>1. PICK p \in Pids : Living(d) = {p} /\ proc[p].conf = c[d]
    BY <1>1, Zenon DEF Serves
  <2>2. Living(d)' = {p} /\ proc'[p].conf = c[d]
    BY <2>1
  <2>q. QED
    BY <1>1, <2>2, Zenon DEF Serves, Enabled
<1>2. CASE ~(Enabled(c, d) /\ c[d] \notin Refused)
  <2>1. Living(d)' = {}
    BY <1>2, Zenon DEF Serves
  <2>q. QED
    BY <1>2, <2>1, Zenon DEF Serves, Enabled
<1>q. QED
  BY <1>1, <1>2

LEMMA Named ==
  /\ {First(d) : d \in Daemons} \subseteq {"pkill", "pidkill", "write"}
  /\ {"pkill", "pidkill", "write", "start", "sleep", "check", "reload", "pgrep"}
       \subseteq StepNames \ {"unlink", "filter"}
BY DEF First, StepNames

LEMMA ServerFrame ==
  ASSUME NEW r \in Processes, NEW d \in Servers, d \in Daemons, Same(d), Left(r, d), ServerState(r, d)
  PROVE  ServerState(r, d)'
<1>1. /\ Ends(r, d)' <=> Ends(r, d)
      /\ Starting(r, d)' <=> Starting(r, d)
      /\ Has(todo'[r], "write", d) <=> Has(todo[r], "write", d)
      /\ Has(todo'[r], "sleep", d) <=> Has(todo[r], "sleep", d)
  <2>1. First(d) \in StepNames \ {"unlink", "filter"}
    BY Named
  <2>2. {"start", "write", "sleep"} \subseteq StepNames \ {"unlink", "filter"}
    BY Named
  <2>q. QED
    BY <2>1, <2>2, Zenon DEF Left, Ends, Starting
<1>2. view'[r] = view[r]
  BY DEF Left
<1>3. CASE Ends(r, d)
  <2>1. /\ d \in ByPid => Single(d)' /\ (r = rcbootup => Living(d)' = {})
        /\ d \in Exclusive /\ r = rcbootup => Running(d)' = {}
    BY <1>3, Zenon DEF ServerState, Same, Single
  <2>q. QED
    BY <1>1, <1>3, <2>1, Zenon DEF ServerState
<1>4. CASE ~Ends(r, d) /\ Starting(r, d)
  <2>1. /\ Living(d)' = {}
        /\ d \in ByFile /\ ~Has(todo'[r], "write", d) => etc'[d] = view'[r][d]
        /\ d \in Exclusive /\ (r = rcbootup \/ ~Has(todo'[r], "sleep", d)) => Running(d)' = {}
    BY <1>1, <1>2, <1>4, Zenon DEF ServerState, Same
  <2>q. QED
    BY <1>1, <1>4, <2>1, Zenon DEF ServerState
<1>5. CASE ~Ends(r, d) /\ ~Starting(r, d)
  <2>1. PICK c : c = view[r]
    OBVIOUS
  <2>2. c[d] # Gone => Serves(d, c)'
    BY <1>5, <2>1, ServesFrame, Zenon DEF ServerState, Same
  <2>3. view'[r][d] # Gone => Serves(d, view[r])'
    BY <1>2, <2>1, <2>2, Zenon DEF Serves, Enabled
  <2>q. QED
    BY <1>1, <1>5, <2>3, Zenon DEF ServerState
<1>q. QED
  BY <1>3, <1>4, <1>5

LEMMA StateFrame ==
  ASSUME NEW r \in Processes, NEW d \in Daemons, Same(d), Left(r, d), State(r, d)
  PROVE  State(r, d)'
<1>1. CASE d \in Servers
  BY <1>1, ServerFrame, Zenon DEF State
<1>2. \A a \in {"write", "check", "reload", "pgrep", "start", "pkill"} :
        Has(todo'[r], a, d) <=> Has(todo[r], a, d)
  BY Named, Zenon DEF Left
<1>3. /\ Has(todo'[r], "write", d) <=> Has(todo[r], "write", d)
      /\ Has(todo'[r], "check", d) <=> Has(todo[r], "check", d)
      /\ Has(todo'[r], "reload", d) <=> Has(todo[r], "reload", d)
      /\ Has(todo'[r], "pgrep", d) <=> Has(todo[r], "pgrep", d)
      /\ Has(todo'[r], "pkill", d) <=> Has(todo[r], "pkill", d)
      /\ Has(todo'[r], "start", d) <=> Has(todo[r], "start", d)
  BY <1>2
<1>4. view'[r] = view[r] /\ Living(d)' = Living(d) /\ Running(d)' \subseteq Running(d)
      /\ \A p \in Living(d) : proc'[p].conf = proc[p].conf
  BY DEF Left, Same
<1>5. CASE d \notin Servers /\ d = "bgpd"
  <2>1. etc'["bgpd"] = etc["bgpd"] /\ pidfile'["bgpd"] = pidfile["bgpd"]
    BY <1>5 DEF Same, ByFile
  <2>2. BgpdState(r)
    BY <1>5 DEF State
  <2>3. BgpdState(r)'
    BY <2>1, <2>2, <1>3, <1>4, <1>5, Zenon DEF BgpdState, Starting, Written, Enabled
  <2>q. QED
    BY <1>5, <2>3 DEF State
<1>6. CASE d \notin Servers /\ d # "bgpd"
  <2>1. d = "relayd"
    BY <1>6, Kinds DEF Servers, ByPid
  <2>2. etc'["relayd"] = etc["relayd"]
    BY <2>1 DEF Same, ByFile
  <2>3. RelaydState(r)
    BY <1>6 DEF State
  <2>4. RelaydState(r)'
    BY <2>1, <2>2, <2>3, <1>3, <1>4, Zenon DEF RelaydState, Starting, Written, Enabled
  <2>q. QED
    BY <1>6, <2>4 DEF State
<1>q. QED
  BY <1>1, <1>5, <1>6
-----------------------------------------------------------------------------
LEMMA SoloNext ==
  ASSUME TypeInv, SoloInv, [Next]_vars
  PROVE  SoloInv'
<1>t. /\ pc \in [Processes -> {"idle", "edit", "run", "end"}]
      /\ solo \in [Processes -> BOOLEAN] /\ Requests \subseteq Processes /\ rcbootup \in Processes
  BY DEF TypeInv, TypeOK, Processes
<1>1. ASSUME \A t \in Processes : Busy(t)' <=> Busy(t), solo' = solo, calm' => calm PROVE SoloInv'
  BY <1>1, Zenon DEF SoloInv
<1>2. ASSUME pc' = pc, solo' = solo, calm' => calm PROVE SoloInv'
  <2>1. \A t \in Processes : Busy(t)' <=> Busy(t)
    BY <1>2 DEF Busy
  <2>q. QED
    BY <1>1, <1>2, <2>1, Zenon
<1>3. ASSUME NEW r \in Processes, Step(r) PROVE SoloInv'
  <2>1. CASE \E d \in Target(r) : \/ Pkill(r, d) \/ PidKill(r, d) \/ Unlink(r, d) \/ Sleep(r, d)
                                  \/ Write(r, d) \/ Start(r, d) \/ Filter(r, d)
    <3>1. pc' = pc /\ solo' = solo /\ (calm' => calm)
      <4>1. ASSUME NEW d, Pkill(r, d) \/ Unlink(r, d) \/ Sleep(r, d) PROVE pc' = pc /\ solo' = solo /\ calm' = calm
        BY <4>1, Zenon DEF Pkill, Unlink, Sleep, Then
      <4>2. ASSUME NEW d, Write(r, d) \/ Start(r, d) \/ Filter(r, d) PROVE pc' = pc /\ solo' = solo /\ calm' = calm
        BY <4>2, Zenon DEF Write, Start, Filter, Then
      <4>3. ASSUME NEW d, PidKill(r, d) PROVE pc' = pc /\ solo' = solo /\ (calm' => calm)
        BY <4>3, Zenon DEF PidKill, Then
      <4>q. QED
        BY <2>1, <4>1, <4>2, <4>3, Zenon
    <3>q. QED
      BY <1>2, <3>1
  <2>2. CASE Check(r) \/ Pgrep(r) \/ Reload(r)
    BY <1>2, <2>2, Zenon DEF Check, Pgrep, Reload, Then
  <2>3. CASE Return(r)
    <3>1. \A t \in Processes : Busy(t)' <=> Busy(t)
      BY <1>t, <2>3 DEF Busy, Return
    <3>q. QED
      BY <1>1, <2>3, <3>1 DEF Return
  <2>4. CASE End(r)
    <3>1. \A t \in Processes : (Busy(t)' => Busy(t) /\ t # r) /\ (t # r => solo'[t] = solo[t])
      BY <1>t, <2>4 DEF Busy, End
    <3>2. calm' = calm
      BY <2>4 DEF End
    <3>q. QED
      BY <3>1, <3>2, Zenon DEF SoloInv
  <2>q. QED
    BY <1>3, <2>1, <2>2, <2>3, <2>4, Zenon DEF Step
<1>4. ASSUME NEW r \in Requests, Load(r) PROVE SoloInv'
  <2>1. r \in Processes /\ ~Busy(r)
    BY <1>t, <1>4 DEF Load, Busy
  <2>2. \A t \in Processes : Busy(t)' <=> Busy(t) \/ t = r
    BY <1>t, <1>4 DEF Load, Busy
  <2>3. solo' = [t \in Processes |-> IF t = r THEN \A u \in Processes \ {r} : ~Busy(u) ELSE ~Busy(t)]
    BY <1>4 DEF Load
  <2>4. /\ solo'[r] <=> \A u \in Processes \ {r} : ~Busy(u)
        /\ \A t \in Processes : t # r => (solo'[t] <=> ~Busy(t))
    BY <2>1, <2>3, Zenon
  <2>5. calm' => solo'[r]
    BY <1>4, Zenon DEF Load
  <2>q. QED
    BY <2>1, <2>2, <2>4, <2>5, Zenon DEF SoloInv
<1>5. ASSUME NEW r \in Requests, Save(r) PROVE SoloInv'
  <2>1. \A t \in Processes : Busy(t)' <=> Busy(t)
    BY <1>t, <1>5 DEF Busy, Save
  <2>q. QED
    BY <1>1, <1>5, <2>1 DEF Save
<1>6. ASSUME NEW p \in Pids, WritePid(p) \/ Exit(p) PROVE SoloInv'
  BY <1>2, <1>6 DEF WritePid, Exit
<1>7. ASSUME NEW p \in Pids, Crash(p) PROVE SoloInv'
  <2>1. calm' = FALSE /\ solo' = [t \in Processes |-> ~Busy(t)] /\ pc' = pc
    BY <1>7 DEF Crash
  <2>2. \A t \in Processes : (Busy(t)' <=> Busy(t)) /\ (solo'[t] <=> ~Busy(t))
    BY <2>1, Zenon DEF Busy
  <2>q. QED
    BY <2>1, <2>2, Zenon DEF SoloInv
<1>8. ASSUME Reboot PROVE SoloInv'
  <2>1. \A t \in Processes : solo'[t] /\ (Busy(t)' <=> t = rcbootup)
    BY <1>8 DEF Reboot, Busy
  <2>q. QED
    BY <2>1, Zenon DEF SoloInv
<1>9. ASSUME UNCHANGED vars PROVE SoloInv'
  BY <1>2, <1>9 DEF vars
<1>10. ASSUME NEW r \in Processes, NEW d \in Target(r), WriteFails(r, d) PROVE SoloInv'
  <2>1. calm' = FALSE /\ solo' = [t \in Processes |-> ~Busy(t)] /\ pc' = pc
    BY <1>10 DEF WriteFails
  <2>2. \A t \in Processes : (Busy(t)' <=> Busy(t)) /\ (solo'[t] <=> ~Busy(t))
    BY <2>1, Zenon DEF Busy
  <2>q. QED
    BY <2>1, <2>2, Zenon DEF SoloInv
<1>q. QED
  BY <1>3, <1>4, <1>5, <1>6, <1>7, <1>8, <1>9, <1>10, Zenon DEF Next
-----------------------------------------------------------------------------
(* What the steps ahead say. *)

LEMMA LinkHas ==
  ASSUME NEW c, NEW b, NEW q, Plan(q, c, b), NEW x \in StepNames, NEW y \in StepNames,
         NEW d \in Daemons, Link(c, b, x, y, d), Has(q, x, d)
  PROVE  Has(q, y, d)
<1>1. PICK i \in DOMAIN q : q[i] = <<x, d>>
  BY DEF Has
<1>2. Followed(q, c, b) /\ Link(c, b, x, y, d)
  BY DEF Plan
<1>3. \A j \in DOMAIN q : q[j] = <<x, d>> => j + 1 \in DOMAIN q /\ q[j + 1] = <<y, d>>
  BY <1>2, Zenon DEF Followed
<1>4. i + 1 \in DOMAIN q /\ q[i + 1] = <<y, d>>
  BY <1>1, <1>3
<1>q. QED
  BY <1>4, Zenon DEF Has

LEMMA HasNames ==
  ASSUME NEW c, NEW b, NEW q, Plan(q, c, b), NEW a, NEW d, Has(q, a, d)
  PROVE  (a \in Names(c, d) \/ <<a, d>> \in Late) /\ a \in StepNames /\ d \in Daemons
<1>1. PICK i \in DOMAIN q : q[i] = <<a, d>>
  BY DEF Has
<1>2. q[i][1] \in Names(c, q[i][2]) \/ q[i] \in Late
  BY <1>1 DEF Plan
<1>3. q[i] \in Steps
  BY <1>1 DEF Plan
<1>q. QED
  BY <1>1, <1>2, <1>3 DEF Steps

\* Whoever is to be stopped, or to have its file written, is started then if it is enabled.
LEMMA Chain ==
  ASSUME NEW c, NEW b \in BOOLEAN, NEW q, Plan(q, c, b), NEW d \in Servers, Enabled(c, d)
  PROVE  /\ Has(q, First(d), d) => Has(q, "start", d)
         /\ Has(q, "write", d) => Has(q, "start", d)
         /\ ~b /\ d = "dnsmasq" /\ Has(q, "sleep", d) => Has(q, "start", d)
         /\ d = "dhcrelay" /\ Has(q, "unlink", d) => Has(q, "start", d)
<1>n. {"pkill", "pidkill", "unlink", "write", "start", "sleep", "check", "reload", "pgrep"} \subseteq StepNames
  BY DEF StepNames
<1>d. d \in Daemons /\ b \in {TRUE, FALSE}
  BY Kinds DEF Servers, ByPid
<1>h. \A x, y \in StepNames : Link(c, b, x, y, d) /\ Has(q, x, d) => Has(q, y, d)
  BY <1>d, LinkHas
<1>1. CASE d \in Dhcpds
  <2>1. First(d) = "pkill" /\ d \notin {"dnsmasq", "dhcrelay", "dyndns"}
    BY <1>1, Kinds DEF First
  <2>2. Link(c, b, "pkill", "write", d) /\ Link(c, b, "write", "start", d)
    BY <1>1, Links
  <2>3. "pkill" \in StepNames /\ "write" \in StepNames /\ "start" \in StepNames
    BY <1>n
  <2>4. (Has(q, "pkill", d) => Has(q, "write", d)) /\ (Has(q, "write", d) => Has(q, "start", d))
    BY <1>h, <2>2, <2>3, Zenon
  <2>q. QED
    BY <2>1, <2>4
<1>2. CASE d = "dnsmasq"
  <2>1. First(d) = "pkill" /\ d \notin {"dhcrelay", "dyndns"}
    BY <1>2 DEF First
  <2>2. "pkill" \in StepNames /\ "sleep" \in StepNames /\ "start" \in StepNames
    BY <1>n
  <2>3. ~Has(q, "write", d)
    <3>1. Names(c, d) \cap {"write"} = {} /\ <<"write", d>> \notin Late
      BY <1>2, Kinds, EnabledNames DEF Late
    <3>q. QED
      BY <3>1, HasNames
  <2>4. CASE b = TRUE
    <3>1. Link(c, b, "pkill", "start", d)
      BY <1>2, <2>4, Links, Zenon
    <3>2. Has(q, "pkill", d) => Has(q, "start", d)
      BY <1>h, <2>2, <3>1, Zenon
    <3>q. QED
      BY <2>1, <2>3, <2>4, <3>2
  <2>5. CASE b = FALSE
    <3>1. Link(c, b, "pkill", "sleep", d) /\ Link(c, b, "sleep", "start", d)
      BY <1>2, <2>5, Links, Zenon
    <3>2. (Has(q, "pkill", d) => Has(q, "sleep", d)) /\ (Has(q, "sleep", d) => Has(q, "start", d))
      BY <1>h, <2>2, <3>1, Zenon
    <3>q. QED
      BY <2>1, <2>3, <2>5, <3>2
  <2>q. QED
    BY <1>d, <2>4, <2>5
<1>3. CASE d = "dhcrelay"
  <2>1. First(d) = "pidkill" /\ d \notin {"dnsmasq", "dyndns"}
    BY <1>3, Kinds DEF First, ByPid
  <2>2. "pidkill" \in StepNames /\ "unlink" \in StepNames /\ "sleep" \in StepNames /\ "start" \in StepNames
    BY <1>n
  <2>3. ~Has(q, "write", d)
    <3>1. Names(c, d) \cap {"write"} = {} /\ <<"write", d>> \notin Late
      BY <1>3, Kinds, EnabledNames DEF Late
    <3>q. QED
      BY <3>1, HasNames
  <2>l. Link(c, b, "pidkill", "unlink", d)
    BY <1>3, Links
  <2>k. Has(q, "pidkill", d) => Has(q, "unlink", d)
    BY <1>h, <2>2, <2>l, Zenon
  <2>4. CASE b = TRUE
    <3>1. Link(c, b, "unlink", "start", d)
      BY <1>3, <2>4, Links, Zenon
    <3>2. Has(q, "unlink", d) => Has(q, "start", d)
      BY <1>h, <2>2, <3>1, Zenon
    <3>q. QED
      BY <2>1, <2>3, <2>k, <3>2
  <2>5. CASE b = FALSE
    <3>1. Link(c, b, "unlink", "sleep", d) /\ Link(c, b, "sleep", "start", d)
      BY <1>3, <2>5, Links, Zenon
    <3>2. (Has(q, "unlink", d) => Has(q, "sleep", d)) /\ (Has(q, "sleep", d) => Has(q, "start", d))
      BY <1>h, <2>2, <3>1, Zenon
    <3>q. QED
      BY <2>1, <2>3, <2>k, <3>2
  <2>q. QED
    BY <1>d, <2>4, <2>5
<1>4. CASE d = "dyndns"
  <2>1. First(d) = "pidkill" /\ d \notin {"dnsmasq", "dhcrelay"}
    BY <1>4, Kinds DEF First, ByPid
  <2>2. "pidkill" \in StepNames /\ "write" \in StepNames /\ "sleep" \in StepNames /\ "start" \in StepNames
    BY <1>n
  <2>l. Link(c, b, "write", "start", d)
    BY <1>4, Links
  <2>k. Has(q, "write", d) => Has(q, "start", d)
    BY <1>h, <2>2, <2>l, Zenon
  <2>4. CASE b = TRUE
    <3>1. Link(c, b, "pidkill", "write", d)
      BY <1>4, <2>4, Links, Zenon
    <3>2. Has(q, "pidkill", d) => Has(q, "write", d)
      BY <1>h, <2>2, <3>1, Zenon
    <3>q. QED
      BY <2>1, <2>k, <3>2
  <2>5. CASE b = FALSE
    <3>1. Link(c, b, "pidkill", "sleep", d) /\ Link(c, b, "sleep", "write", d)
      BY <1>4, <2>5, Links, Zenon
    <3>2. (Has(q, "pidkill", d) => Has(q, "sleep", d)) /\ (Has(q, "sleep", d) => Has(q, "write", d))
      BY <1>h, <2>2, <3>1, Zenon
    <3>q. QED
      BY <2>1, <2>k, <3>2
  <2>q. QED
    BY <1>d, <2>4, <2>5
<1>q. QED
  BY <1>1, <1>2, <1>3, <1>4 DEF Servers, ByPid

LEMMA HeadChain ==
  ASSUME NEW c, NEW b \in BOOLEAN, NEW q, Plan(q, c, b), q # <<>>, NEW d \in Servers, Enabled(c, d),
         Head(q) = <<First(d), d>>
  PROVE  /\ Has(Tail(q), "start", d)
         /\ d \in ByFile => Has(Tail(q), "write", d)
         /\ ~b /\ d = "dnsmasq" => Has(Tail(q), "sleep", d)
<1>n. {"pkill", "pidkill", "unlink", "write", "start", "sleep", "check", "reload", "pgrep"} \subseteq StepNames
  BY DEF StepNames
<1>d. d \in Daemons /\ b \in {TRUE, FALSE}
  BY Kinds DEF Servers, ByPid
<1>p. PICK t : t = Tail(q) /\ Plan(t, c, b)
  BY TailPlan
<1>h. \A x, y \in StepNames : Link(c, b, x, y, d) /\ Head(q) = <<x, d>> => Has(t, y, d)
  BY <1>d, <1>p, TailHas, Zenon
<1>k. /\ Has(t, "write", d) => Has(t, "start", d)
      /\ ~b /\ d = "dnsmasq" /\ Has(t, "sleep", d) => Has(t, "start", d)
      /\ d = "dhcrelay" /\ Has(t, "unlink", d) => Has(t, "start", d)
  BY <1>p, Chain, Zenon
<1>1. CASE d \in Dhcpds
  <2>1. First(d) = "pkill" /\ d # "dnsmasq"
    BY <1>1, Kinds DEF First
  <2>2. Link(c, b, "pkill", "write", d) /\ "pkill" \in StepNames /\ "write" \in StepNames
    BY <1>1, <1>n, Links
  <2>3. Has(t, "write", d)
    BY <1>h, <2>1, <2>2, Zenon
  <2>q. QED
    BY <1>p, <1>k, <2>1, <2>3, Zenon
<1>2. CASE d = "dnsmasq"
  <2>1. First(d) = "pkill" /\ d \notin ByFile
    BY <1>2, Kinds DEF First, ByFile
  <2>2. "pkill" \in StepNames /\ "sleep" \in StepNames /\ "start" \in StepNames
    BY <1>n
  <2>3. CASE b = TRUE
    <3>1. Link(c, b, "pkill", "start", d)
      BY <1>2, <2>3, Links, Zenon
    <3>2. Has(t, "start", d)
      BY <1>h, <2>1, <2>2, <3>1, Zenon
    <3>q. QED
      BY <1>p, <2>1, <2>3, <3>2, Zenon
  <2>4. CASE b = FALSE
    <3>1. Link(c, b, "pkill", "sleep", d)
      BY <1>2, <2>4, Links, Zenon
    <3>2. Has(t, "sleep", d)
      BY <1>h, <2>1, <2>2, <3>1, Zenon
    <3>q. QED
      BY <1>p, <1>k, <1>2, <2>1, <2>4, <3>2, Zenon
  <2>q. QED
    BY <1>d, <2>3, <2>4
<1>3. CASE d = "dhcrelay"
  <2>1. First(d) = "pidkill" /\ d \notin ByFile /\ d # "dnsmasq"
    BY <1>3, Kinds DEF First, ByFile, ByPid
  <2>2. Link(c, b, "pidkill", "unlink", d) /\ "pidkill" \in StepNames /\ "unlink" \in StepNames
    BY <1>3, <1>n, Links
  <2>3. Has(t, "unlink", d)
    BY <1>h, <2>1, <2>2, Zenon
  <2>q. QED
    BY <1>p, <1>k, <1>3, <2>1, <2>3, Zenon
<1>4. CASE d = "dyndns"
  <2>1. First(d) = "pidkill" /\ d # "dnsmasq"
    BY <1>4, Kinds DEF First, ByPid
  <2>2. "pidkill" \in StepNames /\ "write" \in StepNames /\ "sleep" \in StepNames
    BY <1>n
  <2>3. Has(t, "write", d)
    <3>1. CASE b = TRUE
      <4>1. Link(c, b, "pidkill", "write", d)
        BY <1>4, <3>1, Links, Zenon
      <4>q. QED
        BY <1>h, <2>1, <2>2, <4>1, Zenon
    <3>2. CASE b = FALSE
      <4>1. Link(c, b, "pidkill", "sleep", d) /\ Link(c, b, "sleep", "write", d)
        BY <1>4, <3>2, Links, Zenon
      <4>2. Has(t, "sleep", d)
        BY <1>h, <2>1, <2>2, <4>1, Zenon
      <4>q. QED
        BY <1>p, <1>d, <2>2, <4>1, <4>2, LinkHas, Zenon
    <3>q. QED
      BY <1>d, <3>1, <3>2
  <2>q. QED
    BY <1>p, <1>k, <2>1, <2>3, Zenon
<1>q. QED
  BY <1>1, <1>2, <1>3, <1>4 DEF Servers, ByPid

\* What is started is enabled.
LEMMA StartingEnabled ==
  ASSUME TypeInv, NEW r \in Processes, NEW d \in Servers, NEW a \in {"start", "write"}, Has(todo[r], a, d)
  PROVE  Enabled(view[r], d)
<1>1. PICK b : Plan(todo[r], view[r], b)
  BY PlanOf
<1>2. d \notin {"bgpd", "relayd"}
  BY Kinds DEF Servers, ByPid
<1>3. a \in Names(view[r], d)
  <2>1. <<a, d>> \notin Late
    BY <1>2 DEF Late
  <2>q. QED
    BY <1>1, <2>1, HasNames
<1>4. d \in Dhcpds \cup {"dnsmasq", "dhcrelay", "dyndns"}
  BY DEF Servers, ByPid
<1>5. Names(view[r], d) \cap {"start", "write", "sleep"} # {}
  BY <1>3
<1>q. QED
  BY <1>4, <1>5, EnabledNames, Zenon

\* The steps that are left after the first.
LEMMA LeftOver ==
  ASSUME TypeInv, NEW r \in Processes, NEW a, NEW d, Do(r, a, d), Then(r, <<>>)
  PROVE  /\ \A x, e : Has(todo[r], x, e) <=> Has(todo'[r], x, e) \/ (x = a /\ e = d)
         /\ \A x : Has(todo[r], x, d) <=> Has(todo'[r], x, d) \/ x = a
         /\ ~Has(todo'[r], a, d) /\ view'[r] = view[r]
         /\ \A e : e # d => Left(r, e)
         /\ a \in {"unlink", "filter"} => Left(r, d)
         /\ a \in StepNames /\ d \in Daemons
<1>1. /\ pc[r] = "run" /\ todo[r] # <<>> /\ Head(todo[r]) = <<a, d>>
      /\ a \in StepNames /\ d \in Daemons
  BY DoIs DEF TypeInv
<1>2. todo'[r] = Tail(todo[r]) /\ view' = view
  BY <1>1, ThenEffect
<1>3. PICK b : Plan(todo[r], view[r], b)
  BY PlanOf
<1>4. /\ \A x, e : Has(todo[r], x, e) <=> Has(todo'[r], x, e) \/ <<a, d>> = <<x, e>>
      /\ ~Has(todo'[r], a, d)
  BY <1>1, <1>2, <1>3, TailHas
<1>5. \A x, e : <<a, d>> = <<x, e>> <=> (x = a /\ e = d)
  OBVIOUS
<1>6. ASSUME NEW x, NEW e PROVE Has(todo[r], x, e) <=> Has(todo'[r], x, e) \/ (x = a /\ e = d)
  <2>1. Has(todo[r], x, e) <=> Has(todo'[r], x, e) \/ <<a, d>> = <<x, e>>
    BY <1>4
  <2>q. QED
    BY <2>1, <1>5
<1>7. \A x : Has(todo[r], x, d) <=> Has(todo'[r], x, d) \/ x = a
  BY <1>6
<1>q. QED
  BY <1>1, <1>2, <1>4, <1>6, <1>7, Zenon DEF Left
-----------------------------------------------------------------------------
(* What the steps do to a daemon that is stopped and started again. *)

LEMMA ServerKinds ==
  \A d \in Servers : /\ d \in Daemons /\ First(d) \in {"pkill", "pidkill"} /\ d \notin {"bgpd", "relayd"}
                     /\ d \in Exclusive <=> d = "dnsmasq"
                     /\ d \in ByFile <=> d \notin {"dnsmasq", "dhcrelay"}
                     /\ d \in ByPid => d # "dnsmasq"
<1>1. \A d \in Dhcpds : First(d) = "pkill" /\ d \in Daemons
  BY Kinds DEF First
<1>q. QED
  BY <1>1, Kinds DEF Servers, ByPid, First, Exclusive, ByFile

LEMMA EndStep ==
  ASSUME TypeInv, NEW r \in Processes, NEW d \in Servers, Do(r, First(d), d), Then(r, <<>>),
         Living(d)' = {}, Running(d)' \subseteq Running(d), ServerState(r, d)
  PROVE  ServerState(r, d)'
<1>1. /\ \A x : Has(todo[r], x, d) <=> Has(todo'[r], x, d) \/ x = First(d)
      /\ ~Has(todo'[r], First(d), d) /\ view'[r] = view[r]
  <2>1. PICK a : a = First(d)
    OBVIOUS
  <2>2. Do(r, a, d)
    BY <2>1
  <2>3. /\ \A x : Has(todo[r], x, d) <=> Has(todo'[r], x, d) \/ x = a
        /\ ~Has(todo'[r], a, d) /\ view'[r] = view[r]
    BY <2>2, LeftOver, Zenon
  <2>q. QED
    BY <2>1, <2>3
<1>2. Ends(r, d) /\ ~Ends(r, d)'
  BY <1>1, Zenon DEF Ends
<1>3. /\ pc[r] = "run" /\ todo[r] # <<>> /\ Head(todo[r]) = <<First(d), d>>
  BY DoIs DEF TypeInv
<1>4. todo'[r] = Tail(todo[r])
  BY <1>3, ThenEffect
<1>5. PICK b \in BOOLEAN : b = (r = rcbootup) /\ Plan(todo[r], view[r], b)
  BY PlanOf
<1>6. Enabled(view[r], d) => /\ Has(todo'[r], "start", d)
                             /\ d \in ByFile => Has(todo'[r], "write", d)
                             /\ ~b /\ d = "dnsmasq" => Has(todo'[r], "sleep", d)
  <2>1. Enabled(view[r], d) => /\ Has(Tail(todo[r]), "start", d)
                               /\ d \in ByFile => Has(Tail(todo[r]), "write", d)
                               /\ ~b /\ d = "dnsmasq" => Has(Tail(todo[r]), "sleep", d)
    BY <1>3, <1>5, HeadChain, Zenon
  <2>q. QED
    BY <1>4, <2>1
<1>7. CASE Starting(r, d)'
  <2>1. Has(todo[r], "start", d)
    BY <1>1, <1>7, Zenon DEF Starting
  <2>2. Enabled(view[r], d)
    BY <2>1, StartingEnabled
  <2>3. d \in Exclusive /\ (r = rcbootup \/ ~Has(todo'[r], "sleep", d)) => Running(d)' = {}
    <3>1. ASSUME d \in Exclusive, r = rcbootup \/ ~Has(todo'[r], "sleep", d) PROVE Running(d)' = {}
      <4>1. d = "dnsmasq"
        BY <3>1, ServerKinds
      <4>2. r = rcbootup
        BY <1>5, <1>6, <2>2, <3>1, <4>1, Zenon
      <4>3. Running(d) = {}
        BY <1>2, <3>1, <4>2, Zenon DEF ServerState
      <4>q. QED
        BY <4>3
    <3>q. QED
      BY <3>1
  <2>q. QED
    BY <1>2, <1>6, <1>7, <2>2, <2>3, Zenon DEF ServerState
<1>8. CASE ~Starting(r, d)'
  <2>1. ~Enabled(view[r], d)
    BY <1>6, <1>8, Zenon DEF Starting
  <2>2. ~Enabled(view'[r], d)
    BY <2>1, <1>1 DEF Enabled
  <2>3. Serves(d, view[r])'
    BY <2>2, Zenon DEF Serves, Enabled
  <2>q. QED
    BY <1>2, <1>8, <2>3, Zenon DEF ServerState
<1>q. QED
  BY <1>7, <1>8

LEMMA SleepStep ==
  ASSUME TypeInv, NEW r \in Processes, NEW d \in Servers, Sleep(r, d), ServerState(r, d)
  PROVE  ServerState(r, d)'
<1>1. Do(r, "sleep", d) /\ Then(r, <<>>) /\ Living(d) = Running(d) /\ UNCHANGED <<etc, proc, pidfile, filter>>
  BY DEF Sleep, system
<1>2. /\ \A x : Has(todo[r], x, d) <=> Has(todo'[r], x, d) \/ x = "sleep"
      /\ view'[r] = view[r]
  BY <1>1, LeftOver, Zenon
<1>3. First(d) \notin {"sleep"} /\ "start" # "sleep" /\ "write" # "sleep"
  BY ServerKinds
<1>4. /\ Ends(r, d)' <=> Ends(r, d)
      /\ Starting(r, d)' <=> Starting(r, d)
      /\ Has(todo'[r], "write", d) <=> Has(todo[r], "write", d)
  BY <1>2, <1>3, Zenon DEF Ends, Starting
<1>5. Running(d)' = Running(d) /\ Living(d)' = Living(d) /\ etc' = etc /\ proc' = proc
  BY <1>1 DEF Running, Living
<1>6. CASE Ends(r, d)
  <2>1. /\ d \in ByPid => Single(d)' /\ (r = rcbootup => Living(d)' = {})
        /\ d \in Exclusive /\ r = rcbootup => Running(d)' = {}
    BY <1>5, <1>6, Zenon DEF ServerState, Single
  <2>q. QED
    BY <1>4, <1>6, <2>1, Zenon DEF ServerState
<1>7. CASE ~Ends(r, d) /\ Starting(r, d)
  <2>1. Living(d) = {} /\ (d \in ByFile /\ ~Has(todo[r], "write", d) => etc[d] = view[r][d])
    BY <1>7, Zenon DEF ServerState
  <2>2. Running(d)' = {} /\ Living(d)' = {}
    BY <2>1, <1>1, <1>5
  <2>3. d \in ByFile /\ ~Has(todo'[r], "write", d) => etc'[d] = view'[r][d]
    BY <2>1, <1>2, <1>4, <1>5
  <2>q. QED
    BY <1>4, <1>7, <2>2, <2>3, Zenon DEF ServerState
<1>8. CASE ~Ends(r, d) /\ ~Starting(r, d)
  <2>1. PICK c : c = view[r]
    OBVIOUS
  <2>2. c[d] # Gone => Serves(d, c)'
    BY <1>5, <1>8, <2>1, ServesFrame, Zenon DEF ServerState
  <2>3. view'[r][d] # Gone => Serves(d, view[r])'
    BY <1>2, <2>1, <2>2, Zenon DEF Serves, Enabled
  <2>q. QED
    BY <1>4, <1>8, <2>3, Zenon DEF ServerState
<1>q. QED
  BY <1>6, <1>7, <1>8

LEMMA WriteStep ==
  ASSUME TypeInv, NEW r \in Processes, NEW d \in Servers, Write(r, d), ServerState(r, d)
  PROVE  ServerState(r, d)'
<1>1. Do(r, "write", d) /\ Then(r, <<>>) /\ UNCHANGED <<proc, pidfile, filter>>
  BY DEF Write
<1>2. /\ \A x : Has(todo[r], x, d) <=> Has(todo'[r], x, d) \/ x = "write"
      /\ view'[r] = view[r]
  BY <1>1, LeftOver, Zenon
<1>3. First(d) \notin {"write"} /\ "start" # "write" /\ "write" # "sleep"
  BY ServerKinds
<1>4. /\ Ends(r, d)' <=> Ends(r, d)
      /\ Starting(r, d)' <=> Starting(r, d)
      /\ Has(todo'[r], "sleep", d) <=> Has(todo[r], "sleep", d)
      /\ Has(todo[r], "write", d)
  BY <1>2, <1>3, Zenon DEF Ends, Starting
<1>5. Running(d)' = Running(d) /\ Living(d)' = Living(d) /\ proc' = proc
  BY <1>1 DEF Running, Living
<1>6. Enabled(view[r], d) /\ d \in ByFile
  <2>1. Enabled(view[r], d)
    BY <1>4, StartingEnabled
  <2>2. d \in ByFile
    <3>1. PICK b : Plan(todo[r], view[r], b)
      BY PlanOf
    <3>2. "write" \in Names(view[r], d)
      <4>1. <<"write", d>> \notin Late
        BY ServerKinds DEF Late
      <4>q. QED
        BY <1>4, <3>1, <4>1, HasNames
    <3>3. d \notin {"dnsmasq", "dhcrelay"}
      BY <3>2, EnabledNames
    <3>q. QED
      BY <3>3, ServerKinds
  <2>q. QED
    BY <2>1, <2>2
<1>7. etc'[d] = view'[r][d]
  <2>1. PICK v : v = view[r][d]
    OBVIOUS
  <2>2. etc' = [etc EXCEPT ![d] = v]
    BY <1>6, <2>1, Zenon DEF Write
  <2>3. etc'[d] = v
    BY <1>6, <2>2 DEF TypeInv, TypeOK
  <2>q. QED
    BY <1>2, <2>1, <2>3
<1>8. CASE Ends(r, d)
  <2>1. /\ d \in ByPid => Single(d)' /\ (r = rcbootup => Living(d)' = {})
        /\ d \in Exclusive /\ r = rcbootup => Running(d)' = {}
    BY <1>5, <1>8, Zenon DEF ServerState, Single
  <2>q. QED
    BY <1>4, <1>8, <2>1, Zenon DEF ServerState
<1>9. CASE ~Ends(r, d) /\ Starting(r, d)
  <2>1. /\ Living(d)' = {}
        /\ d \in Exclusive /\ (r = rcbootup \/ ~Has(todo'[r], "sleep", d)) => Running(d)' = {}
    BY <1>4, <1>5, <1>9, Zenon DEF ServerState
  <2>q. QED
    BY <1>4, <1>7, <1>9, <2>1, Zenon DEF ServerState
<1>10. CASE ~Ends(r, d) /\ ~Starting(r, d)
  <2>1. PICK c : c = view[r]
    OBVIOUS
  <2>2. c[d] # Gone => Serves(d, c)'
    BY <1>5, <1>10, <2>1, ServesFrame, Zenon DEF ServerState
  <2>3. view'[r][d] # Gone => Serves(d, view[r])'
    BY <1>2, <2>1, <2>2, Zenon DEF Serves, Enabled
  <2>q. QED
    BY <1>4, <1>10, <2>3, Zenon DEF ServerState
<1>q. QED
  BY <1>8, <1>9, <1>10

LEMMA StartStep ==
  ASSUME TypeInv, NEW r \in Processes, NEW d \in Servers, Start(r, d), ServerState(r, d)
  PROVE  ServerState(r, d)'
<1>1. Do(r, "start", d) /\ Then(r, <<>>) /\ UNCHANGED <<etc, pidfile, filter>>
  BY DEF Start
<1>2. /\ \A x : Has(todo[r], x, d) <=> Has(todo'[r], x, d) \/ x = "start"
      /\ ~Has(todo'[r], "start", d) /\ view'[r] = view[r]
  BY <1>1, LeftOver, ZenonT(60)
<1>3. First(d) \notin {"start"} /\ "write" # "start" /\ "sleep" # "start"
  BY ServerKinds
<1>4. Starting(r, d) /\ ~Starting(r, d)' /\ Enabled(view[r], d)
  <2>1. Starting(r, d) /\ ~Starting(r, d)'
    BY <1>2, Zenon DEF Starting
  <2>q. QED
    BY <2>1, StartingEnabled DEF Starting
<1>5. PICK b \in BOOLEAN : b = (r = rcbootup) /\ Plan(todo[r], view[r], b)
  BY PlanOf
<1>6. todo'[r] = Tail(todo[r]) /\ todo[r] # <<>> /\ d \in Daemons
  <2>1. pc[r] = "run" /\ todo[r] # <<>>
    BY <1>1, DoIs DEF TypeInv
  <2>q. QED
    BY <1>1, <2>1, ThenEffect, ServerKinds
<1>7. Plan(todo'[r], view[r], b)
  <2>1. Plan(Tail(todo[r]), view[r], b)
    BY <1>5, <1>6, TailPlan, Zenon
  <2>q. QED
    BY <1>6, <2>1
<1>8. /\ ~Has(todo'[r], First(d), d) /\ ~Has(todo'[r], "write", d)
      /\ ~b /\ d = "dnsmasq" => ~Has(todo'[r], "sleep", d)
  BY <1>2, <1>4, <1>7, Chain, Zenon
<1>9. ~Ends(r, d) /\ ~Ends(r, d)'
  BY <1>2, <1>3, <1>8, Zenon DEF Ends
<1>10. /\ Living(d) = {} /\ (d \in ByFile => etc[d] = view[r][d])
       /\ d \in Exclusive => Running(d) = {}
  <2>1. ~Has(todo[r], "write", d) /\ (~b /\ d = "dnsmasq" => ~Has(todo[r], "sleep", d))
    BY <1>2, <1>3, <1>8, Zenon
  <2>2. d \in Exclusive => d = "dnsmasq"
    BY ServerKinds
  <2>q. QED
    BY <1>4, <1>5, <1>9, <2>1, <2>2, Zenon DEF ServerState
<1>11. Given(r, d) = view[r][d] /\ view[r][d] # Off
  BY <1>4, <1>10 DEF Given, Enabled
<1>12. PICK c : c = view[r]
  OBVIOUS
<1>13. Serves(d, c)'
  <2>1. CASE c[d] \in Refused
    <3>1. ~Starts(r, d)
      BY <1>11, <1>12, <2>1, Zenon DEF Starts
    <3>2. proc' = proc
      BY <1>6, <3>1, StartEffect, Zenon
    <3>3. Living(d)' = {}
      BY <1>10, <3>2 DEF Living, Running
    <3>q. QED
      BY <2>1, <3>3, Zenon DEF Serves, Enabled
  <2>2. CASE c[d] \notin Refused
    <3>1. Starts(r, d)
      BY <1>10, <1>11, <1>12, <2>2, Zenon DEF Starts
    <3>2. PICK p \in Pids : proc[p] = NoProc /\ proc' = [proc EXCEPT ![p] = NewProc(d, Given(r, d))]
      BY <1>6, <3>1, StartEffect, Zenon
    <3>3. PICK v \in Values : v = Given(r, d)
      BY <1>6, <3>1, StartEffect, Zenon
    <3>4. ProcType
      BY DEF TypeInv, TypeOK, ProcType
    <3>5. Living(d)' = Living(d) \cup {p} /\ proc'[p].conf = v
      BY <1>6, <3>2, <3>3, <3>4, NewEffect, Zenon
    <3>6. Living(d)' = {p} /\ proc'[p].conf = c[d]
      BY <1>10, <1>11, <1>12, <3>3, <3>5
    <3>7. Enabled(c, d)
      BY <1>4, <1>12
    <3>q. QED
      BY <2>2, <3>6, <3>7, Zenon DEF Serves, Enabled
  <2>q. QED
    BY <2>1, <2>2
<1>14. view'[r][d] # Gone => Serves(d, view[r])'
  BY <1>2, <1>12, <1>13, Zenon DEF Serves, Enabled
<1>q. QED
  BY <1>4, <1>9, <1>14, Zenon DEF ServerState
-----------------------------------------------------------------------------
(* What the steps do to bgpd and relayd. *)

LEMMA DoHas ==
  ASSUME TypeInv, NEW r \in Processes, NEW a, NEW d, Do(r, a, d)
  PROVE  Has(todo[r], a, d)
<1>1. todo[r] # <<>> /\ todo[r] \in Seq(Steps) /\ Head(todo[r]) = <<a, d>>
  BY DoIs DEF TypeInv
<1>2. 1 \in DOMAIN todo[r] /\ todo[r][1] = <<a, d>>
  BY <1>1, TailOf
<1>q. QED
  BY <1>2 DEF Has

\* What comes after the steps that Check has put first.
LEMMA LateFirst ==
  ASSUME TypeInv, NEW r \in Processes, NEW a \in {"pgrep", "start", "reload"}, Has(todo[r], a, "bgpd")
  PROVE  Head(todo[r]) = <<a, "bgpd">> \/ Head(todo[r]) = <<"pgrep", "bgpd">>
<1>1. PICK i \in DOMAIN todo[r] : todo[r][i] = <<a, "bgpd">>
  BY DEF Has
<1>2. PICK b : Plan(todo[r], view[r], b)
  BY PlanOf
<1>3. todo[r][i] \in Late
  BY <1>1 DEF Late
<1>4. i = 1 \/ todo[r][1] = <<"pgrep", "bgpd">>
  BY <1>2, <1>3, Zenon DEF Plan
<1>5. Head(todo[r]) = todo[r][1]
  <2>1. todo[r] \in Seq(Steps) /\ todo[r] # <<>>
    BY <1>1 DEF TypeInv, TypeOK, Steps
  <2>q. QED
    BY <2>1, TailOf
<1>q. QED
  BY <1>1, <1>4, <1>5

\* The daemons a step may be about.
LEMMA Whose ==
  ASSUME TypeInv, NEW r \in Processes, NEW a, NEW d, Has(todo[r], a, d)
  PROVE  /\ a = "pkill" => d \in Dhcpds \cup {"dnsmasq", "relayd"}
         /\ a = "pidkill" => d \in ByPid
         /\ a = "unlink" => d = "dhcrelay"
         /\ a = "sleep" => d \in Servers
         /\ a = "write" => d \in ByFile
         /\ d \in Daemons
<1>1. PICK b : Plan(todo[r], view[r], b)
  BY PlanOf
<1>2. (a \in Names(view[r], d) \/ <<a, d>> \in Late) /\ d \in Daemons
  BY <1>1, HasNames
<1>3. CASE d \in Dhcpds
  <2>1. a \in {"pkill", "filter", "write", "start"}
    <3>1. <<a, d>> \notin Late
      BY <1>3, Kinds DEF Late
    <3>q. QED
      BY <1>2, <1>3, <3>1 DEF Names, NamesIf
  <2>q. QED
    BY <1>2, <1>3, <2>1 DEF ByFile
<1>4. CASE d = "dnsmasq"
  <2>1. a \in {"pkill", "sleep", "start"}
    BY <1>2, <1>4, Kinds DEF Names, NamesIf, Late
  <2>q. QED
    BY <1>2, <1>4, <2>1 DEF Servers
<1>5. CASE d = "dhcrelay"
  <2>1. a \in {"pidkill", "unlink", "sleep", "start", "filter"}
    BY <1>2, <1>5, Kinds DEF Names, NamesIf, Late
  <2>q. QED
    BY <1>2, <1>5, <2>1 DEF Servers, ByPid
<1>6. CASE d = "dyndns"
  <2>1. a \in {"pidkill", "sleep", "write", "start"}
    BY <1>2, <1>6, Kinds DEF Names, NamesIf, Late
  <2>q. QED
    BY <1>2, <1>6, <2>1 DEF Servers, ByPid, ByFile
<1>7. CASE d = "bgpd"
  <2>1. a \in {"write", "check", "pgrep", "start", "reload"}
    BY <1>2, <1>7, Kinds DEF Names, NamesIf, Late
  <2>q. QED
    BY <1>2, <1>7, <2>1 DEF ByFile
<1>8. CASE d = "relayd"
  <2>1. a \in {"write", "pkill", "start"}
    BY <1>2, <1>8, Kinds DEF Names, NamesIf, Late
  <2>q. QED
    BY <1>2, <1>8, <2>1 DEF ByFile
<1>q. QED
  BY <1>2, <1>3, <1>4, <1>5, <1>6, <1>7, <1>8, Kinds

\* What a step is linked to comes next.
LEMMA NextHas ==
  ASSUME TypeInv, NEW r \in Processes, NEW a \in StepNames, NEW y \in StepNames, NEW d \in Daemons,
         Do(r, a, d), Then(r, <<>>), \A b \in BOOLEAN : Link(view[r], b, a, y, d)
  PROVE  Has(todo'[r], y, d)
<1>1. /\ pc[r] = "run" /\ todo[r] # <<>> /\ Head(todo[r]) = <<a, d>>
  BY DoIs DEF TypeInv
<1>2. todo'[r] = Tail(todo[r])
  BY <1>1, ThenEffect
<1>3. PICK b \in BOOLEAN : Plan(todo[r], view[r], b)
  BY PlanOf
<1>4. Has(Tail(todo[r]), y, d)
  BY <1>1, <1>3, TailHas
<1>q. QED
  BY <1>2, <1>4

\* What is linked to the step that was first has gone before.
LEMMA NotLeft ==
  ASSUME TypeInv, NEW r \in Processes, NEW x \in StepNames, NEW a \in StepNames, NEW d \in Daemons,
         Do(r, a, d), Then(r, <<>>), \A b \in BOOLEAN : Link(view[r], b, x, a, d)
  PROVE  ~Has(todo'[r], x, d)
<1>1. /\ pc[r] = "run" /\ todo[r] # <<>> /\ Head(todo[r]) = <<a, d>>
  BY DoIs DEF TypeInv
<1>2. todo'[r] = Tail(todo[r]) /\ ~Has(todo'[r], a, d)
  BY <1>1, ThenEffect, LeftOver
<1>3. PICK b \in BOOLEAN : Plan(todo[r], view[r], b)
  BY PlanOf
<1>4. PICK t : t = Tail(todo[r]) /\ Plan(t, view[r], b)
  BY <1>1, <1>3, TailPlan
<1>5. Has(t, x, d) => Has(t, a, d)
  BY <1>4, LinkHas
<1>q. QED
  BY <1>2, <1>4, <1>5

LEMMA RelaydWrite ==
  ASSUME TypeInv, NEW r \in Processes, Write(r, "relayd")
  PROVE  RelaydState(r)'
<1>1. Do(r, "write", "relayd") /\ Then(r, <<>>)
  BY DEF Write
<1>2. "relayd" \in Daemons /\ "relayd" \in ByFile /\ "write" \in StepNames /\ "pkill" \in StepNames
  BY Kinds DEF ByFile, StepNames
<1>3. \A b \in BOOLEAN : Link(view[r], b, "write", "pkill", "relayd")
  BY Links
<1>4. Has(todo'[r], "pkill", "relayd") /\ view'[r] = view[r]
  BY <1>1, <1>2, <1>3, NextHas, LeftOver
<1>5. PICK v : v = Written(view[r], "relayd")
  OBVIOUS
<1>6. etc' = [etc EXCEPT !["relayd"] = v]
  BY <1>5 DEF Write, Written
<1>7. etc'["relayd"] = Written(view'[r], "relayd")
  BY <1>2, <1>4, <1>5, <1>6 DEF TypeInv, TypeOK, Written
<1>8. Written(view[r], "relayd")' = Written(view'[r], "relayd")
  BY DEF Written, Enabled
<1>q. QED
  BY <1>4, <1>7, <1>8, Zenon DEF RelaydState

LEMMA RelaydKill ==
  ASSUME TypeInv, NEW r \in Processes, Do(r, "pkill", "relayd"), Then(r, <<>>), Living("relayd")' = {},
         UNCHANGED etc, RelaydState(r)
  PROVE  RelaydState(r)'
<1>2. "relayd" \in Daemons /\ "pkill" \in StepNames /\ "start" \in StepNames
  BY Kinds DEF StepNames
<1>3. \A b \in BOOLEAN : Link(view[r], b, "pkill", "start", "relayd")
  BY Links
<1>4. Has(todo'[r], "start", "relayd")
  BY <1>2, <1>3, NextHas
<1>5. /\ Has(todo[r], "write", "relayd") <=> Has(todo'[r], "write", "relayd")
      /\ Has(todo[r], "pkill", "relayd")
      /\ view'[r] = view[r]
  <2>1. /\ \A x : Has(todo[r], x, "relayd") <=> Has(todo'[r], x, "relayd") \/ x = "pkill"
        /\ view'[r] = view[r]
    BY LeftOver
  <2>2. "write" # "pkill"
    OBVIOUS
  <2>q. QED
    BY <2>1, <2>2, Zenon
<1>6. ~Has(todo[r], "write", "relayd") => etc["relayd"] = Written(view[r], "relayd")
  BY <1>5, Zenon DEF RelaydState
<1>7. ~Has(todo'[r], "write", "relayd") => etc'["relayd"] = Written(view'[r], "relayd")
  BY <1>5, <1>6 DEF Written
<1>8. Written(view[r], "relayd")' = Written(view'[r], "relayd")
  BY DEF Written, Enabled
<1>9. Starting(r, "relayd")'
  BY <1>4 DEF Starting
<1>q. QED
  BY <1>7, <1>8, <1>9, Zenon DEF RelaydState

LEMMA RelaydStart ==
  ASSUME TypeInv, NEW r \in Processes, Start(r, "relayd"), RelaydState(r)
  PROVE  RelaydState(r)'
<1>1. Do(r, "start", "relayd") /\ Then(r, <<>>) /\ UNCHANGED <<etc, pidfile, filter>>
  BY DEF Start
<1>2. "relayd" \in Daemons /\ "pkill" \in StepNames /\ "start" \in StepNames /\ "relayd" \in ByFile
  BY Kinds DEF StepNames, ByFile
<1>3. ~Has(todo'[r], "pkill", "relayd")
  <2>1. \A b \in BOOLEAN : Link(view[r], b, "pkill", "start", "relayd")
    BY Links
  <2>q. QED
    BY <1>1, <1>2, <2>1, NotLeft
<1>4. /\ Has(todo[r], "write", "relayd") <=> Has(todo'[r], "write", "relayd")
      /\ Has(todo[r], "pkill", "relayd") <=> Has(todo'[r], "pkill", "relayd")
      /\ Has(todo[r], "start", "relayd") /\ ~Has(todo'[r], "start", "relayd")
      /\ view'[r] = view[r]
  <2>1. /\ \A x : Has(todo[r], x, "relayd") <=> Has(todo'[r], x, "relayd") \/ x = "start"
        /\ ~Has(todo'[r], "start", "relayd") /\ view'[r] = view[r]
    BY <1>1, LeftOver
  <2>2. "write" # "start" /\ "pkill" # "start"
    OBVIOUS
  <2>q. QED
    BY <2>1, <2>2, Zenon
<1>5. CASE Has(todo'[r], "write", "relayd")
  BY <1>5, Zenon DEF RelaydState
<1>6. CASE ~Has(todo'[r], "write", "relayd")
  <2>1. etc["relayd"] = Written(view[r], "relayd") /\ Living("relayd") = {}
    BY <1>3, <1>4, <1>6, Zenon DEF RelaydState, Starting
  <2>2. \A p \in Living("relayd")' : proc'[p].conf = view'[r]["relayd"]
    <3>1. CASE Starts(r, "relayd")
      <4>1. PICK p \in Pids : /\ proc[p] = NoProc
                              /\ proc' = [proc EXCEPT ![p] = NewProc("relayd", Given(r, "relayd"))]
        BY <1>2, <3>1, StartEffect, Zenon
      <4>2. PICK v \in Values : v = Given(r, "relayd")
        BY <1>2, <3>1, StartEffect, Zenon
      <4>3. ProcType
        BY DEF TypeInv, TypeOK, ProcType
      <4>4. Living("relayd")' = Living("relayd") \cup {p} /\ proc'[p].conf = v
        BY <1>2, <4>1, <4>2, <4>3, NewEffect, Zenon
      <4>5. v = etc["relayd"] /\ etc["relayd"] # Off
        BY <1>2, <3>1, <4>2 DEF Given, Starts
      <4>6. v = view'[r]["relayd"]
        BY <1>4, <2>1, <4>5 DEF Written
      <4>q. QED
        BY <2>1, <4>4, <4>6
    <3>2. CASE ~Starts(r, "relayd")
      <4>1. proc' = proc
        BY <1>2, <3>2, StartEffect, Zenon
      <4>2. Living("relayd")' = {}
        BY <2>1, <4>1 DEF Living, Running
      <4>q. QED
        BY <4>2
    <3>q. QED
      BY <3>1, <3>2
  <2>3. ~Starting(r, "relayd")'
    BY <1>4 DEF Starting
  <2>q. QED
    BY <1>3, <2>2, <2>3, Zenon DEF RelaydState
<1>q. QED
  BY <1>5, <1>6

LEMMA BgpdWrite ==
  ASSUME TypeInv, NEW r \in Processes, Write(r, "bgpd"), BgpdState(r)
  PROVE  BgpdState(r)'
<1>1. Do(r, "write", "bgpd") /\ Then(r, <<>>) /\ UNCHANGED <<proc, pidfile, filter>>
  BY DEF Write
<1>2. "bgpd" \in Daemons /\ "bgpd" \in ByFile /\ "write" \in StepNames /\ "check" \in StepNames
  BY Kinds DEF ByFile, StepNames
<1>3. \A b \in BOOLEAN : Link(view[r], b, "write", "check", "bgpd")
  BY Links
<1>4. Has(todo'[r], "check", "bgpd") /\ view'[r] = view[r]
  BY <1>1, <1>2, <1>3, NextHas, LeftOver
<1>5. PICK v : v = Written(view[r], "bgpd")
  OBVIOUS
<1>6. etc' = [etc EXCEPT !["bgpd"] = v]
  BY <1>5 DEF Write, Written
<1>7. etc'["bgpd"] = Written(view'[r], "bgpd")
  BY <1>2, <1>4, <1>5, <1>6 DEF TypeInv, TypeOK, Written
<1>8. Written(view[r], "bgpd")' = Written(view'[r], "bgpd")
  BY DEF Written, Enabled
<1>9. ~Has(todo'[r], "start", "bgpd")
  <2>1. SUFFICES ASSUME Has(todo'[r], "start", "bgpd") PROVE FALSE
    OBVIOUS
  <2>2. Has(todo[r], "start", "bgpd")
    BY <1>1, <2>1, LeftOver
  <2>3. Head(todo[r]) = <<"start", "bgpd">> \/ Head(todo[r]) = <<"pgrep", "bgpd">>
    BY <2>2, LateFirst
  <2>4. Head(todo[r]) = <<"write", "bgpd">>
    BY <1>1, DoIs DEF TypeInv
  <2>q. QED
    BY <2>3, <2>4
<1>10. ~Starting(r, "bgpd")'
  BY <1>9 DEF Starting
<1>q. QED
  BY <1>4, <1>7, <1>8, <1>10, Zenon DEF BgpdState

LEMMA BgpdPgrep ==
  ASSUME TypeInv, NEW r \in Processes, Pgrep(r), BgpdState(r)
  PROVE  /\ BgpdState(r)' /\ pidfile'["bgpd"] # NoPid
         /\ \A d \in ByPid : pidfile'[d] = pidfile[d]
<1>1. Do(r, "pgrep", "bgpd") /\ Then(r, <<>>) /\ UNCHANGED <<etc, proc, filter>>
  BY DEF Pgrep
<1>2. PICK p \in Pids \cup {Off} : pidfile' = [pidfile EXCEPT !["bgpd"] = p]
  BY DEF Pgrep
<1>3. /\ p # NoPid /\ "bgpd" \in Daemons /\ "pgrep" \in StepNames /\ "start" \in StepNames
      /\ "bgpd" \notin ByPid
  BY Kinds, ServicesAssumption DEF StepNames, ByPid
<1>4. pidfile'["bgpd"] # NoPid /\ \A d \in ByPid : pidfile'[d] = pidfile[d]
  BY <1>2, <1>3 DEF TypeInv, TypeOK
<1>5. Has(todo'[r], "start", "bgpd")
  <2>1. \A b \in BOOLEAN : Link(view[r], b, "pgrep", "start", "bgpd")
    BY Links
  <2>q. QED
    BY <1>1, <1>3, <2>1, NextHas
<1>6. /\ Has(todo[r], "write", "bgpd") <=> Has(todo'[r], "write", "bgpd")
      /\ Has(todo[r], "start", "bgpd")
      /\ view'[r] = view[r]
  <2>1. /\ \A x : Has(todo[r], x, "bgpd") <=> Has(todo'[r], x, "bgpd") \/ x = "pgrep"
        /\ view'[r] = view[r]
    BY <1>1, LeftOver
  <2>2. "write" # "pgrep" /\ "start" # "pgrep"
    OBVIOUS
  <2>q. QED
    BY <2>1, <2>2, <1>5, Zenon
<1>7. Starting(r, "bgpd") /\ Starting(r, "bgpd")'
  BY <1>5, <1>6 DEF Starting
<1>8. Running("bgpd")' = {}
  <2>1. Running("bgpd") = {}
    BY <1>7, Zenon DEF BgpdState
  <2>q. QED
    BY <1>1, <2>1 DEF Running
<1>9. ~Has(todo'[r], "write", "bgpd") => etc'["bgpd"] = Written(view[r], "bgpd")'
  <2>1. ~Has(todo[r], "write", "bgpd") => etc["bgpd"] = Written(view[r], "bgpd")
    BY <1>7, Zenon DEF BgpdState
  <2>2. Written(view[r], "bgpd")' = Written(view[r], "bgpd")
    BY <1>6 DEF Written, Enabled
  <2>q. QED
    BY <1>1, <1>6, <2>1, <2>2, Zenon
<1>10. BgpdState(r)'
  BY <1>4, <1>7, <1>8, <1>9, Zenon DEF BgpdState
<1>q. QED
  BY <1>4, <1>10

LEMMA BgpdStart ==
  ASSUME TypeInv, NEW r \in Processes, Start(r, "bgpd"), BgpdState(r)
  PROVE  BgpdState(r)' /\ pidfile'["bgpd"] # NoPid
<1>1. Do(r, "start", "bgpd") /\ Then(r, <<>>) /\ UNCHANGED <<etc, pidfile, filter>>
  BY DEF Start
<1>2. "bgpd" \in Daemons /\ "pgrep" \in StepNames /\ "start" \in StepNames /\ "bgpd" \in ByFile
  BY Kinds DEF StepNames, ByFile
<1>3. ~Has(todo'[r], "pgrep", "bgpd")
  <2>1. \A b \in BOOLEAN : Link(view[r], b, "pgrep", "start", "bgpd")
    BY Links
  <2>q. QED
    BY <1>1, <1>2, <2>1, NotLeft
<1>4. /\ Has(todo[r], "write", "bgpd") <=> Has(todo'[r], "write", "bgpd")
      /\ ~Has(todo[r], "pgrep", "bgpd")
      /\ Has(todo[r], "start", "bgpd") /\ ~Has(todo'[r], "start", "bgpd")
      /\ view'[r] = view[r]
  <2>1. /\ \A x : Has(todo[r], x, "bgpd") <=> Has(todo'[r], x, "bgpd") \/ x = "start"
        /\ ~Has(todo'[r], "start", "bgpd") /\ view'[r] = view[r]
    BY <1>1, LeftOver
  <2>2. "write" # "start" /\ "pgrep" # "start"
    OBVIOUS
  <2>q. QED
    BY <1>3, <2>1, <2>2, Zenon
<1>5. Running("bgpd") = {} /\ Living("bgpd") = {} /\ pidfile["bgpd"] # NoPid
  <2>1. Running("bgpd") = {} /\ pidfile["bgpd"] # NoPid
    BY <1>4, Zenon DEF BgpdState, Starting
  <2>q. QED
    BY <2>1 DEF Living
<1>6. pidfile'["bgpd"] # NoPid
  BY <1>1, <1>5
<1>7. ~Starting(r, "bgpd")'
  BY <1>4 DEF Starting
<1>8. CASE Has(todo'[r], "write", "bgpd")
  BY <1>6, <1>7, <1>8, Zenon DEF BgpdState
<1>9. CASE ~Has(todo'[r], "write", "bgpd")
  <2>1. etc["bgpd"] = Written(view[r], "bgpd")
    BY <1>4, <1>9, Zenon DEF BgpdState, Starting
  <2>2. Written(view[r], "bgpd")' = Written(view[r], "bgpd") /\ etc' = etc
    BY <1>1, <1>4 DEF Written, Enabled
  <2>3. \A p \in Living("bgpd")' : proc'[p].conf = view'[r]["bgpd"]
    <3>1. CASE Starts(r, "bgpd")
      <4>1. PICK p \in Pids : /\ proc[p] = NoProc
                              /\ proc' = [proc EXCEPT ![p] = NewProc("bgpd", Given(r, "bgpd"))]
        BY <1>2, <3>1, StartEffect, Zenon
      <4>2. PICK v \in Values : v = Given(r, "bgpd")
        BY <1>2, <3>1, StartEffect, Zenon
      <4>3. ProcType
        BY DEF TypeInv, TypeOK, ProcType
      <4>4. Living("bgpd")' = Living("bgpd") \cup {p} /\ proc'[p].conf = v
        BY <1>2, <4>1, <4>2, <4>3, NewEffect, Zenon
      <4>5. v = etc["bgpd"] /\ etc["bgpd"] # Off
        BY <1>2, <3>1, <4>2 DEF Given, Starts
      <4>6. v = view'[r]["bgpd"]
        BY <1>4, <2>1, <4>5 DEF Written
      <4>q. QED
        BY <1>5, <4>4, <4>6
    <3>2. CASE ~Starts(r, "bgpd")
      <4>1. proc' = proc
        BY <1>2, <3>2, StartEffect, Zenon
      <4>2. Living("bgpd")' = {}
        BY <1>5, <4>1 DEF Living, Running
      <4>q. QED
        BY <4>2
    <3>q. QED
      BY <3>1, <3>2
  <2>4. etc'["bgpd"] = Written(view[r], "bgpd")'
    BY <2>1, <2>2
  <2>5. \A p \in Living("bgpd")' : Enabled(view[r], "bgpd")' /\ view'[r]["bgpd"] \notin Refused =>
                                    proc'[p].conf = view'[r]["bgpd"]
    BY <2>3, Zenon
  <2>q. QED
    BY <1>6, <1>7, <2>4, <2>5, Zenon DEF BgpdState
<1>q. QED
  BY <1>6, <1>8, <1>9

LEMMA BgpdReload ==
  ASSUME TypeInv, NEW r \in Processes, Reload(r), BgpdState(r)
  PROVE  /\ BgpdState(r)'
         /\ \A d : /\ Running(d)' = Running(d) /\ Living(d)' = Living(d) /\ Young(d)' = Young(d)
                   /\ d # "bgpd" => \A p \in Living(d) : proc'[p].conf = proc[p].conf
<1>1. Do(r, "reload", "bgpd") /\ Then(r, <<>>) /\ UNCHANGED <<etc, pidfile, filter>>
  BY DEF Reload
<1>2. "bgpd" \in ByFile /\ ProcType
  BY DEF ByFile, TypeInv, TypeOK, ProcType
<1>3. \A p \in Living("bgpd") : p \in Pids /\ proc[p] # NoProc /\ proc[p].svc = "bgpd"
  BY DEF Living, Running
<1>4. \A d : \A p \in Living(d) : p \in Pids /\ proc[p].svc = d
  BY DEF Living, Running
<1>5. /\ Has(todo[r], "write", "bgpd") <=> Has(todo'[r], "write", "bgpd")
      /\ Has(todo[r], "start", "bgpd") <=> Has(todo'[r], "start", "bgpd")
      /\ Has(todo[r], "pgrep", "bgpd") <=> Has(todo'[r], "pgrep", "bgpd")
      /\ Has(todo[r], "reload", "bgpd") /\ view'[r] = view[r]
  <2>1. /\ \A x : Has(todo[r], x, "bgpd") <=> Has(todo'[r], x, "bgpd") \/ x = "reload"
        /\ view'[r] = view[r]
    BY <1>1, LeftOver
  <2>2. "write" # "reload" /\ "start" # "reload" /\ "pgrep" # "reload"
    OBVIOUS
  <2>q. QED
    BY <2>1, <2>2, Zenon
<1>6. Starting(r, "bgpd")' <=> Starting(r, "bgpd")
  BY <1>5 DEF Starting
<1>7. ~Has(todo'[r], "write", "bgpd") => etc'["bgpd"] = Written(view[r], "bgpd")'
  <2>1. ~Has(todo[r], "write", "bgpd") => etc["bgpd"] = Written(view[r], "bgpd")
    BY <1>5, Zenon DEF BgpdState
  <2>2. Written(view[r], "bgpd")' = Written(view[r], "bgpd")
    BY <1>5 DEF Written, Enabled
  <2>q. QED
    BY <1>1, <1>5, <2>1, <2>2, Zenon
<1>8. Written(view[r], "bgpd")' = IF Enabled(view'[r], "bgpd") THEN view'[r]["bgpd"] ELSE Off
  BY DEF Written, Enabled
<1>9. ASSUME Running("bgpd")' = Running("bgpd"),
             ~Has(todo'[r], "write", "bgpd") =>
               \A p \in Living("bgpd")' : Enabled(view'[r], "bgpd") /\ view'[r]["bgpd"] \notin Refused =>
                                            proc'[p].conf = view'[r]["bgpd"]
      PROVE  BgpdState(r)'
  <2>1. Starting(r, "bgpd")' => /\ Running("bgpd")' = {}
                                /\ ~Has(todo'[r], "pgrep", "bgpd") => pidfile'["bgpd"] # NoPid
    BY <1>1, <1>5, <1>6, <1>9, Zenon DEF BgpdState
  <2>2. Enabled(view'[r], "bgpd") <=> Enabled(view[r], "bgpd")'
    BY DEF Enabled
  <2>q. QED
    BY <1>7, <1>9, <2>1, <2>2, Zenon DEF BgpdState
<1>10. CASE etc["bgpd"] \in Refused \cup {Off}
  <2>1. proc' = proc
    BY <1>10, Zenon DEF Reload
  <2>2. \A d : Running(d)' = Running(d) /\ Living(d)' = Living(d) /\ Young(d)' = Young(d)
    BY <2>1 DEF Running, Living, Young
  <2>3. ~Has(todo'[r], "write", "bgpd") => ~(Enabled(view'[r], "bgpd") /\ view'[r]["bgpd"] \notin Refused)
    BY <1>1, <1>7, <1>8, <1>10 DEF Enabled
  <2>q. QED
    BY <1>9, <2>1, <2>2, <2>3, Zenon
<1>11. CASE etc["bgpd"] \notin Refused \cup {Off}
  <2>1. PICK v : v = etc["bgpd"]
    OBVIOUS
  <2>2. proc' = [p \in Pids |-> IF p \in Living("bgpd") THEN [proc[p] EXCEPT !.conf = v] ELSE proc[p]]
    BY <1>11, <2>1, Zenon DEF Reload
  <2>3. v \in Values
    BY <1>2, <1>11, <2>1 DEF TypeInv, TypeOK
  <2>4. PICK ps : ps = Living("bgpd")
    OBVIOUS
  <2>5. /\ proc' = [p \in Pids |-> IF p \in ps THEN [proc[p] EXCEPT !.conf = v] ELSE proc[p]]
        /\ \A p \in ps : p \in Pids /\ proc[p] # NoProc
    BY <1>3, <2>2, <2>4
  <2>6. /\ \A d : Running(d)' = Running(d) /\ Living(d)' = Living(d) /\ Young(d)' = Young(d)
        /\ \A p \in Pids : (p \in ps => proc'[p].conf = v) /\ (p \notin ps => proc'[p] = proc[p])
    BY <1>2, <2>3, <2>5, ReadEffect, Zenon
  <2>7. \A d : d # "bgpd" => \A p \in Living(d) : proc'[p].conf = proc[p].conf
    <3>1. ASSUME NEW d, d # "bgpd", NEW p \in Living(d) PROVE proc'[p].conf = proc[p].conf
      <4>1. p \in Pids /\ p \notin ps
        BY <1>3, <1>4, <2>4, <3>1
      <4>q. QED
        BY <2>6, <4>1
    <3>q. QED
      BY <3>1
  <2>8. ~Has(todo'[r], "write", "bgpd") =>
          \A p \in Living("bgpd")' : Enabled(view'[r], "bgpd") => proc'[p].conf = view'[r]["bgpd"]
    BY <1>1, <1>3, <1>7, <1>8, <2>1, <2>4, <2>6
  <2>q. QED
    BY <1>9, <2>6, <2>7, <2>8, Zenon
<1>q. QED
  BY <1>10, <1>11

LEMMA BgpdCheck ==
  ASSUME TypeInv, NEW r \in Processes, Check(r), BgpdState(r), BgpdFile
  PROVE  /\ BgpdState(r)'
         /\ \A d : d # "bgpd" => Left(r, d)
<1>1. PICK m \in Seq(Steps) :
        /\ m = IF pidfile["bgpd"] = NoPid THEN <<<<"pgrep", "bgpd">>, <<"start", "bgpd">>>>
               ELSE <<<<"reload", "bgpd">>>>
        /\ todo'[r] = m \o Tail(todo[r]) /\ view' = view
  BY MoreEffect, Zenon
<1>2. Do(r, "check", "bgpd") /\ UNCHANGED <<etc, proc, pidfile, filter>>
  BY DEF Check, system
<1>3. pc[r] = "run" /\ todo[r] # <<>> /\ Head(todo[r]) = <<"check", "bgpd">>
  BY <1>2, DoIs DEF TypeInv
<1>4. PICK b : Plan(todo[r], view[r], b)
  BY PlanOf
<1>5. m = <<<<"pgrep", "bgpd">>, <<"start", "bgpd">>>> \/ m = <<<<"reload", "bgpd">>>>
  BY <1>1, Zenon
<1>6. /\ \A a, d : Has(todo'[r], a, d) <=> Has(m, a, d) \/ Has(Tail(todo[r]), a, d)
      /\ \A a : Has(Tail(todo[r]), a, "bgpd") => a = "write"
  <2>1. /\ \A a, d : Has(m \o Tail(todo[r]), a, d) <=> Has(m, a, d) \/ Has(Tail(todo[r]), a, d)
        /\ \A a : Has(Tail(todo[r]), a, "bgpd") => a = "write"
    BY <1>3, <1>4, <1>5, CheckPlan, Zenon
  <2>q. QED
    BY <1>1, <2>1
<1>7. \A a, d : Has(todo[r], a, d) <=> Has(Tail(todo[r]), a, d) \/ Head(todo[r]) = <<a, d>>
  BY <1>3, <1>4, TailHas, Zenon
<1>8. \A a, d : Has(m, a, d) => d = "bgpd" /\ a \in {"pgrep", "start", "reload"}
  <2>1. \A i \in DOMAIN m : m[i] \in Late
    BY <1>5 DEF Late
  <2>q. QED
    BY <2>1 DEF Has, Late
<1>9. ASSUME NEW d, d # "bgpd" PROVE Left(r, d)
  <2>1. \A a : Has(todo'[r], a, d) <=> Has(todo[r], a, d)
    <3>1. ASSUME NEW a PROVE Has(todo'[r], a, d) <=> Has(todo[r], a, d)
      <4>1. Head(todo[r]) # <<a, d>>
        BY <1>3, <1>9
      <4>q. QED
        BY <1>6, <1>7, <1>8, <1>9, <4>1, Zenon
    <3>q. QED
      BY <3>1
  <2>q. QED
    BY <1>1, <2>1, Zenon DEF Left
<1>10. /\ Has(todo'[r], "write", "bgpd") <=> Has(todo[r], "write", "bgpd")
       /\ Has(todo[r], "check", "bgpd")
  <2>1. ~Has(m, "write", "bgpd")
    BY <1>8
  <2>2. Head(todo[r]) # <<"write", "bgpd">>
    BY <1>3
  <2>q. QED
    BY <1>3, <1>6, <1>7, <2>1, <2>2, Zenon
<1>11. /\ Starting(r, "bgpd")' <=> pidfile["bgpd"] = NoPid
       /\ Has(todo'[r], "pgrep", "bgpd") <=> pidfile["bgpd"] = NoPid
       /\ Has(todo'[r], "reload", "bgpd") <=> pidfile["bgpd"] # NoPid
  <2>1. \A a \in {"start", "pgrep", "reload"} : Has(todo'[r], a, "bgpd") <=> Has(m, a, "bgpd")
    BY <1>6
  <2>2. CASE pidfile["bgpd"] = NoPid
    <3>1. m = <<<<"pgrep", "bgpd">>, <<"start", "bgpd">>>>
      BY <1>1, <2>2
    <3>2. DOMAIN m = {1, 2} /\ m[1] = <<"pgrep", "bgpd">> /\ m[2] = <<"start", "bgpd">>
      BY <3>1
    <3>3. Has(m, "pgrep", "bgpd") /\ Has(m, "start", "bgpd") /\ ~Has(m, "reload", "bgpd")
      BY <3>2 DEF Has
    <3>q. QED
      BY <2>1, <2>2, <3>3 DEF Starting
  <2>3. CASE pidfile["bgpd"] # NoPid
    <3>1. m = <<<<"reload", "bgpd">>>>
      BY <1>1, <2>3
    <3>2. DOMAIN m = {1} /\ m[1] = <<"reload", "bgpd">>
      BY <3>1
    <3>3. ~Has(m, "pgrep", "bgpd") /\ ~Has(m, "start", "bgpd") /\ Has(m, "reload", "bgpd")
      BY <3>2 DEF Has
    <3>q. QED
      BY <2>1, <2>3, <3>3 DEF Starting
  <2>q. QED
    BY <2>2, <2>3
<1>12. Starting(r, "bgpd")' => Running("bgpd")' = {} /\ Has(todo'[r], "pgrep", "bgpd")
  <2>1. Running("bgpd")' = Running("bgpd")
    BY <1>2 DEF Running
  <2>q. QED
    BY <1>11, <2>1 DEF BgpdFile
<1>13. ~Has(todo'[r], "write", "bgpd") => etc'["bgpd"] = Written(view[r], "bgpd")'
  <2>1. ~Has(todo[r], "write", "bgpd") => etc["bgpd"] = Written(view[r], "bgpd")
    BY <1>10, Zenon DEF BgpdState
  <2>2. Written(view[r], "bgpd")' = Written(view[r], "bgpd")
    BY <1>1 DEF Written, Enabled
  <2>q. QED
    BY <1>2, <1>10, <2>1, <2>2, Zenon
<1>14. Starting(r, "bgpd")' \/ Has(todo'[r], "reload", "bgpd")
  BY <1>11
<1>15. BgpdState(r)'
  BY <1>12, <1>13, <1>14, Zenon DEF BgpdState
<1>q. QED
  BY <1>9, <1>15
-----------------------------------------------------------------------------
(* As long as it is calm. *)

LEMMA OnlyOne ==
  ASSUME SoloInv, calm, NEW r \in Processes, Busy(r), NEW u \in Processes, Busy(u)
  PROVE  u = r
BY DEF SoloInv

LEMMA DoBusy ==
  ASSUME TypeInv, NEW r \in Processes, NEW a, NEW d, Do(r, a, d)
  PROVE  Busy(r) /\ pc[r] = "run" /\ Head(todo[r]) = <<a, d>>
<1>1. pc[r] = "run" /\ Head(todo[r]) = <<a, d>>
  BY DoIs DEF TypeInv
<1>q. QED
  BY <1>1 DEF Busy

Pidfiles == Tracked /\ OwnDyndns /\ OwnDhcrelay /\ BgpdFile

\* A step about the daemon d leaves the others alone.
LEMMA CalmRest ==
  ASSUME TypeInv, SoloInv, CalmInv, calm, NEW r \in Processes, NEW d,
         pc' = pc, view' = view, stored' = stored, Busy(r),
         \A e \in Daemons : e # d => Same(e) /\ Left(r, e),
         d \in Daemons => State(r, d)', Pidfiles'
  PROVE  CalmInv'
<1>1. view[r] = stored /\ \A e \in Daemons : State(r, e)
  BY DEF CalmInv
<1>2. \A t \in Processes : Busy(t)' <=> Busy(t)
  BY DEF Busy
<1>3. \A t \in Processes : Busy(t)' => t = r
  BY <1>2, OnlyOne
<1>4. \A e \in Daemons : State(r, e)'
  <2>1. ASSUME NEW e \in Daemons PROVE State(r, e)'
    <3>1. CASE e = d
      BY <3>1
    <3>2. CASE e # d
      BY <1>1, <3>2, StateFrame, Zenon
    <3>q. QED
      BY <3>1, <3>2
  <2>q. QED
    BY <2>1
<1>5. ASSUME NEW t \in Processes, Busy(t)'
      PROVE  view'[t] = stored' /\ \A e \in Daemons : State(t, e)'
  <2>1. t = r
    BY <1>3, <1>5
  <2>q. QED
    BY <1>1, <1>4, <2>1, Zenon
<1>6. ~ \A t \in Processes : ~Busy(t)'
  BY <1>2
<1>q. QED
  BY <1>5, <1>6, Zenon DEF CalmInv, Pidfiles

\* The pid files of the daemons that are killed by them, when no such file changes.
LEMMA PidsSame ==
  ASSUME TypeInv, SoloInv, calm, Pidfiles, NEW r \in Processes, NEW a, NEW d, Do(r, a, d), a # "unlink",
         \A e \in ByPid : /\ pidfile'[e] = pidfile[e]
                          /\ Living(e) \subseteq Living(e)' /\ Young(e) \subseteq Young(e)'
                          /\ Living(e)' \ Living(e) \subseteq Young(e)'
                          /\ Running(e) \subseteq Running(e)',
         BgpdFile'
  PROVE  Pidfiles'
<1>1. "dhcrelay" \in ByPid /\ "dyndns" \in ByPid
  BY DEF ByPid
<1>2. Tracked'
  <2>1. ASSUME NEW e \in ByPid, NEW p \in Living(e)' PROVE p \in Young(e)' \/ pidfile'[e] = p
    <3>1. CASE p \in Living(e)
      BY <3>1 DEF Pidfiles, Tracked
    <3>2. CASE p \notin Living(e)
      BY <2>1, <3>2
    <3>q. QED
      BY <3>1, <3>2
  <2>q. QED
    BY <2>1, Zenon DEF Tracked
<1>3. OwnDyndns'
  BY <1>1 DEF Pidfiles, OwnDyndns
<1>4. ~ \E u \in Processes : Do(u, "unlink", "dhcrelay")
  <2>1. ASSUME NEW u \in Processes, Do(u, "unlink", "dhcrelay") PROVE FALSE
    <3>1. Busy(r) /\ Head(todo[r]) = <<a, d>> /\ Busy(u) /\ Head(todo[u]) = <<"unlink", "dhcrelay">>
      BY <2>1, DoBusy
    <3>2. u = r
      BY <3>1, OnlyOne
    <3>q. QED
      BY <3>1, <3>2
  <2>q. QED
    BY <2>1
<1>5. \A p \in Pids : pidfile'["dhcrelay"] = p => p \in Living("dhcrelay")'
  BY <1>1, <1>4, Zenon DEF Pidfiles, OwnDhcrelay
<1>6. OwnDhcrelay'
  BY <1>5, Zenon DEF OwnDhcrelay
<1>q. QED
  BY <1>2, <1>3, <1>6, Zenon DEF Pidfiles

\* Signals to processes of the daemon d.
LEMMA KillSame ==
  ASSUME ProcType, NEW ps, NEW d, ps \subseteq Running(d), Kill(ps), etc' = etc
  PROVE  /\ \A e : /\ Running(e)' = Running(e) /\ Young(e)' = Young(e)
                   /\ e # d => Living(e)' = Living(e)
                   /\ e # d /\ pidfile'["bgpd"] = pidfile["bgpd"] => Same(e)
         /\ Living(d)' = Living(d) \ ps
<1>1. \A e : \A p \in Running(e) : p \in Pids /\ proc[p] # NoProc /\ proc[p].svc = e
  BY DEF Running
<1>2. \A p \in ps : p \in Pids /\ proc[p] # NoProc /\ proc[p].svc = d
  BY <1>1
<1>3. /\ \A e : Running(e)' = Running(e) /\ Living(e)' = Living(e) \ ps /\ Young(e)' = Young(e)
      /\ \A p \in Pids : proc[p] # NoProc => proc'[p].conf = proc[p].conf
  BY <1>2, KillEffect, Zenon
<1>4. \A e : Living(e) \subseteq Running(e)
  BY DEF Living
<1>5. ASSUME NEW e, e # d PROVE Living(e)' = Living(e)
  BY <1>1, <1>2, <1>3, <1>4, <1>5
<1>6. ASSUME NEW e, e # d, pidfile'["bgpd"] = pidfile["bgpd"] PROVE Same(e)
  BY <1>1, <1>3, <1>4, <1>5, <1>6, Zenon DEF Same
<1>q. QED
  BY <1>3, <1>5, <1>6, Zenon

LEMMA CalmPkill ==
  ASSUME TypeInv, SoloInv, CalmInv, calm, NEW r \in Processes, NEW d, Pkill(r, d)
  PROVE  CalmInv'
<1>1. Do(r, "pkill", d) /\ Kill(Running(d)) /\ Then(r, <<>>) /\ UNCHANGED <<etc, pidfile, filter, calm>>
  BY DEF Pkill
<1>2. /\ Busy(r) /\ d \in Dhcpds \cup {"dnsmasq", "relayd"} /\ d \in Daemons
      /\ pc' = pc /\ view' = view /\ stored' = stored
  BY <1>1, DoBusy, DoHas, Whose DEF Then
<1>3. ProcType
  BY DEF TypeInv, TypeOK, ProcType
<1>4. /\ \A e : Running(e)' = Running(e) /\ Young(e)' = Young(e) /\ (e # d => Living(e)' = Living(e) /\ Same(e))
      /\ Living(d)' = {}
  <2>1. Running(d) \subseteq Running(d) /\ Living(d) \ Running(d) = {}
    BY DEF Living
  <2>q. QED
    BY <1>1, <1>3, <2>1, KillSame, Zenon
<1>5. State(r, d) /\ Pidfiles
  BY <1>2, Zenon DEF CalmInv, Pidfiles
<1>6. State(r, d)'
  <2>1. CASE d \in Servers
    <3>1. First(d) = "pkill" /\ ServerState(r, d)
      BY <1>2, <1>5, <2>1, ServerKinds DEF State, First
    <3>2. ServerState(r, d)'
      BY <1>1, <1>4, <2>1, <3>1, EndStep
    <3>q. QED
      BY <2>1, <3>2 DEF State
  <2>2. CASE d \notin Servers
    <3>1. d = "relayd"
      BY <1>2, <2>2 DEF Servers
    <3>2. RelaydState(r)
      BY <1>5, <2>2, <3>1 DEF State
    <3>3. RelaydState(r)'
      BY <1>1, <1>4, <3>1, <3>2, RelaydKill
    <3>q. QED
      BY <2>2, <3>1, <3>3 DEF State
  <2>q. QED
    BY <2>1, <2>2
<1>7. \A e \in ByPid : e # d
  BY <1>2, Kinds DEF ByPid
<1>8. BgpdFile'
  BY <1>1, <1>4, <1>5 DEF Pidfiles, BgpdFile
<1>9. Pidfiles'
  <2>1. \A e \in ByPid : /\ pidfile'[e] = pidfile[e]
                          /\ Living(e) \subseteq Living(e)' /\ Young(e) \subseteq Young(e)'
                          /\ Living(e)' \ Living(e) \subseteq Young(e)'
                          /\ Running(e) \subseteq Running(e)'
    BY <1>1, <1>4, <1>7
  <2>2. "pkill" # "unlink"
    OBVIOUS
  <2>q. QED
    BY <1>1, <1>5, <1>8, <2>1, <2>2, PidsSame, Zenon
<1>10. \A e \in Daemons : e # d => Same(e) /\ Left(r, e)
  <2>1. \A e : e # d => Left(r, e)
    BY <1>1, LeftOver
  <2>q. QED
    BY <1>4, <2>1, Zenon
<1>q. QED
  BY <1>2, <1>6, <1>9, <1>10, CalmRest, Zenon

LEMMA NextDo ==
  ASSUME TypeInv, NEW r \in Processes, NEW a \in StepNames, NEW y \in StepNames, NEW d \in Daemons,
         Do(r, a, d), Then(r, <<>>), \A b \in BOOLEAN : Link(view[r], b, a, y, d)
  PROVE  Do(r, y, d)'
<1>1. /\ pc[r] = "run" /\ todo[r] # <<>> /\ Head(todo[r]) = <<a, d>> /\ todo[r] \in Seq(Steps)
  BY DoIs DEF TypeInv
<1>2. PICK q \in Seq(Steps) : q = todo[r] /\ q # <<>> /\ Head(q) = <<a, d>>
  BY <1>1
<1>3. PICK t \in Seq(Steps) : t = Tail(q)
  BY <1>2, TailOf
<1>4. todo'[r] = t /\ pc' = pc
  BY <1>1, <1>2, <1>3, ThenEffect
<1>5. PICK b \in BOOLEAN : Plan(q, view[r], b)
  BY <1>2, PlanOf
<1>6. 1 \in DOMAIN q /\ q[1] = <<a, d>>
  BY <1>2, TailOf
<1>7. Followed(q, view[r], b) /\ Link(view[r], b, a, y, d)
  BY <1>5 DEF Plan
<1>8. \A i \in DOMAIN q : q[i] = <<a, d>> => i + 1 \in DOMAIN q /\ q[i + 1] = <<y, d>>
  BY <1>7, Zenon DEF Followed
<1>9. 2 \in DOMAIN q /\ q[2] = <<y, d>>
  <2>1. 1 + 1 = 2
    OBVIOUS
  <2>q. QED
    BY <1>6, <1>8, <2>1
<1>10. 1 \in DOMAIN t /\ t[1] = <<y, d>>
  <2>1. \A i \in DOMAIN q : i # 1 => i - 1 \in DOMAIN t /\ q[i] = t[i - 1]
    BY <1>2, <1>3, TailOf
  <2>2. 2 # 1 /\ 2 - 1 = 1
    OBVIOUS
  <2>q. QED
    BY <1>9, <2>1, <2>2
<1>11. t # <<>> /\ Head(t) = <<y, d>>
  BY <1>10
<1>12. todo'[r] # <<>> /\ Head(todo'[r]) = <<y, d>> /\ pc'[r] = "run"
  BY <1>1, <1>4, <1>11
<1>13. Head(todo'[r])[1] = y /\ Head(todo'[r])[2] = d
  BY <1>12
<1>q. QED
  BY <1>12, <1>13, Zenon DEF Do, Target

LEMMA CalmPidKill ==
  ASSUME TypeInv, SoloInv, CalmInv, calm, NEW r \in Processes, NEW d, PidKill(r, d), calm'
  PROVE  CalmInv'
<1> DEFINE ps == {pidfile[d]} \cap {p \in Pids : proc[p] # NoProc}
<1>1. Do(r, "pidkill", d) /\ Kill(ps) /\ Then(r, <<>>) /\ UNCHANGED <<etc, pidfile, filter>>
  BY DEF PidKill
<1>2. /\ Busy(r) /\ d \in ByPid /\ d \in Daemons
      /\ pc' = pc /\ view' = view /\ stored' = stored
  BY <1>1, DoBusy, DoHas, Whose DEF Then
<1>3. ProcType
  BY DEF TypeInv, TypeOK, ProcType
<1>4. State(r, d) /\ Pidfiles
  BY <1>2, Zenon DEF CalmInv, Pidfiles
<1>5. ps \subseteq Running(d)
  <2>1. ASSUME NEW p \in ps PROVE p \in Running(d)
    <3>1. p \in Pids /\ pidfile[d] = p /\ proc[p] # NoProc
      BY <2>1
    <3>2. CASE d = "dyndns"
      BY <1>4, <3>1, <3>2 DEF Pidfiles, OwnDyndns
    <3>3. CASE d = "dhcrelay"
      BY <1>4, <3>1, <3>3 DEF Pidfiles, OwnDhcrelay, Living
    <3>q. QED
      BY <1>2, <3>2, <3>3 DEF ByPid
  <2>q. QED
    BY <2>1
<1>6. PICK ks : ks = ps
  OBVIOUS
<1>7. ks \subseteq Running(d) /\ Kill(ks)
  BY <1>1, <1>5, <1>6
<1>8. /\ \A e : Running(e)' = Running(e) /\ Young(e)' = Young(e) /\ (e # d => Living(e)' = Living(e) /\ Same(e))
      /\ Living(d)' = Living(d) \ ks
  BY <1>1, <1>3, <1>7, KillSame, Zenon
<1>9. Living(d)' = {}
  <2>1. ~ \E p \in Living(d) : proc[p].young
    BY Zenon DEF PidKill
  <2>2. \A p \in Living(d) : p \in Pids /\ proc[p] # NoProc /\ p \notin Young(d)
    BY <2>1, Zenon DEF Living, Running, Young
  <2>3. \A p \in Living(d) : pidfile[d] = p
    BY <1>2, <1>4, <2>2, Zenon DEF Pidfiles, Tracked
  <2>4. \A p \in Living(d) : p \in ks
    BY <1>6, <2>2, <2>3
  <2>q. QED
    BY <1>8, <2>4
<1>10. State(r, d)'
  <2>1. First(d) = "pidkill" /\ d \in Servers
    BY <1>2, Kinds DEF First, Servers, ByPid
  <2>2. ServerState(r, d)
    BY <1>4, <2>1 DEF State
  <2>3. ServerState(r, d)'
    BY <1>1, <1>8, <1>9, <2>1, <2>2, EndStep
  <2>q. QED
    BY <2>1, <2>3 DEF State
<1>11. BgpdFile'
  BY <1>1, <1>4, <1>8 DEF Pidfiles, BgpdFile
<1>12. Tracked'
  <2>1. ASSUME NEW e \in ByPid, NEW p \in Living(e)' PROVE p \in Young(e)' \/ pidfile'[e] = p
    <3>1. e # d
      BY <1>9, <2>1
    <3>q. QED
      BY <1>1, <1>4, <1>8, <2>1, <3>1 DEF Pidfiles, Tracked
  <2>q. QED
    BY <2>1, Zenon DEF Tracked
<1>13. OwnDyndns'
  BY <1>1, <1>4, <1>8 DEF Pidfiles, OwnDyndns
<1>14. OwnDhcrelay'
  <2>0. ~ \E u \in Processes : Do(u, "unlink", "dhcrelay")
    <3>1. ASSUME NEW u \in Processes, Do(u, "unlink", "dhcrelay") PROVE FALSE
      <4>1. Head(todo[r]) = <<"pidkill", d>> /\ Busy(u) /\ Head(todo[u]) = <<"unlink", "dhcrelay">>
        BY <1>1, <3>1, DoBusy
      <4>2. u = r
        BY <1>2, <4>1, OnlyOne
      <4>q. QED
        BY <4>1, <4>2
    <3>q. QED
      BY <3>1
  <2>1. \A p \in Pids : pidfile'["dhcrelay"] = p => p \in Living("dhcrelay")
    BY <1>1, <1>4, <2>0, Zenon DEF Pidfiles, OwnDhcrelay
  <2>2. CASE d # "dhcrelay"
    <3>1. Living("dhcrelay")' = Living("dhcrelay")
      BY <1>8, <2>2
    <3>q. QED
      BY <2>1, <3>1, Zenon DEF OwnDhcrelay
  <2>3. CASE d = "dhcrelay"
    <3>1. \A b \in BOOLEAN : Link(view[r], b, "pidkill", "unlink", d)
      BY <2>3, Links
    <3>2. "pidkill" \in StepNames /\ "unlink" \in StepNames
      BY DEF StepNames
    <3>3. Do(r, "unlink", d)'
      BY <1>1, <1>2, <3>1, <3>2, NextDo
    <3>4. \A p \in Living("dhcrelay") : p \in Running("dhcrelay")'
      BY <1>8 DEF Living
    <3>q. QED
      BY <2>1, <2>3, <3>3, <3>4, Zenon DEF OwnDhcrelay
  <2>q. QED
    BY <2>2, <2>3
<1>15. \A e \in Daemons : e # d => Same(e) /\ Left(r, e)
  <2>1. \A e : e # d => Left(r, e)
    BY <1>1, LeftOver
  <2>q. QED
    BY <1>8, <2>1, Zenon
<1>16. Pidfiles'
  BY <1>11, <1>12, <1>13, <1>14, Zenon DEF Pidfiles
<1>q. QED
  BY <1>2, <1>10, <1>15, <1>16, CalmRest, Zenon

LEMMA ProcSame ==
  ASSUME proc' = proc
  PROVE  /\ \A e : Running(e)' = Running(e) /\ Living(e)' = Living(e) /\ Young(e)' = Young(e)
         /\ \A e : /\ e \in ByFile => etc'[e] = etc[e]
                   /\ e = "bgpd" => pidfile'["bgpd"] = pidfile["bgpd"]
                   => Same(e)
<1>1. \A e : Running(e)' = Running(e) /\ Living(e)' = Living(e) /\ Young(e)' = Young(e)
  BY DEF Running, Living, Young
<1>q. QED
  BY <1>1, Zenon DEF Same

LEMMA CalmUnlink ==
  ASSUME TypeInv, SoloInv, CalmInv, calm, NEW r \in Processes, NEW d, Unlink(r, d)
  PROVE  CalmInv'
<1>1. /\ Do(r, "unlink", d) /\ Then(r, <<>>) /\ UNCHANGED <<etc, proc, filter, calm>>
      /\ pidfile' = [pidfile EXCEPT ![d] = NoPid]
  BY DEF Unlink
<1>2. /\ Busy(r) /\ d = "dhcrelay" /\ d \in Daemons /\ d \in Servers /\ d \in ByPid
      /\ pc' = pc /\ view' = view /\ stored' = stored
  BY <1>1, DoBusy, DoHas, Whose DEF Then, Servers, ByPid
<1>3. State(r, d) /\ Pidfiles /\ view[r] \in Config
  BY <1>2, Zenon DEF CalmInv, Pidfiles, TypeInv, TypeOK
<1>4. /\ pidfile'["dhcrelay"] = NoPid /\ pidfile'["dyndns"] = pidfile["dyndns"]
      /\ pidfile'["bgpd"] = pidfile["bgpd"]
  BY <1>1, <1>2 DEF TypeInv, TypeOK, ByPid
<1>5. /\ \A e : Running(e)' = Running(e) /\ Living(e)' = Living(e) /\ Young(e)' = Young(e)
      /\ \A e : Same(e)
  BY <1>1, <1>4, ProcSame
<1>6. \A e : Left(r, e)
  <2>1. (\A e : e # d => Left(r, e)) /\ Left(r, d)
    BY <1>1, LeftOver
  <2>q. QED
    BY <2>1
<1>7. State(r, d)'
  BY <1>2, <1>3, <1>5, <1>6, StateFrame
<1>8. Living("dhcrelay") = {}
  <2>1. "pidkill" \in StepNames /\ "unlink" \in StepNames
    BY DEF StepNames
  <2>2. ~Has(todo'[r], "pidkill", d) /\ ~Has(todo'[r], "unlink", d)
    <3>1. \A b \in BOOLEAN : Link(view[r], b, "pidkill", "unlink", d)
      BY <1>2, Links
    <3>q. QED
      BY <1>1, <1>2, <2>1, <3>1, NotLeft, LeftOver
  <2>3. \A x : Has(todo[r], x, d) <=> Has(todo'[r], x, d) \/ x = "unlink"
    BY <1>1, LeftOver
  <2>4. ~Ends(r, d)
    <3>1. First(d) = "pidkill"
      BY <1>2, Kinds DEF First, ByPid
    <3>2. "pidkill" # "unlink"
      OBVIOUS
    <3>q. QED
      BY <2>2, <2>3, <3>1, <3>2, Zenon DEF Ends
  <2>5. ServerState(r, d)
    BY <1>2, <1>3 DEF State
  <2>6. CASE Starting(r, d)
    BY <1>2, <2>4, <2>5, <2>6, Zenon DEF ServerState
  <2>7. CASE ~Starting(r, d)
    <3>1. PICK b \in BOOLEAN : Plan(todo[r], view[r], b)
      BY PlanOf
    <3>2. Has(todo[r], "unlink", d)
      BY <2>3
    <3>3. ~Enabled(view[r], d)
      BY <1>2, <2>7, <3>1, <3>2, Chain, Zenon DEF Starting
    <3>4. view[r][d] # Gone
      BY <1>2, <1>3, NamedSetting
    <3>5. Serves(d, view[r])
      BY <2>4, <2>5, <2>7, <3>4, Zenon DEF ServerState
    <3>q. QED
      BY <1>2, <3>3, <3>5, Zenon DEF Serves
  <2>q. QED
    BY <2>6, <2>7
<1>9. Tracked'
  BY <1>3, <1>4, <1>5, <1>8 DEF Pidfiles, Tracked, ByPid
<1>10. OwnDyndns' /\ BgpdFile'
  BY <1>3, <1>4, <1>5 DEF Pidfiles, OwnDyndns, BgpdFile
<1>11. OwnDhcrelay'
  <2>1. NoPid \notin Pids
    BY ServicesAssumption
  <2>q. QED
    BY <1>4, <2>1, Zenon DEF OwnDhcrelay
<1>12. Pidfiles'
  BY <1>9, <1>10, <1>11, Zenon DEF Pidfiles
<1>q. QED
  BY <1>2, <1>5, <1>6, <1>7, <1>12, CalmRest, Zenon

\* Steps that leave the pid files and the processes alone.
LEMMA PidsQuiet ==
  ASSUME TypeInv, SoloInv, calm, Pidfiles, NEW r \in Processes, NEW a, NEW d, Do(r, a, d), a # "unlink",
         proc' = proc, pidfile' = pidfile
  PROVE  Pidfiles'
<1>1. \A e : Running(e)' = Running(e) /\ Living(e)' = Living(e) /\ Young(e)' = Young(e)
  BY ProcSame
<1>2. BgpdFile'
  BY <1>1 DEF Pidfiles, BgpdFile
<1>3. \A e \in ByPid : /\ pidfile'[e] = pidfile[e]
                       /\ Living(e) \subseteq Living(e)' /\ Young(e) \subseteq Young(e)'
                       /\ Living(e)' \ Living(e) \subseteq Young(e)'
                       /\ Running(e) \subseteq Running(e)'
  BY <1>1
<1>q. QED
  BY <1>2, <1>3, PidsSame, Zenon

LEMMA CalmQuiet ==
  ASSUME TypeInv, SoloInv, CalmInv, calm, NEW r \in Processes, NEW d,
         Sleep(r, d) \/ Filter(r, d) \/ Write(r, d)
  PROVE  CalmInv'
<1>1. CASE Sleep(r, d)
  <2>1. Do(r, "sleep", d) /\ Then(r, <<>>) /\ UNCHANGED <<etc, proc, pidfile, filter, calm>>
    BY <1>1 DEF Sleep, system
  <2>2. /\ Busy(r) /\ d \in Servers /\ d \in Daemons
        /\ pc' = pc /\ view' = view /\ stored' = stored
    BY <2>1, DoBusy, DoHas, Whose DEF Then
  <2>3. State(r, d) /\ Pidfiles
    BY <2>2, Zenon DEF CalmInv, Pidfiles
  <2>4. State(r, d)'
    <3>1. ServerState(r, d)
      BY <2>2, <2>3 DEF State
    <3>2. ServerState(r, d)'
      BY <1>1, <2>2, <3>1, SleepStep
    <3>q. QED
      BY <2>2, <3>2 DEF State
  <2>5. Pidfiles'
    <3>1. "sleep" # "unlink"
      OBVIOUS
    <3>q. QED
      BY <2>1, <2>3, <3>1, PidsQuiet, Zenon
  <2>6. \A e \in Daemons : e # d => Same(e) /\ Left(r, e)
    <3>1. \A e : e # d => Left(r, e)
      BY <2>1, LeftOver
    <3>2. \A e : Same(e)
      BY <2>1, ProcSame
    <3>q. QED
      BY <3>1, <3>2, Zenon
  <2>q. QED
    BY <2>2, <2>4, <2>5, <2>6, CalmRest, Zenon
<1>2. CASE Filter(r, d)
  <2>1. Do(r, "filter", d) /\ Then(r, <<>>) /\ UNCHANGED <<etc, proc, pidfile, calm>>
    BY <1>2 DEF Filter
  <2>2. /\ Busy(r) /\ d \in Daemons
        /\ pc' = pc /\ view' = view /\ stored' = stored
    BY <2>1, DoBusy, DoHas, Whose DEF Then
  <2>3. State(r, d) /\ Pidfiles
    BY <2>2, Zenon DEF CalmInv, Pidfiles
  <2>4. \A e : Same(e) /\ Left(r, e)
    <3>1. (\A e : e # d => Left(r, e)) /\ Left(r, d)
      BY <2>1, LeftOver
    <3>2. \A e : Same(e)
      BY <2>1, ProcSame
    <3>q. QED
      BY <3>1, <3>2
  <2>5. State(r, d)'
    BY <2>2, <2>3, <2>4, StateFrame
  <2>6. Pidfiles'
    <3>1. "filter" # "unlink"
      OBVIOUS
    <3>q. QED
      BY <2>1, <2>3, <3>1, PidsQuiet, Zenon
  <2>q. QED
    BY <2>2, <2>4, <2>5, <2>6, CalmRest, Zenon
<1>3. CASE Write(r, d)
  <2>1. Do(r, "write", d) /\ Then(r, <<>>) /\ UNCHANGED <<proc, pidfile, filter, calm>>
    BY <1>3 DEF Write
  <2>2. /\ Busy(r) /\ d \in ByFile /\ d \in Daemons
        /\ pc' = pc /\ view' = view /\ stored' = stored
    BY <2>1, DoBusy, DoHas, Whose DEF Then
  <2>3. State(r, d) /\ Pidfiles
    BY <2>2, Zenon DEF CalmInv, Pidfiles
  <2>4. State(r, d)'
    <3>1. CASE d \in Servers
      <4>1. ServerState(r, d)
        BY <2>3, <3>1 DEF State
      <4>2. ServerState(r, d)'
        BY <1>3, <3>1, <4>1, WriteStep
      <4>q. QED
        BY <3>1, <4>2 DEF State
    <3>2. CASE d \notin Servers /\ d = "bgpd"
      <4>1. BgpdState(r)
        BY <2>3, <3>2 DEF State
      <4>2. BgpdState(r)'
        BY <1>3, <3>2, <4>1, BgpdWrite
      <4>q. QED
        BY <3>2, <4>2 DEF State
    <3>3. CASE d \notin Servers /\ d # "bgpd"
      <4>1. d = "relayd"
        BY <2>2, <3>3, Kinds DEF Servers, ByPid
      <4>2. RelaydState(r)'
        BY <1>3, <4>1, RelaydWrite
      <4>q. QED
        BY <3>3, <4>2 DEF State
    <3>q. QED
      BY <3>1, <3>2, <3>3
  <2>5. Pidfiles'
    <3>1. "write" # "unlink"
      OBVIOUS
    <3>q. QED
      BY <2>1, <2>3, <3>1, PidsQuiet, Zenon
  <2>6. \A e \in Daemons : e # d => Same(e) /\ Left(r, e)
    <3>1. \A e : e # d => Left(r, e)
      BY <2>1, LeftOver
    <3>2. \A e \in ByFile : e # d => etc'[e] = etc[e]
      <4>1. PICK v : etc' = [etc EXCEPT ![d] = v]
        BY <1>3, Zenon DEF Write
      <4>q. QED
        BY <4>1 DEF TypeInv, TypeOK
    <3>3. \A e : e # d => Same(e)
      BY <2>1, <3>2, ProcSame
    <3>q. QED
      BY <3>1, <3>3, Zenon
  <2>q. QED
    BY <2>2, <2>4, <2>5, <2>6, CalmRest, Zenon
<1>q. QED
  BY <1>1, <1>2, <1>3

LEMMA CalmBgpd ==
  ASSUME TypeInv, SoloInv, CalmInv, calm, NEW r \in Processes, Check(r) \/ Pgrep(r) \/ Reload(r)
  PROVE  CalmInv'
<1>k. "bgpd" \in Daemons /\ "bgpd" \notin Servers /\ "bgpd" \notin ByPid
  BY Kinds DEF Servers, ByPid
<1>1. CASE Check(r)
  <2>1. Do(r, "check", "bgpd") /\ UNCHANGED <<etc, proc, pidfile, filter, calm, pc, view, stored>>
    BY <1>1 DEF Check, system, Then
  <2>2. Busy(r) /\ pc' = pc /\ view' = view /\ stored' = stored
    BY <2>1, DoBusy
  <2>3. State(r, "bgpd") /\ Pidfiles
    BY <1>k, <2>2, Zenon DEF CalmInv, Pidfiles
  <2>4. BgpdState(r) /\ BgpdFile
    BY <1>k, <2>3 DEF State, Pidfiles
  <2>5. BgpdState(r)' /\ \A e : e # "bgpd" => Left(r, e)
    BY <1>1, <2>4, BgpdCheck
  <2>6. State(r, "bgpd")'
    BY <1>k, <2>5 DEF State
  <2>7. Pidfiles'
    <3>1. "check" # "unlink"
      OBVIOUS
    <3>q. QED
      BY <2>1, <2>3, <3>1, PidsQuiet, Zenon
  <2>8. \A e \in Daemons : e # "bgpd" => Same(e) /\ Left(r, e)
    <3>1. \A e : Same(e)
      BY <2>1, ProcSame
    <3>q. QED
      BY <2>5, <3>1, Zenon
  <2>q. QED
    BY <2>2, <2>6, <2>7, <2>8, CalmRest, Zenon
<1>2. CASE Pgrep(r)
  <2>1. Do(r, "pgrep", "bgpd") /\ Then(r, <<>>) /\ UNCHANGED <<etc, proc, filter, calm>>
    BY <1>2 DEF Pgrep
  <2>2. Busy(r) /\ pc' = pc /\ view' = view /\ stored' = stored
    BY <2>1, DoBusy DEF Then
  <2>3. State(r, "bgpd") /\ Pidfiles
    BY <1>k, <2>2, Zenon DEF CalmInv, Pidfiles
  <2>4. BgpdState(r)
    BY <1>k, <2>3 DEF State
  <2>5. BgpdState(r)' /\ pidfile'["bgpd"] # NoPid /\ \A d \in ByPid : pidfile'[d] = pidfile[d]
    BY <1>2, <2>4, BgpdPgrep
  <2>6. State(r, "bgpd")'
    BY <1>k, <2>5 DEF State
  <2>7. \A e : Running(e)' = Running(e) /\ Living(e)' = Living(e) /\ Young(e)' = Young(e)
    BY <2>1, ProcSame
  <2>8. Pidfiles'
    <3>1. BgpdFile'
      BY <2>5 DEF BgpdFile
    <3>2. "pgrep" # "unlink"
      OBVIOUS
    <3>3. \A e \in ByPid : /\ pidfile'[e] = pidfile[e]
                           /\ Living(e) \subseteq Living(e)' /\ Young(e) \subseteq Young(e)'
                           /\ Living(e)' \ Living(e) \subseteq Young(e)'
                           /\ Running(e) \subseteq Running(e)'
      BY <2>5, <2>7
    <3>q. QED
      BY <2>1, <2>3, <3>1, <3>2, <3>3, PidsSame, Zenon
  <2>9. \A e \in Daemons : e # "bgpd" => Same(e) /\ Left(r, e)
    <3>1. \A e : e # "bgpd" => Left(r, e)
      BY <2>1, LeftOver
    <3>2. \A e : e # "bgpd" => Same(e)
      BY <2>1, ProcSame
    <3>q. QED
      BY <3>1, <3>2, Zenon
  <2>q. QED
    BY <2>2, <2>6, <2>8, <2>9, CalmRest, Zenon
<1>3. CASE Reload(r)
  <2>1. Do(r, "reload", "bgpd") /\ Then(r, <<>>) /\ UNCHANGED <<etc, pidfile, filter, calm>>
    BY <1>3 DEF Reload
  <2>2. Busy(r) /\ pc' = pc /\ view' = view /\ stored' = stored
    BY <2>1, DoBusy DEF Then
  <2>3. State(r, "bgpd") /\ Pidfiles
    BY <1>k, <2>2, Zenon DEF CalmInv, Pidfiles
  <2>4. BgpdState(r)
    BY <1>k, <2>3 DEF State
  <2>5. /\ BgpdState(r)'
        /\ \A d : /\ Running(d)' = Running(d) /\ Living(d)' = Living(d) /\ Young(d)' = Young(d)
                  /\ d # "bgpd" => \A p \in Living(d) : proc'[p].conf = proc[p].conf
    BY <1>3, <2>4, BgpdReload
  <2>6. State(r, "bgpd")'
    BY <1>k, <2>5 DEF State
  <2>7. Pidfiles'
    <3>1. BgpdFile'
      BY <2>1, <2>3, <2>5 DEF Pidfiles, BgpdFile
    <3>2. "reload" # "unlink"
      OBVIOUS
    <3>3. \A e \in ByPid : /\ pidfile'[e] = pidfile[e]
                           /\ Living(e) \subseteq Living(e)' /\ Young(e) \subseteq Young(e)'
                           /\ Living(e)' \ Living(e) \subseteq Young(e)'
                           /\ Running(e) \subseteq Running(e)'
      BY <2>1, <2>5
    <3>q. QED
      BY <2>1, <2>3, <3>1, <3>2, <3>3, PidsSame, Zenon
  <2>8. \A e \in Daemons : e # "bgpd" => Same(e) /\ Left(r, e)
    <3>1. \A e : e # "bgpd" => Left(r, e)
      BY <2>1, LeftOver
    <3>2. \A e : e # "bgpd" => Same(e)
      BY <2>1, <2>5, Zenon DEF Same
    <3>q. QED
      BY <3>1, <3>2, Zenon
  <2>q. QED
    BY <2>2, <2>6, <2>7, <2>8, CalmRest, Zenon
<1>q. QED
  BY <1>1, <1>2, <1>3

\* The other daemons, when d is started.
LEMMA StartSame ==
  ASSUME TypeInv, NEW r \in Processes, NEW d \in Daemons, Start(r, d)
  PROVE  /\ \A e : e # d => Same(e)
         /\ \A e : /\ Living(e) \subseteq Living(e)' /\ Young(e) \subseteq Young(e)'
                   /\ Running(e) \subseteq Running(e)'
                   /\ e \in ByPid => Living(e)' \ Living(e) \subseteq Young(e)'
                   /\ e # d => Running(e)' = Running(e)
<1>1. UNCHANGED <<etc, pidfile, filter>>
  BY DEF Start
<1>2. CASE Starts(r, d)
  <2>1. PICK p \in Pids : proc[p] = NoProc /\ proc' = [proc EXCEPT ![p] = NewProc(d, Given(r, d))]
    BY <1>2, StartEffect, Zenon
  <2>2. PICK v \in Values : v = Given(r, d)
    BY <1>2, StartEffect, Zenon
  <2>3. ProcType
    BY DEF TypeInv, TypeOK, ProcType
  <2>4. /\ \A e : e # d => Running(e)' = Running(e) /\ Living(e)' = Living(e) /\ Young(e)' = Young(e)
        /\ Running(d)' = Running(d) \cup {p} /\ Living(d)' = Living(d) \cup {p}
        /\ Young(d)' = IF d \in ByPid THEN Young(d) \cup {p} ELSE Young(d)
        /\ \A o \in Pids : o # p => proc'[o] = proc[o]
    BY <2>1, <2>2, <2>3, NewEffect, Zenon
  <2>5. \A e : \A o \in Living(e) : o \in Pids /\ o # p
    BY <2>1 DEF Living, Running
  <2>6. \A e : e # d => Same(e)
    BY <1>1, <2>4, <2>5, Zenon DEF Same
  <2>7. ASSUME NEW e
        PROVE  /\ Living(e) \subseteq Living(e)' /\ Young(e) \subseteq Young(e)'
               /\ Running(e) \subseteq Running(e)'
               /\ e \in ByPid => Living(e)' \ Living(e) \subseteq Young(e)'
    <3>1. CASE e = d
      BY <2>4, <3>1
    <3>2. CASE e # d
      BY <2>4, <3>2
    <3>q. QED
      BY <3>1, <3>2
  <2>q. QED
    BY <2>4, <2>6, <2>7
<1>3. CASE ~Starts(r, d)
  <2>1. proc' = proc
    BY <1>3, StartEffect, Zenon
  <2>2. /\ \A e : Running(e)' = Running(e) /\ Living(e)' = Living(e) /\ Young(e)' = Young(e)
        /\ \A e : Same(e)
    BY <1>1, <2>1, ProcSame
  <2>q. QED
    BY <2>2
<1>q. QED
  BY <1>2, <1>3

LEMMA CalmStart ==
  ASSUME TypeInv, SoloInv, CalmInv, calm, NEW r \in Processes, NEW d, Start(r, d)
  PROVE  CalmInv'
<1>1. Do(r, "start", d) /\ Then(r, <<>>) /\ UNCHANGED <<etc, pidfile, filter, calm>>
  BY DEF Start
<1>2. /\ Busy(r) /\ d \in Daemons
      /\ pc' = pc /\ view' = view /\ stored' = stored
  BY <1>1, DoBusy, DoHas, Whose DEF Then
<1>3. State(r, d) /\ Pidfiles
  BY <1>2, Zenon DEF CalmInv, Pidfiles
<1>4. State(r, d)' /\ (d = "bgpd" => pidfile'["bgpd"] # NoPid)
  <2>1. CASE d \in Servers
    <3>1. ServerState(r, d) /\ d # "bgpd"
      BY <1>3, <2>1, ServerKinds DEF State
    <3>2. ServerState(r, d)'
      BY <2>1, <3>1, StartStep
    <3>q. QED
      BY <2>1, <3>1, <3>2 DEF State
  <2>2. CASE d \notin Servers /\ d = "bgpd"
    <3>1. BgpdState(r)
      BY <1>3, <2>2 DEF State
    <3>2. BgpdState(r)' /\ pidfile'["bgpd"] # NoPid
      BY <2>2, <3>1, BgpdStart
    <3>q. QED
      BY <2>2, <3>2 DEF State
  <2>3. CASE d \notin Servers /\ d # "bgpd"
    <3>1. d = "relayd"
      BY <1>2, <2>3, Kinds DEF Servers, ByPid
    <3>2. RelaydState(r)
      BY <1>3, <2>3 DEF State
    <3>3. RelaydState(r)'
      BY <3>1, <3>2, RelaydStart
    <3>q. QED
      BY <2>3, <3>3 DEF State
  <2>q. QED
    BY <2>1, <2>2, <2>3
<1>5. /\ \A e : e # d => Same(e)
      /\ \A e : /\ Living(e) \subseteq Living(e)' /\ Young(e) \subseteq Young(e)'
                /\ Running(e) \subseteq Running(e)'
                /\ e \in ByPid => Living(e)' \ Living(e) \subseteq Young(e)'
                /\ e # d => Running(e)' = Running(e)
  BY <1>2, StartSame
<1>6. BgpdFile'
  <2>1. CASE d = "bgpd"
    BY <1>4, <2>1 DEF BgpdFile
  <2>2. CASE d # "bgpd"
    BY <1>1, <1>3, <1>5, <2>2 DEF Pidfiles, BgpdFile
  <2>q. QED
    BY <2>1, <2>2
<1>7. Pidfiles'
  <2>1. "start" # "unlink"
    OBVIOUS
  <2>2. \A e \in ByPid : /\ pidfile'[e] = pidfile[e]
                         /\ Living(e) \subseteq Living(e)' /\ Young(e) \subseteq Young(e)'
                         /\ Living(e)' \ Living(e) \subseteq Young(e)'
                         /\ Running(e) \subseteq Running(e)'
    BY <1>1, <1>5, Zenon
  <2>q. QED
    BY <1>1, <1>3, <1>6, <2>1, <2>2, PidsSame, Zenon
<1>8. \A e \in Daemons : e # d => Same(e) /\ Left(r, e)
  <2>1. \A e : e # d => Left(r, e)
    BY <1>1, LeftOver
  <2>q. QED
    BY <1>5, <2>1, Zenon
<1>q. QED
  BY <1>2, <1>4, <1>7, <1>8, CalmRest, Zenon
-----------------------------------------------------------------------------
(* Between the calls. *)

LEMMA NothingLeft ==
  \A a, d : ~Has(<<>>, a, d)
BY DEF Has

LEMMA ServesValue ==
  ASSUME NEW d, NEW c, NEW e, c[d] = e[d]
  PROVE  Serves(d, c) <=> Serves(d, e)
<1>1. Enabled(c, d) <=> Enabled(e, d)
  BY DEF Enabled
<1>q. QED
  BY <1>1 DEF Serves

\* With nothing left to do, the daemons are what the configuration says.
IdleSettled == \A r \in Processes : todo[r] = <<>> /\ view[r] = stored /\ stored \in Config =>
                 ((\A d \in Daemons : State(r, d)) <=> Settled)

LEMMA Idle == IdleSettled
<1> SUFFICES ASSUME NEW r \in Processes, todo[r] = <<>>, view[r] = stored, stored \in Config
             PROVE  (\A d \in Daemons : State(r, d)) <=> Settled
  BY Zenon DEF IdleSettled
<1>1. \A a, d : ~Has(todo[r], a, d)
  BY NothingLeft
<1>2. \A d : ~Ends(r, d) /\ ~Starting(r, d)
  BY <1>1, Zenon DEF Ends, Starting
<1>3. \A d : ServerState(r, d) <=> (stored[d] # Gone => Serves(d, stored))
  BY <1>2, Zenon DEF ServerState
<1>4. RelaydState(r) <=> \A p \in Living("relayd") : proc[p].conf = stored["relayd"]
  BY <1>1, <1>2, Zenon DEF RelaydState
<1>5. BgpdState(r) <=> \A p \in Living("bgpd") : Enabled(stored, "bgpd") /\ stored["bgpd"] \notin Refused =>
                                                   proc[p].conf = stored["bgpd"]
  BY <1>1, <1>2, Zenon DEF BgpdState
<1>6. /\ "bgpd" \in Daemons /\ "relayd" \in Daemons /\ "bgpd" \notin Servers /\ "relayd" \notin Servers
      /\ Servers \subseteq Daemons /\ "bgpd" # "relayd"
      /\ \A d \in Daemons : d \in Servers \/ d = "bgpd" \/ d = "relayd"
  BY Kinds DEF Servers, ByPid
<1>7. /\ State(r, "bgpd") <=> BgpdState(r)
      /\ State(r, "relayd") <=> RelaydState(r)
      /\ \A d \in Servers : State(r, d) <=> ServerState(r, d)
  BY <1>6, Zenon DEF State
<1>8. ASSUME \A d \in Daemons : State(r, d) PROVE Settled
  BY <1>3, <1>4, <1>5, <1>6, <1>7, <1>8, Zenon DEF Settled
<1>9. ASSUME Settled, NEW d \in Daemons PROVE State(r, d)
  <2>1. CASE d \in Servers
    BY <1>3, <1>7, <1>9, <2>1, Zenon DEF Settled
  <2>2. CASE d = "bgpd"
    BY <1>5, <1>7, <1>9, <2>2, Zenon DEF Settled
  <2>3. CASE d = "relayd"
    BY <1>4, <1>7, <1>9, <2>3, Zenon DEF Settled
  <2>q. QED
    BY <1>6, <2>1, <2>2, <2>3
<1>q. QED
  BY <1>8, <1>9, Zenon

LEMMA IdleNext == IdleSettled'
  BY Idle, PTL

LEMMA SettledFrame ==
  ASSUME stored' = stored, Settled,
         \A d : Living(d)' = Living(d) /\ \A p \in Living(d) : proc'[p].conf = proc[p].conf
  PROVE  Settled'
<1>1. PICK c : c = stored
  OBVIOUS
<1>2. \A d \in Servers : c[d] # Gone => Serves(d, c)'
  BY <1>1, ServesFrame, Zenon DEF Settled
<1>3. \A d \in Servers : stored'[d] # Gone => Serves(d, stored)'
  BY <1>1, <1>2, Zenon DEF Serves, Enabled
<1>4. \A p \in Living("relayd")' : proc'[p].conf = stored'["relayd"]
  BY Zenon DEF Settled
<1>5. \A p \in Living("bgpd")' : Enabled(stored, "bgpd")' /\ stored'["bgpd"] \notin Refused =>
                                   proc'[p].conf = stored'["bgpd"]
  BY Zenon DEF Settled, Enabled
<1>q. QED
  BY <1>3, <1>4, <1>5, Zenon DEF Settled

\* One process of a daemon with a pid file at a time.
LEMMA StateSingle ==
  ASSUME TypeInv, NEW r \in Processes, NEW d \in ByPid, State(r, d)
  PROVE  Single(d)
<1>1. d \in Servers /\ view[r] \in Config /\ d \in {"dhcrelay", "dyndns"}
  BY DEF Servers, ByPid, TypeInv, TypeOK
<1>2. ServerState(r, d)
  BY <1>1 DEF State
<1>3. view[r][d] # Gone
  BY <1>1, NamedSetting
<1>4. CASE Ends(r, d)
  BY <1>2, <1>4, Zenon DEF ServerState
<1>5. CASE ~Ends(r, d) /\ Starting(r, d)
  <2>1. Living(d) = {}
    BY <1>2, <1>5, Zenon DEF ServerState
  <2>q. QED
    BY <2>1 DEF Single
<1>6. CASE ~Ends(r, d) /\ ~Starting(r, d)
  <2>1. Serves(d, view[r])
    BY <1>2, <1>3, <1>6, Zenon DEF ServerState
  <2>2. Living(d) = {} \/ \E p \in Pids : Living(d) = {p}
    BY <2>1, Zenon DEF Serves
  <2>q. QED
    BY <2>2 DEF Single
<1>q. QED
  BY <1>4, <1>5, <1>6

\* A process that is not in the middle of its steps.
LEMMA PidsStill ==
  ASSUME Pidfiles, proc' = proc, pidfile' = pidfile,
         \A u \in Processes : ~Do(u, "unlink", "dhcrelay")
  PROVE  Pidfiles'
<1>1. \A e : Running(e)' = Running(e) /\ Living(e)' = Living(e) /\ Young(e)' = Young(e)
  BY ProcSame
<1>2. Tracked' /\ OwnDyndns' /\ BgpdFile'
  BY <1>1, Zenon DEF Pidfiles, Tracked, OwnDyndns, BgpdFile
<1>3. \A p \in Pids : pidfile'["dhcrelay"] = p => p \in Living("dhcrelay")'
  BY <1>1, Zenon DEF Pidfiles, OwnDhcrelay
<1>4. OwnDhcrelay'
  BY <1>3, Zenon DEF OwnDhcrelay
<1>q. QED
  BY <1>2, <1>4, Zenon DEF Pidfiles

LEMMA NoUnlink ==
  ASSUME TypeInv, SoloInv, calm, NEW r \in Processes, todo[r] = <<>>,
         \A u \in Processes : Busy(u) => u = r
  PROVE  \A u \in Processes : ~Do(u, "unlink", "dhcrelay")
<1>1. ASSUME NEW u \in Processes, Do(u, "unlink", "dhcrelay") PROVE FALSE
  <2>1. Busy(u)
    BY <1>1, DoBusy
  <2>2. todo[u] # <<>>
    BY <1>1, DoIs DEF TypeInv
  <2>q. QED
    BY <2>1, <2>2
<1>q. QED
  BY <1>1

LEMMA CalmReturn ==
  ASSUME TypeInv, SoloInv, CalmInv, calm, NEW r \in Processes, Return(r) \/ End(r)
  PROVE  CalmInv'
<1>1. /\ Busy(r) /\ todo[r] = <<>> /\ calm' = calm /\ stored' = stored /\ stored \in Config
      /\ UNCHANGED <<etc, proc, pidfile, filter, todo>>
  BY DEF Return, End, Busy, system, TypeInv, TypeOK
<1>2. \A u \in Processes : Busy(u) => u = r
  BY <1>1, OnlyOne
<1>3. view[r] = stored /\ (\A d \in Daemons : State(r, d)) /\ Pidfiles
  BY <1>1, Zenon DEF CalmInv, Pidfiles
<1>4. Pidfiles'
  <2>1. \A u \in Processes : ~Do(u, "unlink", "dhcrelay")
    BY <1>1, <1>2, NoUnlink
  <2>q. QED
    BY <1>1, <1>3, <2>1, PidsStill
<1>5. CASE Return(r)
  <2>1. pc' = [pc EXCEPT ![r] = "end"] /\ view' = view
    BY <1>5 DEF Return
  <2>2. \A u \in Processes : Busy(u)' <=> Busy(u)
    BY <1>1, <2>1 DEF Busy, TypeInv, TypeOK
  <2>3. \A d \in Daemons : State(r, d)'
    <3>1. ASSUME NEW d \in Daemons PROVE State(r, d)'
      <4>1. Same(d) /\ Left(r, d)
        BY <1>1, <2>1, ProcSame DEF Left
      <4>q. QED
        BY <1>3, <4>1, StateFrame
    <3>q. QED
      BY <3>1
  <2>4. ASSUME NEW u \in Processes, Busy(u)' PROVE view'[u] = stored' /\ \A d \in Daemons : State(u, d)'
    <3>1. u = r
      BY <1>2, <2>2, <2>4
    <3>q. QED
      BY <1>1, <1>3, <2>1, <2>3, <3>1
  <2>5. ~ \A u \in Processes : ~Busy(u)'
    BY <1>1, <2>2
  <2>q. QED
    BY <1>4, <2>4, <2>5, Zenon DEF CalmInv, Pidfiles
<1>6. CASE End(r)
  <2>1. pc' = [pc EXCEPT ![r] = "idle"]
    BY <1>6 DEF End
  <2>2. \A u \in Processes : ~Busy(u)'
    BY <1>2, <2>1 DEF Busy, TypeInv, TypeOK
  <2>3. Settled
    BY <1>1, <1>3, Idle, Zenon DEF IdleSettled
  <2>4. Settled'
    <3>1. \A d : Living(d)' = Living(d) /\ \A p \in Living(d) : proc'[p].conf = proc[p].conf
      BY <1>1, ProcSame
    <3>q. QED
      BY <1>1, <2>3, <3>1, SettledFrame, Zenon
  <2>q. QED
    BY <1>4, <2>2, <2>4, Zenon DEF CalmInv, Pidfiles
<1>q. QED
  BY <1>5, <1>6

LEMMA CalmLoad ==
  ASSUME TypeInv, SoloInv, CalmInv, calm, NEW r \in Requests, Load(r), calm'
  PROVE  CalmInv'
<1>1. /\ r \in Processes /\ ~Busy(r) /\ todo[r] = <<>> /\ UNCHANGED <<stored, etc, proc, pidfile, todo>>
      /\ stored \in Config /\ pc' = [pc EXCEPT ![r] = "edit"] /\ view' = [view EXCEPT ![r] = stored]
  BY DEF Load, system, Busy, TypeInv, TypeOK, Processes
<1>2. \A u \in Processes : ~Busy(u)
  <2>1. solo'[r]
    BY Zenon DEF Load
  <2>2. solo'[r] <=> \A u \in Processes \ {r} : ~Busy(u)
    BY <1>1, Zenon DEF Load
  <2>q. QED
    BY <1>1, <2>1, <2>2
<1>3. Settled /\ Pidfiles
  BY <1>2, Zenon DEF CalmInv, Pidfiles
<1>4. Pidfiles'
  <2>1. \A u \in Processes : ~Do(u, "unlink", "dhcrelay")
    BY <1>1, <1>2, NoUnlink
  <2>q. QED
    BY <1>1, <1>3, <2>1, PidsStill
<1>5. Settled'
  <2>1. \A d : Living(d)' = Living(d) /\ \A p \in Living(d) : proc'[p].conf = proc[p].conf
    BY <1>1, ProcSame
  <2>q. QED
    BY <1>1, <1>3, <2>1, SettledFrame, Zenon
<1>6. \A d \in Daemons : State(r, d)'
  <2>2. todo'[r] = <<>> /\ view'[r] = stored' /\ stored' \in Config
    BY <1>1 DEF TypeInv, TypeOK
  <2>3. (\A d \in Daemons : State(r, d)') <=> Settled'
    BY <1>1, <2>2, IdleNext, Zenon DEF IdleSettled, Processes
  <2>q. QED
    BY <1>5, <2>3
<1>7. view'[r] = stored' /\ \A u \in Processes : Busy(u)' => u = r
  BY <1>1, <1>2 DEF Busy, TypeInv, TypeOK
<1>8. Busy(r)'
  BY <1>1 DEF Busy, TypeInv, TypeOK
<1>9. ~ \A u \in Processes : ~Busy(u)'
  BY <1>1, <1>8
<1>10. ASSUME NEW u \in Processes, Busy(u)' PROVE view'[u] = stored' /\ \A d \in Daemons : State(u, d)'
  <2>1. u = r
    BY <1>7, <1>10
  <2>q. QED
    BY <1>6, <1>7, <2>1
<1>q. QED
  BY <1>4, <1>9, <1>10, Zenon DEF CalmInv, Pidfiles
LEMMA NotAbout ==
  ASSUME NEW q, NEW d, ~About(q, d)
  PROVE  \A a : a # "filter" => ~Has(q, a, d)
BY DEF About, Has

\* A function of the interface has all of what it is to do ahead of it.
LEMMA NewServer ==
  ASSUME TypeInv, NEW r \in Requests, proc' = proc, NEW c, view'[r] = c, NEW ds,
         Whole(todo'[r], c, FALSE, ds), NEW e \in Servers, e \in ds, e \in ByPid => Single(e)
  PROVE  ServerState(r, e)'
<1>1. r # rcbootup
  BY ServicesAssumption
<1>2. e \in Daemons /\ First(e) \in {"pkill", "pidkill"}
  BY ServerKinds
<1>3. CASE c[e] # Gone
  <2>1. Ends(r, e)'
    BY <1>2, <1>3, Zenon DEF Whole, Ends
  <2>2. Living(e)' = Living(e)
    BY ProcSame
  <2>3. e \in ByPid => Single(e)'
    BY <2>2, Zenon DEF Single
  <2>q. QED
    BY <1>1, <2>1, <2>3, Zenon DEF ServerState
<1>4. CASE c[e] = Gone
  <2>1. ~About(todo'[r], e)
    BY <1>2, <1>4, Zenon DEF Whole
  <2>2. ~Ends(r, e)' /\ ~Starting(r, e)'
    BY <1>2, <2>1, NotAbout DEF Ends, Starting
  <2>q. QED
    BY <1>4, <2>2, Zenon DEF ServerState
<1>q. QED
  BY <1>3, <1>4

\* What has been settled is settled for the new configuration, but for what it is to change.
LEMMA CalmSave ==
  ASSUME TypeInv, SoloInv, CalmInv, calm, NEW r \in Requests, Save(r)
  PROVE  CalmInv'
<1>1. /\ r \in Processes /\ pc[r] = "edit" /\ Busy(r) /\ todo[r] = <<>> /\ UNCHANGED <<etc, proc, pidfile>>
      /\ stored \in Config /\ pc' = [pc EXCEPT ![r] = "run"]
  BY DEF Save, system, Busy, TypeInv, TypeOK, Processes
<1>2. \A u \in Processes : Busy(u) => u = r
  BY <1>1, OnlyOne
<1>3. view[r] = stored /\ (\A d \in Daemons : State(r, d)) /\ Pidfiles
  BY <1>1, Zenon DEF CalmInv, Pidfiles
<1>4. Pidfiles'
  <2>1. \A u \in Processes : ~Do(u, "unlink", "dhcrelay")
    BY <1>1, <1>2, NoUnlink
  <2>q. QED
    BY <1>1, <1>3, <2>1, PidsStill
<1>5. Settled
  BY <1>1, <1>3, Idle, Zenon DEF IdleSettled
<1>6. PICK d \in Daemons, c \in Config :
        /\ view'[r] = c /\ stored' = c /\ \A e \in Daemons : e # d => c[e] = view[r][e]
        /\ todo'[r] = Function(c, d) /\ Whole(todo'[r], c, FALSE, Group(d))
  BY SaveEffect, Zenon
<1>7. \A e : /\ Living(e)' = Living(e) /\ Running(e)' = Running(e)
             /\ \A p \in Living(e) : proc'[p].conf = proc[p].conf
  BY <1>1, ProcSame
<1>8. \A e \in Daemons : e \notin Group(d) => c[e] = stored[e] /\ ~About(todo'[r], e)
  BY <1>3, <1>6, Zenon DEF Group, Whole
<1>9. ASSUME NEW e \in Servers PROVE ServerState(r, e)'
  <2>1. CASE e \in Group(d)
    <3>1. e \in ByPid => Single(e)
      BY <1>1, <1>3, StateSingle DEF Daemons
    <3>q. QED
      BY <1>1, <1>6, <2>1, <3>1, NewServer, Zenon
  <2>2. CASE e \notin Group(d)
    <3>1. e \in Daemons /\ First(e) # "filter"
      BY ServerKinds
    <3>2. ~Ends(r, e)' /\ ~Starting(r, e)'
      BY <1>8, <2>2, <3>1, NotAbout DEF Ends, Starting
    <3>3. c[e] = stored[e]
      BY <1>8, <2>2, <3>1
    <3>4. c[e] # Gone => Serves(e, c)
      BY <1>5, <3>3, ServesValue, Zenon DEF Settled
    <3>5. c[e] # Gone => Serves(e, c)'
      BY <1>7, <3>4, ServesFrame, Zenon
    <3>6. view'[r][e] # Gone => Serves(e, view[r])'
      BY <1>6, <3>5, Zenon DEF Serves, Enabled
    <3>q. QED
      BY <3>2, <3>6, Zenon DEF ServerState
  <2>q. QED
    BY <2>1, <2>2
<1>10. BgpdState(r)'
  <2>0. "bgpd" \in Daemons /\ First("bgpd") = "write"
    BY Kinds DEF First, ByPid
  <2>1. CASE "bgpd" \in Group(d)
    <3>1. c["bgpd"] # Gone
      BY NamedSetting
    <3>2. Has(todo'[r], "write", "bgpd")
      BY <1>6, <2>0, <2>1, <3>1, Zenon DEF Whole
    <3>3. \A i \in DOMAIN todo'[r] : todo'[r][i][1] \in Names(c, todo'[r][i][2])
      BY <1>6, Zenon DEF Whole
    <3>4. ~Has(todo'[r], "start", "bgpd")
      <4>1. "start" \notin Names(c, "bgpd")
        BY Kinds DEF Names
      <4>2. ASSUME NEW i \in DOMAIN todo'[r], todo'[r][i] = <<"start", "bgpd">> PROVE FALSE
        <5>1. todo'[r][i][1] \in Names(c, todo'[r][i][2])
          BY <3>3
        <5>q. QED
          BY <4>1, <4>2, <5>1
      <4>q. QED
        BY <4>2, Zenon DEF Has
    <3>q. QED
      BY <3>2, <3>4, Zenon DEF BgpdState, Starting
  <2>2. CASE "bgpd" \notin Group(d)
    <3>1. c["bgpd"] = stored["bgpd"] /\ \A a : a # "filter" => ~Has(todo'[r], a, "bgpd")
      BY <1>8, <2>0, <2>2, NotAbout
    <3>2. /\ ~Has(todo'[r], "write", "bgpd") /\ ~Has(todo'[r], "check", "bgpd")
          /\ ~Has(todo'[r], "reload", "bgpd") /\ ~Has(todo'[r], "start", "bgpd")
      BY <3>1
    <3>3. \A p \in Living("bgpd") : Enabled(c, "bgpd") /\ c["bgpd"] \notin Refused =>
                                      proc[p].conf = c["bgpd"]
      BY <1>5, <3>1, Zenon DEF Settled, Enabled
    <3>4. \A p \in Living("bgpd")' : Enabled(view[r], "bgpd")' /\ view'[r]["bgpd"] \notin Refused =>
                                      proc'[p].conf = view'[r]["bgpd"]
      BY <1>6, <1>7, <3>3, Zenon DEF Enabled
    <3>q. QED
      BY <3>2, <3>4, Zenon DEF BgpdState, Starting
  <2>q. QED
    BY <2>1, <2>2
<1>11. RelaydState(r)'
  <2>0. "relayd" \in Daemons /\ First("relayd") = "write" /\ "relayd" # "bgpd"
    BY Kinds DEF First, ByPid
  <2>1. CASE "relayd" \in Group(d)
    <3>1. c["relayd"] # Gone
      BY NamedSetting
    <3>2. Has(todo'[r], "write", "relayd")
      BY <1>6, <2>0, <2>1, <3>1, Zenon DEF Whole
    <3>q. QED
      BY <3>2, Zenon DEF RelaydState
  <2>2. CASE "relayd" \notin Group(d)
    <3>1. c["relayd"] = stored["relayd"] /\ \A a : a # "filter" => ~Has(todo'[r], a, "relayd")
      BY <1>8, <2>0, <2>2, NotAbout
    <3>2. /\ ~Has(todo'[r], "pkill", "relayd") /\ ~Has(todo'[r], "start", "relayd")
      BY <3>1
    <3>4. \A p \in Living("relayd")' : proc'[p].conf = view'[r]["relayd"]
      BY <1>5, <1>6, <1>7, <3>1, Zenon DEF Settled
    <3>q. QED
      BY <3>2, <3>4, Zenon DEF RelaydState, Starting
  <2>q. QED
    BY <2>1, <2>2
<1>12. \A e \in Daemons : State(r, e)'
  <2>1. \A e \in Daemons : e \in Servers \/ e = "bgpd" \/ e = "relayd"
    BY Kinds DEF Servers, ByPid
  <2>2. "bgpd" \notin Servers /\ "relayd" \notin Servers /\ "relayd" # "bgpd"
    BY ServerKinds
  <2>q. QED
    BY <1>9, <1>10, <1>11, <2>1, <2>2, Zenon DEF State
<1>13. \A u \in Processes : Busy(u)' <=> Busy(u)
  BY <1>1 DEF Busy, TypeInv, TypeOK
<1>14. ASSUME NEW u \in Processes, Busy(u)' PROVE view'[u] = stored' /\ \A e \in Daemons : State(u, e)'
  <2>1. u = r
    BY <1>2, <1>13, <1>14
  <2>q. QED
    BY <1>6, <1>12, <2>1
<1>15. ~ \A u \in Processes : ~Busy(u)'
  BY <1>1, <1>13
<1>q. QED
  BY <1>4, <1>14, <1>15, Zenon DEF CalmInv, Pidfiles
-----------------------------------------------------------------------------
(* What happens by itself. *)

\* Only a daemon that writes a pid file itself is young.
YoungInv == \A d : d \notin ByPid => Young(d) = {}

LEMMA YoungStep ==
  ASSUME TypeInv, YoungInv, NEW r \in Processes, Step(r)
  PROVE  YoungInv'
<1>t. ProcType
  BY DEF TypeInv, TypeOK, ProcType
<1>1. ASSUME \A d : Young(d)' = Young(d) PROVE YoungInv'
  BY <1>1, Zenon DEF YoungInv
<1>2. ASSUME proc' = proc PROVE YoungInv'
  BY <1>1, <1>2, ProcSame, Zenon
<1>3. ASSUME NEW d, Pkill(r, d) PROVE YoungInv'
  <2>1. \A p \in Running(d) : p \in Pids /\ proc[p] # NoProc
    BY DEF Running
  <2>q. QED
    BY <1>t, <1>1, <1>3, <2>1, KillEffect, Zenon DEF Pkill
<1>4. ASSUME NEW d, PidKill(r, d) PROVE YoungInv'
  <2>1. \A p \in {pidfile[d]} \cap {p \in Pids : proc[p] # NoProc} : p \in Pids /\ proc[p] # NoProc
    OBVIOUS
  <2>q. QED
    BY <1>t, <1>1, <1>4, <2>1, KillEffect, Zenon DEF PidKill
<1>5. ASSUME NEW d, Start(r, d) PROVE YoungInv'
  <2>0. d \in Daemons
    BY <1>5, DoIs DEF Start, TypeInv
  <2>1. CASE proc' = proc
    BY <1>2, <2>1
  <2>2. CASE proc' # proc
    <3>1. Given(r, d) \in Values
      BY <1>5, <2>0, <2>2, StartEffect
    <3>2. PICK p \in Pids : proc[p] = NoProc /\ proc' = [proc EXCEPT ![p] = NewProc(d, Given(r, d))]
      BY <1>5, <2>0, <2>2, StartEffect
    <3>3. PICK v \in Values : v = Given(r, d)
      BY <3>1
    <3>4. proc' = [proc EXCEPT ![p] = NewProc(d, v)]
      BY <3>2, <3>3
    <3>5. \A e : e \notin ByPid => Young(e)' = Young(e)
      BY <1>t, <2>0, <3>2, <3>4, NewEffect, Zenon
    <3>q. QED
      BY <3>5, Zenon DEF YoungInv
  <2>q. QED
    BY <2>1, <2>2
<1>6. ASSUME Reload(r) PROVE YoungInv'
  <2>1. CASE etc["bgpd"] \in Refused \cup {Off}
    BY <1>2, <1>6, <2>1, Zenon DEF Reload
  <2>2. CASE etc["bgpd"] \notin Refused \cup {Off}
    <3>1. proc' = [p \in Pids |-> IF p \in Living("bgpd")
                                  THEN [proc[p] EXCEPT !.conf = etc["bgpd"]] ELSE proc[p]]
      BY <1>6, <2>2, Zenon DEF Reload
    <3>2. etc["bgpd"] \in Values
      BY <2>2 DEF TypeInv, TypeOK, ByFile
    <3>3. \A p \in Living("bgpd") : p \in Pids /\ proc[p] # NoProc
      BY DEF Living, Running
    <3>q. QED
      BY <1>t, <1>1, <3>1, <3>2, <3>3, ReadEffect, Zenon
  <2>q. QED
    BY <2>1, <2>2
<1>7. ASSUME NEW d, Unlink(r, d) \/ Sleep(r, d) \/ Write(r, d) \/ Filter(r, d) PROVE YoungInv'
  BY <1>2, <1>7 DEF Unlink, Sleep, Write, Filter, system
<1>8. ASSUME Check(r) \/ Pgrep(r) \/ Return(r) \/ End(r) PROVE YoungInv'
  BY <1>2, <1>8 DEF Check, Pgrep, Return, End, system
<1>q. QED
  BY <1>3, <1>4, <1>5, <1>6, <1>7, <1>8, Zenon DEF Step

LEMMA YoungNext ==
  ASSUME TypeInv, YoungInv, [Next]_vars
  PROVE  YoungInv'
<1>t. ProcType
  BY DEF TypeInv, TypeOK, ProcType
<1>2. ASSUME proc' = proc PROVE YoungInv'
  <2>1. \A d : Young(d)' = Young(d)
    BY <1>2, ProcSame
  <2>q. QED
    BY <2>1, Zenon DEF YoungInv
<1>3. ASSUME NEW p \in Pids, WritePid(p) PROVE YoungInv'
  <2>1. \A d : Young(d)' \subseteq Young(d)
    BY <1>t, <1>3, GrownEffect DEF WritePid
  <2>q. QED
    BY <2>1 DEF YoungInv
<1>4. ASSUME NEW p \in Pids, Exit(p) \/ Crash(p) PROVE YoungInv'
  <2>1. \A d : Young(d)' \subseteq Young(d)
    BY <1>t, <1>4, GoneEffect DEF Exit, Crash
  <2>q. QED
    BY <2>1 DEF YoungInv
<1>5. ASSUME NEW r \in Requests, Load(r) \/ Save(r) PROVE YoungInv'
  BY <1>2, <1>5 DEF Load, Save, system
<1>6. ASSUME Reboot PROVE YoungInv'
  <2>1. \A d : Running(d)' = {}
    BY <1>6 DEF Reboot, Running
  <2>q. QED
    BY <2>1 DEF YoungInv, Young
<1>7. ASSUME UNCHANGED vars PROVE YoungInv'
  BY <1>2, <1>7 DEF vars, system
<1>8. ASSUME NEW r \in Processes, NEW d \in Target(r), WriteFails(r, d) PROVE YoungInv'
  BY <1>2, <1>8 DEF WriteFails, system
<1>q. QED
  BY <1>3, <1>4, <1>5, <1>6, <1>7, <1>8, YoungStep, Zenon DEF Next

\* Nothing changes but processes that exit, and pid files.
LEMMA CalmSame ==
  ASSUME TypeInv, CalmInv, calm, UNCHANGED <<stored, pc, view, todo>>, \A e : Same(e), Pidfiles'
  PROVE  CalmInv'
<1>1. \A r \in Processes : Busy(r)' <=> Busy(r)
  BY Zenon DEF Busy
<1>2. ASSUME NEW r \in Processes, Busy(r)' PROVE view'[r] = stored' /\ \A d \in Daemons : State(r, d)'
  <2>1. view[r] = stored /\ \A d \in Daemons : State(r, d)
    BY <1>1, <1>2, Zenon DEF CalmInv
  <2>2. \A d : Left(r, d)
    BY Zenon DEF Left
  <2>q. QED
    BY <2>1, <2>2, StateFrame, Zenon
<1>3. ASSUME \A r \in Processes : ~Busy(r)' PROVE Settled'
  <2>1. Settled
    BY <1>1, <1>3, Zenon DEF CalmInv
  <2>2. \A d : Living(d)' = Living(d) /\ \A p \in Living(d) : proc'[p].conf = proc[p].conf
    BY Zenon DEF Same
  <2>q. QED
    BY <2>1, <2>2, SettledFrame, Zenon
<1>q. QED
  BY <1>2, <1>3, Zenon DEF CalmInv, Pidfiles

\* A daemon that writes its pid file or exits leaves everything else alone.
LEMMA SameItself ==
  ASSUME TypeInv, YoungInv, NEW p \in Pids, WritePid(p) \/ Exit(p)
  PROVE  \A e : Same(e)
<1>t. ProcType /\ pidfile \in [ByPid \cup {"bgpd"} -> Pids \cup {NoPid, Off}]
  BY DEF TypeInv, TypeOK, ProcType
<1>0. /\ \A e : \A o \in Living(e) : o \in Pids /\ proc[o] # NoProc /\ (proc[p].dying => o # p)
      /\ etc' = etc /\ proc[p] # NoProc
  BY DEF Living, Running, WritePid, Exit
<1>1. CASE WritePid(p)
  <2>1. proc' = [proc EXCEPT ![p].young = FALSE]
    BY <1>1 DEF WritePid
  <2>2. \A e : Running(e)' = Running(e) /\ Living(e)' = Living(e)
    BY <1>t, <1>0, <2>1, GrownEffect, Zenon
  <2>3. \A o \in Pids : proc[o] # NoProc => proc'[o].conf = proc[o].conf
    BY <1>t, <1>0, <2>1, GrownEffect, Zenon
  <2>4. PICK d : d = proc[p].svc
    OBVIOUS
  <2>5. p \in Young(d) /\ pidfile' = [pidfile EXCEPT ![d] = p]
    BY <1>1, <2>4 DEF WritePid, Young, Running
  <2>6. d \in {"dhcrelay", "dyndns"}
    BY <2>5 DEF YoungInv, ByPid
  <2>7. pidfile'["bgpd"] = pidfile["bgpd"]
    BY <1>t, <2>5, <2>6
  <2>q. QED
    BY <1>0, <2>2, <2>3, <2>7, Zenon DEF Same
<1>2. CASE Exit(p)
  <2>1. proc[p].dying /\ proc' = [proc EXCEPT ![p] = NoProc]
    BY <1>2 DEF Exit
  <2>2. /\ \A e : Running(e)' = Running(e) \ {p} /\ Living(e)' = Living(e) \ {p}
        /\ \A o \in Pids : o # p => proc'[o] = proc[o]
    BY <1>t, <2>1, GoneEffect, Zenon
  <2>3. \A e : p \notin Living(e)
    BY <1>0, <2>1
  <2>4. \A e : Running(e)' \subseteq Running(e) /\ Living(e)' = Living(e)
    BY <2>2, <2>3
  <2>5. pidfile'["bgpd"] = pidfile["bgpd"]
    BY <1>t, <1>2 DEF Exit
  <2>q. QED
    BY <1>0, <2>1, <2>2, <2>4, <2>5, Zenon DEF Same
<1>q. QED
  BY <1>1, <1>2

LEMMA CalmWritePid ==
  ASSUME TypeInv, SoloInv, YoungInv, CalmInv, calm, NEW p \in Pids, WritePid(p)
  PROVE  CalmInv'
<1>t. ProcType /\ DOMAIN pidfile = ByPid \cup {"bgpd"}
  BY DEF TypeInv, TypeOK, ProcType
<1>1. /\ proc[p] # NoProc /\ proc[p].young /\ ~proc[p].dying /\ proc' = [proc EXCEPT ![p].young = FALSE]
      /\ UNCHANGED <<stored, etc, pc, view, todo>>
  BY DEF WritePid
<1>2. PICK d : d = proc[p].svc
  OBVIOUS
<1>3. p \in Living(d) /\ p \in Young(d) /\ \A e : e # d => p \notin Running(e)
  BY <1>1, <1>2 DEF Living, Running, Young
<1>4. d \in ByPid /\ d \in {"dhcrelay", "dyndns"}
  BY <1>3 DEF YoungInv, ByPid
<1>5. \A e : /\ Running(e)' = Running(e) /\ Living(e)' = Living(e)
             /\ Young(e)' = Young(e) \ {p}
  BY <1>t, <1>1, GrownEffect, Zenon
<1>6. \A o \in Pids : /\ proc'[o] = NoProc <=> proc[o] = NoProc
                      /\ proc[o] # NoProc => proc'[o].conf = proc[o].conf
  BY <1>t, <1>1, GrownEffect, Zenon
<1>7. pidfile'[d] = p /\ \A e : e # d => pidfile'[e] = pidfile[e]
  <2>1. pidfile' = [pidfile EXCEPT ![d] = p]
    BY <1>2 DEF WritePid
  <2>2. d \in DOMAIN pidfile
    BY <1>t, <1>4
  <2>q. QED
    BY <2>1, <2>2
<1>8. \A e : Same(e)
  BY SameItself
<1>9. Single(d)
  <2>1. PICK r \in Processes : d \in Target(r)
    BY <1>2 DEF WritePid
  <2>2. Busy(r)
    BY <2>1 DEF Target, Busy
  <2>3. State(r, d)
    BY <1>4, <2>2, Zenon DEF CalmInv, Daemons
  <2>q. QED
    BY <1>4, <2>3, StateSingle
<1>10. Pidfiles
  BY Zenon DEF CalmInv, Pidfiles
<1>11. Tracked'
  <2>1. ASSUME NEW e \in ByPid, NEW o \in Living(e)' PROVE o \in Young(e)' \/ pidfile'[e] = o
    <3>0. o \in Living(e)
      BY <1>5
    <3>1. CASE e = d
      <4>1. o = p
        BY <1>3, <1>9, <3>0, <3>1 DEF Single
      <4>q. QED
        BY <1>7, <3>1, <4>1
    <3>2. CASE e # d
      <4>1. o # p
        BY <1>3, <3>0, <3>2 DEF Living
      <4>2. o \in Young(e) \/ pidfile[e] = o
        BY <1>10, <3>0, Zenon DEF Pidfiles, Tracked
      <4>q. QED
        BY <1>5, <1>7, <3>2, <4>1, <4>2
    <3>q. QED
      BY <3>1, <3>2
  <2>q. QED
    BY <2>1, Zenon DEF Tracked
<1>12. OwnDyndns'
  <2>1. CASE d = "dyndns"
    BY <1>3, <1>5, <1>7, <2>1 DEF OwnDyndns, Living
  <2>2. CASE d # "dyndns"
    BY <1>5, <1>7, <1>10, <2>2 DEF OwnDyndns, Pidfiles
  <2>q. QED
    BY <2>1, <2>2
<1>13. OwnDhcrelay'
  <2>1. CASE d = "dhcrelay"
    <3>1. \A o \in Pids : pidfile'["dhcrelay"] = o => o \in Living("dhcrelay")'
      BY <1>3, <1>5, <1>7, <2>1
    <3>q. QED
      BY <3>1, Zenon DEF OwnDhcrelay
  <2>2. CASE d # "dhcrelay"
    <3>1. \A r : Do(r, "unlink", "dhcrelay")' <=> Do(r, "unlink", "dhcrelay")
      BY <1>1 DEF Do, Target
    <3>2. pidfile'["dhcrelay"] = pidfile["dhcrelay"]
      BY <1>7, <2>2
    <3>q. QED
      BY <1>5, <1>6, <1>10, <3>1, <3>2, Zenon DEF OwnDhcrelay, Pidfiles
  <2>q. QED
    BY <2>1, <2>2
<1>14. BgpdFile'
  <2>1. pidfile'["bgpd"] = pidfile["bgpd"] /\ Running("bgpd")' = Running("bgpd")
    BY <1>4, <1>5, <1>7
  <2>q. QED
    BY <1>10, <2>1, Zenon DEF BgpdFile, Pidfiles
<1>q. QED
  BY <1>1, <1>8, <1>11, <1>12, <1>13, <1>14, CalmSame DEF Pidfiles

LEMMA CalmExit ==
  ASSUME TypeInv, YoungInv, CalmInv, calm, NEW p \in Pids, Exit(p)
  PROVE  CalmInv'
<1>t. ProcType /\ pidfile \in [ByPid \cup {"bgpd"} -> Pids \cup {NoPid, Off}] /\ "dyndns" \in ByPid
      /\ NoPid \notin Pids
  BY ServicesAssumption DEF TypeInv, TypeOK, ProcType, ByPid
<1>1. /\ proc[p] # NoProc /\ proc[p].dying /\ proc' = [proc EXCEPT ![p] = NoProc]
      /\ UNCHANGED <<stored, etc, pc, view, todo>>
  BY DEF Exit
<1>3. \A e : p \notin Living(e)
  BY <1>1 DEF Living
<1>5. /\ \A e : /\ Running(e)' = Running(e) \ {p} /\ Living(e)' = Living(e)
                /\ Young(e)' = Young(e) \ {p}
      /\ proc'[p] = NoProc
      /\ \A o \in Pids : o # p => proc'[o] = proc[o]
  <2>1. /\ \A e : /\ Running(e)' = Running(e) \ {p} /\ Living(e)' = Living(e) \ {p}
                  /\ Young(e)' = Young(e) \ {p}
        /\ proc'[p] = NoProc
        /\ \A o \in Pids : o # p => proc'[o] = proc[o]
    BY <1>t, <1>1, GoneEffect
  <2>q. QED
    BY <1>3, <2>1
<1>7. /\ \A e : e # "dyndns" => pidfile'[e] = pidfile[e]
      /\ pidfile'["dyndns"] = pidfile["dyndns"] \/ (pidfile["dyndns"] = p /\ pidfile'["dyndns"] = NoPid)
      /\ proc[p].svc = "dyndns" => pidfile'["dyndns"] # p
  BY <1>t DEF Exit
<1>8. \A e : Same(e)
  BY SameItself
<1>10. Pidfiles
  BY Zenon DEF CalmInv, Pidfiles
<1>11. Tracked'
  <2>1. ASSUME NEW e \in ByPid, NEW o \in Living(e)' PROVE o \in Young(e)' \/ pidfile'[e] = o
    <3>0. o \in Living(e) /\ o # p
      BY <1>3, <1>5
    <3>1. o \in Young(e) \/ pidfile[e] = o
      BY <1>10, <3>0, Zenon DEF Pidfiles, Tracked
    <3>q. QED
      BY <1>5, <1>7, <3>0, <3>1
  <2>q. QED
    BY <2>1, Zenon DEF Tracked
<1>12. OwnDyndns'
  <2>1. ASSUME NEW o \in Pids, pidfile'["dyndns"] = o PROVE o \in Running("dyndns")'
    <3>1. pidfile["dyndns"] = o
      BY <1>t, <1>7, <2>1
    <3>2. o \in Running("dyndns")
      BY <1>10, <3>1, Zenon DEF OwnDyndns, Pidfiles
    <3>3. o # p
      BY <1>7, <2>1, <3>2 DEF Running
    <3>q. QED
      BY <1>5, <3>2, <3>3
  <2>q. QED
    BY <2>1, Zenon DEF OwnDyndns
<1>13. OwnDhcrelay'
  <2>1. \A r : Do(r, "unlink", "dhcrelay")' <=> Do(r, "unlink", "dhcrelay")
    BY <1>1 DEF Do, Target
  <2>2. ASSUME NEW o \in Pids, pidfile'["dhcrelay"] = o
        PROVE  \/ o \in Living("dhcrelay")'
               \/ /\ o \in Running("dhcrelay")' \/ proc'[o] = NoProc
                  /\ \E r \in Processes : Do(r, "unlink", "dhcrelay")
    <3>1. pidfile["dhcrelay"] = o
      BY <1>7, <2>2
    <3>2. \/ o \in Living("dhcrelay")
          \/ /\ o \in Running("dhcrelay") \/ proc[o] = NoProc
             /\ \E r \in Processes : Do(r, "unlink", "dhcrelay")
      BY <1>10, <3>1, Zenon DEF OwnDhcrelay, Pidfiles
    <3>3. /\ o \in Living("dhcrelay") => o \in Living("dhcrelay")'
          /\ o \in Running("dhcrelay") => o \in Running("dhcrelay")' \/ proc'[o] = NoProc
          /\ proc[o] = NoProc => proc'[o] = NoProc
      BY <1>5
    <3>q. QED
      BY <3>2, <3>3, Zenon
  <2>q. QED
    BY <2>1, <2>2, Zenon DEF OwnDhcrelay
<1>14. BgpdFile'
  <2>1. pidfile'["bgpd"] = pidfile["bgpd"] /\ Running("bgpd")' \subseteq Running("bgpd")
    BY <1>5, <1>7
  <2>q. QED
    BY <1>10, <2>1 DEF BgpdFile, Pidfiles
<1>q. QED
  BY <1>1, <1>8, <1>11, <1>12, <1>13, <1>14, CalmSame DEF Pidfiles
-----------------------------------------------------------------------------
(* The boot. *)

Booted ==
    /\ proc = [p \in Pids |-> NoProc]
    /\ pidfile = [d \in ByPid \cup {"bgpd"} |-> NoPid]
    /\ filter = stored
    /\ pc = [r \in Processes |-> IF r = rcbootup THEN "run" ELSE "idle"]
    /\ view = [r \in Processes |-> IF r = rcbootup THEN stored ELSE Nothing]
    /\ todo = [r \in Processes |-> IF r = rcbootup THEN BootSteps(stored) ELSE <<>>]
    /\ solo = [r \in Processes |-> TRUE]
    /\ calm = TRUE
BootInv == stored \in Config /\ Booted => SoloInv /\ YoungInv /\ CalmInv /\ BootCalm /\ LoneInv

LEMMA Boots == BootInv
<1> SUFFICES ASSUME stored \in Config, Booted PROVE SoloInv /\ YoungInv /\ CalmInv /\ BootCalm /\ LoneInv
  BY Zenon DEF BootInv
<1>1. /\ \A d : Running(d) = {} /\ Living(d) = {} /\ Young(d) = {}
  BY DEF Booted, Running, Living, Young
<1>2. /\ \A r \in Processes : Busy(r) <=> r = rcbootup
      /\ rcbootup \in Processes /\ solo[rcbootup] = TRUE /\ calm = TRUE
      /\ view[rcbootup] = stored /\ todo[rcbootup] = BootSteps(stored)
      /\ pidfile["bgpd"] = NoPid /\ pidfile["dyndns"] = NoPid /\ pidfile["dhcrelay"] = NoPid
      /\ NoPid \notin Pids
  BY ServicesAssumption DEF Booted, Busy, Processes, ByPid
<1>3. PICK q : q = todo[rcbootup]
  OBVIOUS
<1>4. Whole(q, stored, TRUE, Daemons \ {"relayd"})
  BY <1>2, <1>3, BootWhole
<1>5. \A d \in Daemons : IF d # "relayd" /\ stored[d] # Gone THEN Has(q, First(d), d) ELSE ~About(q, d)
  BY <1>4, Zenon DEF Whole
<1>6. ASSUME NEW d \in Servers PROVE ServerState(rcbootup, d)
  <2>1. d \in Daemons /\ d # "relayd" /\ First(d) # "filter"
    BY ServerKinds
  <2>2. CASE stored[d] # Gone
    <3>1. Ends(rcbootup, d)
      BY <1>3, <1>5, <2>1, <2>2, Zenon DEF Ends
    <3>q. QED
      BY <1>1, <3>1, Zenon DEF ServerState, Single
  <2>3. CASE stored[d] = Gone
    <3>1. ~About(q, d)
      BY <1>5, <2>1, <2>3
    <3>2. ~Ends(rcbootup, d) /\ ~Starting(rcbootup, d)
      BY <1>3, <2>1, <3>1, NotAbout DEF Ends, Starting
    <3>q. QED
      BY <1>2, <2>3, <3>2, Zenon DEF ServerState
  <2>q. QED
    BY <2>2, <2>3
<1>7. BgpdState(rcbootup)
  <2>1. "bgpd" \in Daemons /\ First("bgpd") = "write" /\ stored["bgpd"] # Gone
    BY Kinds, NamedSetting DEF First, ByPid
  <2>2. Has(q, "write", "bgpd")
    BY <1>5, <2>1
  <2>3. ~Has(q, "start", "bgpd")
    <3>1. "start" \notin Names(stored, "bgpd")
      BY Kinds DEF Names
    <3>2. ASSUME NEW i \in DOMAIN q, q[i] = <<"start", "bgpd">> PROVE FALSE
      <4>1. q[i][1] \in Names(stored, q[i][2])
        BY <1>4, Zenon DEF Whole
      <4>q. QED
        BY <3>1, <3>2, <4>1
    <3>q. QED
      BY <3>2, Zenon DEF Has
  <2>q. QED
    BY <1>3, <2>2, <2>3, Zenon DEF BgpdState, Starting
<1>8. RelaydState(rcbootup)
  <2>1. "relayd" \in Daemons
    BY Kinds
  <2>2. ~About(q, "relayd")
    BY <1>5, <2>1
  <2>3. ~Has(q, "pkill", "relayd") /\ ~Has(q, "start", "relayd")
    BY <2>2, NotAbout
  <2>q. QED
    BY <1>1, <1>3, <2>3, Zenon DEF RelaydState, Starting
<1>9. \A d \in Daemons : State(rcbootup, d)
  <2>1. \A d \in Daemons : d \in Servers \/ d = "bgpd" \/ d = "relayd"
    BY Kinds DEF Servers, ByPid
  <2>2. "bgpd" \notin Servers /\ "relayd" \notin Servers /\ "relayd" # "bgpd"
    BY ServerKinds
  <2>q. QED
    BY <1>6, <1>7, <1>8, <2>1, <2>2, Zenon DEF State
<1>10. Pidfiles
  <2>1. Tracked
    BY <1>1, Zenon DEF Tracked
  <2>2. OwnDyndns /\ OwnDhcrelay
    BY <1>2, Zenon DEF OwnDyndns, OwnDhcrelay
  <2>3. BgpdFile
    BY <1>1, Zenon DEF BgpdFile
  <2>q. QED
    BY <2>1, <2>2, <2>3 DEF Pidfiles
<1>11. CalmInv
  <2>1. \A r \in Processes : Busy(r) => view[r] = stored /\ \A d \in Daemons : State(r, d)
    BY <1>2, <1>9
  <2>2. ~ \A r \in Processes : ~Busy(r)
    BY <1>2
  <2>q. QED
    BY <1>10, <2>1, <2>2, Zenon DEF CalmInv, Pidfiles
<1>12. SoloInv
  <2>1. \A r \in Processes : Busy(r) => r = rcbootup /\ solo[r]
    BY <1>2
  <2>q. QED
    BY <2>1, Zenon DEF SoloInv
<1>13. YoungInv
  BY <1>1, Zenon DEF YoungInv
<1>14. BootCalm
  BY <1>2 DEF BootCalm, Booted
<1>15. LoneInv
  <2>1. \A r \in Requests : r \in Processes /\ r # rcbootup
    BY ServicesAssumption DEF Processes
  <2>2. \A r \in Requests : pc[r] = "idle"
    BY <2>1 DEF Booted
  <2>q. QED
    BY <2>2 DEF LoneInv
<1>q. QED
  BY <1>11, <1>12, <1>13, <1>14, <1>15

LEMMA BootsNext == BootInv'
  BY Boots, PTL

LEMMA InitBooted ==
  /\ Init => stored \in Config /\ Booted
  /\ stored \in Config /\ Reboot => (stored \in Config /\ Booted)'
<1>1. Init => stored \in Config /\ Booted
  BY ServicesAssumption DEF Init, Booted
<1>2. ASSUME stored \in Config, Reboot PROVE (stored \in Config /\ Booted)'
  <2>1. stored' = stored
    BY <1>2 DEF Reboot
  <2>2. BootSteps(stored)' = BootSteps(stored)
    BY <2>1 DEF BootSteps, Dnsmasq, Dhcpd, DhcpdTables, DhcpdTable, Dhcrelay, Bgpd, Dyndns, If, Enabled
  <2>q. QED
    BY <1>2, <2>1, <2>2, Zenon DEF Reboot, Booted
<1>q. QED
  BY <1>1, <1>2

\* What is going on is what the invariants say, as long as it is calm.
LEMMA CalmNext ==
  ASSUME TypeInv, SoloInv, YoungInv, CalmInv, [Next]_vars
  PROVE  CalmInv'
<1>0. CASE ~calm'
  BY <1>0, Zenon DEF CalmInv
<1>1. ASSUME Reboot PROVE CalmInv'
  <2>1. stored \in Config
    BY DEF TypeInv, TypeOK
  <2>2. stored' \in Config /\ Booted'
    BY <1>1, <2>1, InitBooted
  <2>q. QED
    BY <2>2, BootsNext, Zenon DEF BootInv
<1>2. ASSUME calm', NEW r \in Processes, Step(r) PROVE CalmInv'
  <2>1. calm
    BY <1>2, Zenon DEF Step, Pkill, PidKill, Unlink, Sleep, Write, Start, Filter, Check, Pgrep,
                       Reload, Return, End
  <2>2. ASSUME NEW d, Pkill(r, d) PROVE CalmInv'
    BY <2>1, <2>2, CalmPkill
  <2>3. ASSUME NEW d, PidKill(r, d) PROVE CalmInv'
    BY <1>2, <2>1, <2>3, CalmPidKill
  <2>4. ASSUME NEW d, Unlink(r, d) PROVE CalmInv'
    BY <2>1, <2>4, CalmUnlink
  <2>5. ASSUME NEW d, Sleep(r, d) \/ Filter(r, d) \/ Write(r, d) PROVE CalmInv'
    BY <2>1, <2>5, CalmQuiet
  <2>6. ASSUME NEW d, Start(r, d) PROVE CalmInv'
    BY <2>1, <2>6, CalmStart
  <2>7. ASSUME Check(r) \/ Pgrep(r) \/ Reload(r) PROVE CalmInv'
    BY <2>1, <2>7, CalmBgpd
  <2>8. ASSUME Return(r) \/ End(r) PROVE CalmInv'
    BY <2>1, <2>8, CalmReturn
  <2>q. QED
    BY <1>2, <2>2, <2>3, <2>4, <2>5, <2>6, <2>7, <2>8, Zenon DEF Step
<1>3. ASSUME calm', NEW r \in Requests, Load(r) PROVE CalmInv'
  <2>1. calm
    BY <1>3 DEF Load
  <2>q. QED
    BY <1>3, <2>1, CalmLoad
<1>4. ASSUME calm', NEW r \in Requests, Save(r) PROVE CalmInv'
  <2>1. calm
    BY <1>4 DEF Save
  <2>q. QED
    BY <1>4, <2>1, CalmSave
<1>5. ASSUME calm', NEW p \in Pids, WritePid(p) \/ Exit(p) \/ Crash(p) PROVE CalmInv'
  <2>1. calm /\ ~Crash(p)
    BY <1>5, Zenon DEF WritePid, Exit, Crash
  <2>q. QED
    BY <1>5, <2>1, CalmWritePid, CalmExit
<1>6. ASSUME UNCHANGED vars, calm' PROVE CalmInv'
  <2>1. calm /\ UNCHANGED <<stored, etc, proc, pidfile, pc, view, todo>>
    BY <1>6 DEF vars, system
  <2>2. \A e : Same(e)
    BY <2>1, ProcSame
  <2>3. Pidfiles'
    <3>1. \A e : Running(e)' = Running(e) /\ Living(e)' = Living(e) /\ Young(e)' = Young(e)
      BY <2>1, ProcSame
    <3>2. \A r : Do(r, "unlink", "dhcrelay")' <=> Do(r, "unlink", "dhcrelay")
      BY <2>1 DEF Do, Target
    <3>q. QED
      BY <2>1, <3>1, <3>2, Zenon DEF CalmInv, Pidfiles, Tracked, OwnDyndns, OwnDhcrelay, BgpdFile
  <2>q. QED
    BY <2>1, <2>2, <2>3, CalmSame
<1>7. ASSUME calm', NEW r \in Processes, NEW d \in Target(r), WriteFails(r, d) PROVE CalmInv'
  BY <1>7 DEF WriteFails
<1>q. QED
  BY <1>0, <1>1, <1>2, <1>3, <1>4, <1>5, <1>6, <1>7, Zenon DEF Next
-----------------------------------------------------------------------------
(* A process that is alone. *)

\* As long as nothing goes on beside rc.bootup it is calm, for it finds no daemon to kill.
LEMMA BootCalmNext ==
  ASSUME TypeInv, SoloInv, CalmInv, BootCalm, [Next]_vars
  PROVE  BootCalm'
<1>t. /\ pc \in [Processes -> {"idle", "edit", "run", "end"}]
      /\ solo \in [Processes -> BOOLEAN] /\ Requests \subseteq Processes /\ rcbootup \in Processes
      /\ rcbootup \notin Requests
  BY ServicesAssumption DEF TypeInv, TypeOK, Processes
<1>1. ASSUME Busy(rcbootup)' => Busy(rcbootup), solo'[rcbootup] => solo[rcbootup],
             calm' = calm, filter' = filter, view'[rcbootup] = view[rcbootup]
      PROVE  BootCalm'
  BY <1>1, Zenon DEF BootCalm
<1>2. ASSUME ~(Busy(rcbootup)' /\ solo'[rcbootup]) PROVE BootCalm'
  BY <1>2, Zenon DEF BootCalm
<1>3. ASSUME Reboot PROVE BootCalm'
  <2>1. stored \in Config
    BY DEF TypeInv, TypeOK
  <2>2. stored' \in Config /\ Booted'
    BY <1>3, <2>1, InitBooted
  <2>q. QED
    BY <2>2, BootsNext, Zenon DEF BootInv
<1>4. ASSUME NEW r \in Processes, Step(r), ~End(r), ~Return(r), Busy(rcbootup)', solo'[rcbootup]
      PROVE  BootCalm'
  <2>1. /\ pc' = pc /\ view' = view /\ solo' = solo /\ Busy(r)
    <3>1. \E a, d : Do(r, a, d) /\ UNCHANGED <<pc, view, solo>>
      BY <1>4, Zenon DEF Step, Pkill, PidKill, Unlink, Sleep, Write, Start, Filter, Check, Pgrep,
                         Reload, Then
    <3>q. QED
      BY <3>1, DoBusy
  <2>2. Busy(rcbootup) /\ solo[rcbootup]
    BY <1>4, <2>1 DEF Busy
  <2>3. r = rcbootup
    BY <1>t, <2>1, <2>2, Zenon DEF SoloInv
  <2>4. calm /\ filter = view[rcbootup]
    BY <2>2, Zenon DEF BootCalm
  <2>5. ASSUME NEW d, PidKill(r, d) PROVE calm' /\ filter' = filter
    <3>1. Do(r, "pidkill", d) /\ Has(todo[r], "pidkill", d)
      BY <2>5, DoHas DEF PidKill
    <3>2. d \in ByPid
      BY <3>1, Whose
    <3>3. d \in Servers /\ d \in Daemons /\ First(d) = "pidkill"
      BY <3>2, Kinds DEF Servers, First, ByPid
    <3>4. State(r, d) /\ Ends(r, d)
      BY <2>1, <2>4, <3>1, <3>3, Zenon DEF CalmInv, Ends
    <3>5. Living(d) = {}
      BY <2>3, <3>2, <3>3, <3>4, Zenon DEF State, ServerState
    <3>q. QED
      BY <2>4, <2>5, <3>5 DEF PidKill
  <2>6. (~ \E d : PidKill(r, d) \/ Filter(r, d)) => calm' = calm /\ filter' = filter
    BY <1>4, Zenon DEF Step, Pkill, Unlink, Sleep, Write, Start, Check, Pgrep, Reload, system
  <2>7. ASSUME NEW d, Filter(r, d) PROVE calm' = calm /\ filter' = view[r]
    BY <2>7 DEF Filter
  <2>8. calm' /\ filter' = view[rcbootup]
    BY <2>3, <2>4, <2>5, <2>6, <2>7
  <2>q. QED
    BY <2>1, <2>8, Zenon DEF BootCalm
<1>5. ASSUME NEW r \in Processes, Return(r) PROVE BootCalm'
  BY <1>t, <1>1, <1>5 DEF Return, system, Busy
<1>6. ASSUME NEW r \in Processes, End(r) PROVE BootCalm'
  <2>1. CASE r = rcbootup
    BY <1>t, <1>2, <1>6, <2>1 DEF End, Busy
  <2>2. CASE r # rcbootup
    BY <1>t, <1>1, <1>6, <2>2 DEF End, system, Busy
  <2>q. QED
    BY <2>1, <2>2
<1>7. ASSUME NEW r \in Requests, Load(r) PROVE BootCalm'
  <2>1. r # rcbootup /\ pc' = [pc EXCEPT ![r] = "edit"]
    BY <1>t, <1>7 DEF Load
  <2>2. solo' = [t \in Processes |-> IF t = r THEN \A u \in Processes \ {r} : ~Busy(u) ELSE ~Busy(t)]
    BY <1>7 DEF Load
  <2>3. solo'[rcbootup] <=> ~Busy(rcbootup)
    BY <1>t, <2>1, <2>2, Zenon
  <2>4. Busy(rcbootup)' <=> Busy(rcbootup)
    BY <1>t, <2>1 DEF Busy
  <2>q. QED
    BY <1>2, <2>3, <2>4
<1>8. ASSUME NEW r \in Requests, Save(r) PROVE BootCalm'
  <2>1. r # rcbootup /\ pc' = [pc EXCEPT ![r] = "run"] /\ Busy(r) /\ solo' = solo
    BY <1>t, <1>8 DEF Save, Busy
  <2>2. Busy(rcbootup)' <=> Busy(rcbootup)
    BY <1>t, <2>1 DEF Busy
  <2>3. ~(Busy(rcbootup) /\ solo[rcbootup])
    BY <1>t, <2>1, Zenon DEF SoloInv
  <2>q. QED
    BY <1>2, <2>1, <2>2, <2>3
<1>9. ASSUME NEW p \in Pids, WritePid(p) \/ Exit(p) PROVE BootCalm'
  BY <1>1, <1>9 DEF WritePid, Exit, Busy
<1>10. ASSUME NEW p \in Pids, Crash(p) PROVE BootCalm'
  <2>1. solo' = [r \in Processes |-> ~Busy(r)] /\ pc' = pc
    BY <1>10 DEF Crash
  <2>2. solo'[rcbootup] <=> ~Busy(rcbootup)
    BY <1>t, <2>1, Zenon
  <2>q. QED
    BY <1>2, <2>1, <2>2 DEF Busy
<1>11. ASSUME UNCHANGED vars PROVE BootCalm'
  BY <1>1, <1>11 DEF vars, system, Busy
<1>12. ASSUME NEW r \in Processes, NEW d \in Target(r), WriteFails(r, d) PROVE BootCalm'
  <2>1. solo' = [t \in Processes |-> ~Busy(t)] /\ pc' = pc
    BY <1>12 DEF WriteFails
  <2>2. solo'[rcbootup] <=> ~Busy(rcbootup)
    BY <1>t, <2>1, Zenon
  <2>q. QED
    BY <1>2, <2>1, <2>2 DEF Busy
<1>q. QED
  BY <1>2, <1>3, <1>4, <1>5, <1>6, <1>7, <1>8, <1>9, <1>10, <1>11, <1>12, Zenon DEF Next
LEMMA HasConcat ==
  ASSUME NEW q1 \in Seq(Steps), NEW q2 \in Seq(Steps), NEW a, NEW d, Has(q2, a, d)
  PROVE  Has(q1 \o q2, a, d)
<1>1. PICK i \in DOMAIN q2 : q2[i] = <<a, d>>
  BY DEF Has
<1>2. Len(q1) + i \in DOMAIN (q1 \o q2) /\ (q1 \o q2)[Len(q1) + i] = q2[i]
  OBVIOUS
<1>q. QED
  BY <1>1, <1>2 DEF Has

\* The packet filter is set again after the dhcpds.
LEMMA FunctionFilters ==
  ASSUME NEW c \in Config, NEW d \in Dhcpds \cup {"dnsmasq"}
  PROVE  Has(Function(c, d), "filter", Default)
<1>1. <<"filter", Default>> \in Steps /\ <<<<"filter", Default>>>> \in Seq(Steps)
  BY Kinds DEF Steps, StepNames
<1>2. Has(<<<<"filter", Default>>>>, "filter", Default)
  BY DEF Has
<1>3. DhcpdTables(c) \in Seq(Steps)
  <2>1. Whole(DhcpdTables(c), c, FALSE, Dhcpds)
    BY TablesWhole
  <2>q. QED
    BY <2>1, Zenon DEF Whole
<1>4. Dhcpd(c, FALSE) = DhcpdTables(c) \o <<<<"filter", Default>>>>
  BY DEF Dhcpd, If
<1>5. Has(Dhcpd(c, FALSE), "filter", Default) /\ Dhcpd(c, FALSE) \in Seq(Steps)
  <2>1. PICK q : q = <<<<"filter", Default>>>>
    OBVIOUS
  <2>2. Has(DhcpdTables(c) \o q, "filter", Default)
    BY <1>1, <1>2, <1>3, <2>1, HasConcat, Zenon
  <2>3. DhcpdTables(c) \o q \in Seq(Steps)
    BY <1>1, <1>3, <2>1
  <2>q. QED
    BY <1>4, <2>1, <2>2, <2>3
<1>6. CASE d \in Dhcpds
  <2>1. Function(c, d) = Dhcpd(c, FALSE)
    BY <1>6, Kinds DEF Function
  <2>q. QED
    BY <1>5, <2>1
<1>7. CASE d = "dnsmasq"
  <2>1. DnsmasqAlone(c, FALSE) \in Seq(Steps)
    BY DnsmasqWhole, Zenon DEF Whole
  <2>2. Dnsmasq(c, FALSE) = DnsmasqAlone(c, FALSE) \o Dhcpd(c, FALSE)
    BY DEF Dnsmasq, DnsmasqAlone, If
  <2>3. Function(c, d) = Dnsmasq(c, FALSE)
    BY <1>7, Kinds DEF Function
  <2>q. QED
    BY <1>5, <2>1, <2>2, <2>3, HasConcat
<1>q. QED
  BY <1>6, <1>7

LEMMA AloneSave ==
  ASSUME TypeInv, NEW r \in Requests, Save(r)
  PROVE  Alone(r)'
<1>1. PICK d \in Daemons, c \in Config :
        /\ view'[r] = c
        /\ todo'[r] = Function(c, d) /\ Whole(todo'[r], c, FALSE, Group(d))
        /\ covered'[r] = {d} \cup (IF d \in Dhcpds \cup {"dnsmasq"} THEN Dhcpds ELSE {})
  BY SaveEffect, Zenon
<1>2. ASSUME NEW e \in covered'[r] \cap (Dhcpds \cup {"dnsmasq"})
      PROVE  /\ \A x \in ByPid \cup {"bgpd", "relayd"} : ~About(todo'[r], x)
             /\ ServerState(r, e)'
             /\ Filters(r)'
  <2>1. d \in Dhcpds \cup {"dnsmasq"} /\ covered'[r] = Group(d)
    BY <1>1, <1>2 DEF Group
  <2>2. \A x \in ByPid \cup {"bgpd", "relayd"} : x \in Daemons /\ x \notin Group(d)
    BY <2>1, Kinds DEF Group, ByPid
  <2>3. \A x \in ByPid \cup {"bgpd", "relayd"} : ~About(todo'[r], x)
    BY <1>1, <2>2, Zenon DEF Whole
  <2>4. e \in Servers /\ e \in Group(d) /\ e \notin ByPid
    BY <2>1, Kinds DEF Servers, ByPid
  <2>5. proc' = proc
    BY DEF Save, system
  <2>6. ServerState(r, e)'
    BY <1>1, <2>4, <2>5, NewServer
  <2>7. Has(todo'[r], "filter", Default)
    BY <1>1, <2>1, FunctionFilters
  <2>8. Filters(r)'
    BY <2>7, Kinds DEF Filters
  <2>q. QED
    BY <2>3, <2>6, <2>8
<1>q. QED
  BY <1>2, Zenon DEF Alone

\* A step of the process itself.
LEMMA AloneStep ==
  ASSUME TypeInv, NEW r \in Processes, Alone(r), Step(r), ~Return(r), ~End(r)
  PROVE  Alone(r)'
<1>t. ProcType
  BY DEF TypeInv, TypeOK, ProcType
<1>1. PICK x, y : Do(r, x, y) /\ UNCHANGED <<view, covered>>
  BY Zenon DEF Step, Pkill, PidKill, Unlink, Sleep, Write, Start, Filter, Check, Pgrep, Reload, Then
<1>2. SUFFICES ASSUME NEW d \in covered[r] \cap (Dhcpds \cup {"dnsmasq"})
               PROVE  /\ \A e \in ByPid \cup {"bgpd", "relayd"} : ~About(todo'[r], e)
                      /\ ServerState(r, d)'
                      /\ Filters(r)' \/ filter' = view'[r]
  BY <1>1, Zenon DEF Alone
<1>3. /\ \A e \in ByPid \cup {"bgpd", "relayd"} : ~About(todo[r], e)
      /\ ServerState(r, d)
      /\ Filters(r) \/ filter = view[r]
  BY Zenon DEF Alone
<1>4. d \in Servers /\ d \in Daemons /\ d \in Dhcpds \cup {"dnsmasq"} /\ First(d) = "pkill"
  BY Kinds DEF Servers, First
<1>5. \A a, e : Do(r, a, e) /\ a # "filter" => e \notin ByPid \cup {"bgpd", "relayd"}
  <2>1. ASSUME NEW a, NEW e, Do(r, a, e), a # "filter", e \in ByPid \cup {"bgpd", "relayd"} PROVE FALSE
    <3>1. Has(todo[r], a, e)
      BY <2>1, DoHas
    <3>q. QED
      BY <1>3, <2>1, <3>1, NotAbout
  <2>q. QED
    BY <2>1
<1>6. ASSUME NEW a, NEW e, Do(r, a, e), Then(r, <<>>), a # "filter" => filter' = filter,
             a = "filter" => filter' = view[r], ServerState(r, d)'
      PROVE  /\ \A o \in ByPid \cup {"bgpd", "relayd"} : ~About(todo'[r], o)
             /\ ServerState(r, d)'
             /\ Filters(r)' \/ filter' = view'[r]
  <2>1. /\ \A o, z : Has(todo[r], o, z) <=> Has(todo'[r], o, z) \/ (o = a /\ z = e)
        /\ view'[r] = view[r]
    BY <1>6, LeftOver
  <2>2. ASSUME NEW o \in ByPid \cup {"bgpd", "relayd"}, About(todo'[r], o) PROVE FALSE
    <3>1. PICK z : z # "filter" /\ Has(todo'[r], z, o)
      <4>1. PICK i \in DOMAIN todo'[r] : todo'[r][i][2] = o /\ todo'[r][i][1] # "filter"
        BY <2>2, Zenon DEF About
      <4>2. todo'[r] \in Seq(StepNames \X Daemons)
        BY TypeStep, Zenon DEF TypeInv, TypeOK
      <4>3. todo'[r][i] \in StepNames \X Daemons
        BY <4>1, <4>2
      <4>4. todo'[r][i] = <<todo'[r][i][1], o>>
        BY <4>1, <4>3
      <4>q. QED
        BY <4>1, <4>4, Zenon DEF Has
    <3>2. Has(todo[r], z, o)
      BY <2>1, <3>1
    <3>q. QED
      BY <1>3, <3>1, <3>2, NotAbout
  <2>3. Filters(r)' \/ filter' = view'[r]
    <3>1. CASE a = "filter"
      BY <1>6, <2>1, <3>1
    <3>2. CASE a # "filter"
      <4>1. Filters(r) => Filters(r)'
        BY <2>1, <3>2, Zenon DEF Filters
      <4>q. QED
        BY <1>3, <1>6, <2>1, <3>2, <4>1
    <3>q. QED
      BY <3>1, <3>2
  <2>q. QED
    BY <1>6, <2>2, <2>3
<1>7. ASSUME NEW a, NEW e, Do(r, a, e), Then(r, <<>>), e # d, Same(d) PROVE ServerState(r, d)'
  <2>1. Left(r, d)
    BY <1>7, LeftOver
  <2>q. QED
    BY <1>3, <1>4, <1>7, <2>1, ServerFrame
<1>8. \A e \in Daemons : e \in ByPid \cup {"bgpd", "relayd"} \/ e \in Servers
  BY Kinds DEF Servers, ByPid
<1>9. "filter" \notin {"pkill", "pidkill", "unlink", "sleep", "write", "start", "check", "pgrep", "reload"}
  OBVIOUS
<1>10. ASSUME NEW e, Pkill(r, e)
       PROVE  /\ \A o \in ByPid \cup {"bgpd", "relayd"} : ~About(todo'[r], o)
              /\ ServerState(r, d)'
              /\ Filters(r)' \/ filter' = view'[r]
  <2>1. Do(r, "pkill", e) /\ Then(r, <<>>) /\ UNCHANGED <<etc, pidfile, filter, calm>> /\ Kill(Running(e))
    BY <1>10 DEF Pkill
  <2>2. /\ \A o : /\ Running(o)' = Running(o)
                  /\ o # e /\ pidfile'["bgpd"] = pidfile["bgpd"] => Same(o)
        /\ Living(e)' = Living(e) \ Running(e)
    BY <1>t, <2>1, KillSame
  <2>3. CASE e = d
    <3>1. Living(d)' = {} /\ Running(d)' \subseteq Running(d)
      BY <2>2, <2>3 DEF Living
    <3>2. ServerState(r, d)'
      BY <1>3, <1>4, <2>1, <2>3, <3>1, EndStep
    <3>q. QED
      BY <1>6, <1>9, <2>1, <3>2
  <2>4. CASE e # d
    BY <1>6, <1>7, <1>9, <2>1, <2>2, <2>4
  <2>q. QED
    BY <2>3, <2>4
<1>11. ASSUME NEW e, Sleep(r, e) \/ Write(r, e) \/ Start(r, e)
       PROVE  /\ \A o \in ByPid \cup {"bgpd", "relayd"} : ~About(todo'[r], o)
              /\ ServerState(r, d)'
              /\ Filters(r)' \/ filter' = view'[r]
  <2>1. PICK a \in {"sleep", "write", "start"} : Do(r, a, e) /\ Then(r, <<>>) /\ filter' = filter
    BY <1>11 DEF Sleep, Write, Start, system
  <2>2. CASE e = d
    <3>1. ServerState(r, d)'
      BY <1>3, <1>4, <1>11, <2>2, SleepStep, WriteStep, StartStep
    <3>q. QED
      BY <1>6, <1>9, <2>1, <3>1
  <2>3. CASE e # d
    <3>0. e \in Daemons
      BY <2>1, DoHas, Whose
    <3>1. Same(d)
      <4>1. CASE Sleep(r, e)
        BY <4>1, ProcSame DEF Sleep, system
      <4>2. CASE Write(r, e)
        <5>1. proc' = proc /\ pidfile' = pidfile /\ (d \in ByFile => etc'[d] = etc[d])
          BY <2>3, <4>2 DEF Write, TypeInv, TypeOK
        <5>q. QED
          BY <5>1, ProcSame
      <4>3. CASE Start(r, e)
        BY <2>3, <3>0, <4>3, StartSame
      <4>q. QED
        BY <1>11, <4>1, <4>2, <4>3
    <3>q. QED
      BY <1>6, <1>7, <1>9, <2>1, <2>3, <3>1
  <2>q. QED
    BY <2>2, <2>3
<1>12. ASSUME NEW e, Filter(r, e)
       PROVE  /\ \A o \in ByPid \cup {"bgpd", "relayd"} : ~About(todo'[r], o)
              /\ ServerState(r, d)'
              /\ Filters(r)' \/ filter' = view'[r]
  <2>1. Do(r, "filter", e) /\ Then(r, <<>>) /\ UNCHANGED <<etc, proc, pidfile, calm>> /\ filter' = view[r]
    BY <1>12 DEF Filter
  <2>2. Same(d) /\ Left(r, d)
    <3>1. Left(r, d)
      BY <2>1, LeftOver
    <3>2. Same(d)
      BY <2>1, ProcSame
    <3>q. QED
      BY <3>1, <3>2
  <2>3. ServerState(r, d)'
    BY <1>3, <1>4, <2>2, ServerFrame
  <2>q. QED
    BY <1>6, <2>1, <2>3
<1>13. /\ \A e : ~PidKill(r, e) /\ ~Unlink(r, e)
       /\ ~Check(r) /\ ~Pgrep(r) /\ ~Reload(r)
  <2>1. \A a \in {"check", "pgrep", "reload"} : ~Do(r, a, "bgpd")
    BY <1>5, <1>9
  <2>2. \A e : ~Do(r, "pidkill", e) /\ ~Do(r, "unlink", e)
    <3>1. ASSUME NEW e, NEW a \in {"pidkill", "unlink"}, Do(r, a, e) PROVE FALSE
      <4>1. e \in ByPid
        BY <3>1, DoHas, Whose DEF ByPid
      <4>q. QED
        BY <1>5, <3>1, <4>1
    <3>q. QED
      BY <3>1
  <2>q. QED
    BY <2>1, <2>2 DEF PidKill, Unlink, Check, Pgrep, Reload
<1>q. QED
  BY <1>10, <1>11, <1>12, <1>13, Zenon DEF Step
LEMMA LoneNext ==
  ASSUME TypeInv, SoloInv, YoungInv, LoneInv, [Next]_vars
  PROVE  LoneInv'
<1>t. /\ pc \in [Processes -> {"idle", "edit", "run", "end"}]
      /\ solo \in [Processes -> BOOLEAN] /\ Requests \subseteq Processes
      /\ \A r \in Requests : r \in Processes /\ r # rcbootup
  BY ServicesAssumption DEF TypeInv, TypeOK, Processes
<1>0. SUFFICES ASSUME NEW r \in Requests, solo'[r], pc'[r] \in {"run", "end"}
               PROVE  Alone(r)'
  BY Zenon DEF LoneInv, Alone
<1>1. solo[r] /\ pc[r] \in {"run", "end"} => Alone(r)
  BY Zenon DEF LoneInv, Alone
<1>2. ASSUME \A e \in Dhcpds \cup {"dnsmasq"} : Same(e),
             UNCHANGED <<view, todo, covered, filter>>, solo[r], pc[r] \in {"run", "end"}
      PROVE  Alone(r)'
  <2>1. ASSUME NEW d \in covered'[r] \cap (Dhcpds \cup {"dnsmasq"})
        PROVE  /\ \A e \in ByPid \cup {"bgpd", "relayd"} : ~About(todo'[r], e)
               /\ ServerState(r, d)'
               /\ Filters(r)' \/ filter' = view'[r]
    <3>1. /\ \A e \in ByPid \cup {"bgpd", "relayd"} : ~About(todo[r], e)
          /\ ServerState(r, d)
          /\ Filters(r) \/ filter = view[r]
      BY <1>1, <1>2, <2>1, Zenon DEF Alone
    <3>2. Same(d) /\ Left(r, d) /\ d \in Servers /\ d \in Daemons
      BY <1>2, Kinds DEF Left, Servers
    <3>3. ServerState(r, d)'
      BY <1>t, <3>1, <3>2, ServerFrame
    <3>4. Filters(r)' <=> Filters(r)
      BY <1>2, Zenon DEF Filters
    <3>q. QED
      BY <1>2, <3>1, <3>3, <3>4, Zenon
  <2>q. QED
    BY <2>1, Zenon DEF Alone
<1>3. ASSUME Reboot PROVE Alone(r)'
  <2>1. pc'[r] = "idle"
    BY <1>t, <1>3 DEF Reboot
  <2>q. QED
    BY <1>0, <2>1
<1>4. ASSUME NEW u \in Processes, Step(u), ~End(u) PROVE Alone(r)'
  <2>0. solo[r] /\ Busy(r) /\ Busy(u)
    <3>1. CASE Return(u)
      BY <1>t, <1>0, <1>4, <3>1 DEF Return, Busy
    <3>2. CASE ~Return(u)
      <4>1. \E a, d : Do(u, a, d) /\ UNCHANGED <<pc, solo>>
        BY <1>4, <3>2, Zenon DEF Step, Pkill, PidKill, Unlink, Sleep, Write, Start, Filter, Check, Pgrep,
                                 Reload, Then
      <4>q. QED
        BY <1>0, <4>1, DoBusy DEF Busy
    <3>q. QED
      BY <3>1, <3>2
  <2>1. u = r
    BY <1>t, <2>0, Zenon DEF SoloInv
  <2>2. CASE Return(r)
    <3>1. pc[r] \in {"run", "end"} /\ UNCHANGED <<view, todo, covered, filter, etc, proc, pidfile>>
      BY <2>2 DEF Return, system
    <3>2. \A e : Same(e)
      BY <3>1, ProcSame
    <3>q. QED
      BY <1>2, <2>0, <3>1, <3>2
  <2>3. CASE ~Return(r)
    <3>1. \E a, d : Do(r, a, d)
      BY <1>4, <2>1, <2>3, Zenon DEF Step, Pkill, PidKill, Unlink, Sleep, Write, Start, Filter, Check, Pgrep,
                               Reload
    <3>2. pc[r] = "run"
      BY <1>t, <3>1, DoBusy
    <3>3. Alone(r)
      BY <1>1, <2>0, <3>2
    <3>q. QED
      BY <1>t, <1>4, <2>1, <2>3, <3>3, AloneStep
  <2>q. QED
    BY <2>2, <2>3
<1>5. ASSUME NEW u \in Processes, End(u) PROVE Alone(r)'
  <2>1. pc' = [pc EXCEPT ![u] = "idle"] /\ solo' = [solo EXCEPT ![u] = TRUE] /\ Busy(u)
    BY <1>5 DEF End, Busy
  <2>2. u # r
    BY <1>t, <1>0, <2>1
  <2>3. Busy(r) /\ solo[r]
    BY <1>t, <1>0, <2>1, <2>2 DEF Busy
  <2>q. QED
    BY <1>t, <2>1, <2>2, <2>3, Zenon DEF SoloInv
<1>6. ASSUME NEW u \in Requests, Load(u) PROVE Alone(r)'
  <2>1. pc' = [pc EXCEPT ![u] = "edit"]
    BY <1>6 DEF Load
  <2>2. solo' = [t \in Processes |-> IF t = u THEN \A o \in Processes \ {u} : ~Busy(o) ELSE ~Busy(t)]
    BY <1>6 DEF Load
  <2>3. u # r
    BY <1>t, <1>0, <2>1
  <2>4. solo'[r] <=> ~Busy(r)
    BY <1>t, <2>2, <2>3, Zenon
  <2>5. Busy(r)
    BY <1>t, <1>0, <2>1, <2>3 DEF Busy
  <2>q. QED
    BY <1>0, <2>4, <2>5
<1>7. ASSUME NEW u \in Requests, Save(u) PROVE Alone(r)'
  <2>1. pc' = [pc EXCEPT ![u] = "run"] /\ solo' = solo /\ Busy(u)
    BY <1>7 DEF Save, Busy
  <2>2. CASE u = r
    BY <1>7, <2>2, AloneSave
  <2>3. CASE u # r
    <3>1. Busy(r) /\ solo[r]
      BY <1>t, <1>0, <2>1, <2>3 DEF Busy
    <3>q. QED
      BY <1>t, <2>1, <2>3, <3>1, Zenon DEF SoloInv
  <2>q. QED
    BY <2>2, <2>3
<1>8. ASSUME NEW p \in Pids, WritePid(p) \/ Exit(p) PROVE Alone(r)'
  <2>1. UNCHANGED <<view, todo, covered, filter, solo, pc>>
    BY <1>8 DEF WritePid, Exit
  <2>2. \A e : Same(e)
    BY <1>8, SameItself
  <2>q. QED
    BY <1>0, <1>2, <2>1, <2>2
<1>9. ASSUME NEW p \in Pids, Crash(p) PROVE Alone(r)'
  <2>1. solo' = [u \in Processes |-> ~Busy(u)] /\ pc' = pc
    BY <1>9 DEF Crash
  <2>2. solo'[r] <=> ~Busy(r)
    BY <1>t, <2>1, Zenon
  <2>q. QED
    BY <1>0, <2>1, <2>2 DEF Busy
<1>10. ASSUME UNCHANGED vars PROVE Alone(r)'
  <2>1. UNCHANGED <<view, todo, covered, filter, solo, pc, etc, proc, pidfile>>
    BY <1>10 DEF vars, system
  <2>2. \A e : Same(e)
    BY <2>1, ProcSame
  <2>q. QED
    BY <1>0, <1>2, <2>1, <2>2
<1>11. ASSUME NEW u \in Processes, NEW d \in Target(u), WriteFails(u, d) PROVE Alone(r)'
  <2>1. solo' = [t \in Processes |-> ~Busy(t)] /\ pc' = pc
    BY <1>11 DEF WriteFails
  <2>2. solo'[r] <=> ~Busy(r)
    BY <1>t, <2>1, Zenon
  <2>q. QED
    BY <1>0, <2>1, <2>2 DEF Busy
<1>q. QED
  BY <1>3, <1>4, <1>5, <1>6, <1>7, <1>8, <1>9, <1>10, <1>11, Zenon DEF Next
-----------------------------------------------------------------------------
Inv == TypeInv /\ SoloInv /\ YoungInv /\ CalmInv /\ BootCalm /\ LoneInv

LEMMA InvInit == Init => Inv
<1> SUFFICES ASSUME Init PROVE Inv
  OBVIOUS
<1>1. stored \in Config /\ Booted
  BY InitBooted
<1>2. TypeInv
  <2>1. given \in 0..MaxGiven
    BY ServicesAssumption DEF Init
  <2>q. QED
    BY <1>1, <2>1, TypeBoot
<1>q. QED
  BY <1>1, <1>2, Boots, Zenon DEF BootInv, Inv

LEMMA InvNext == Inv /\ [Next]_vars => Inv'
<1> SUFFICES ASSUME Inv, [Next]_vars PROVE Inv'
  OBVIOUS
<1>1. TypeInv /\ SoloInv /\ YoungInv /\ CalmInv /\ BootCalm /\ LoneInv
  BY Zenon DEF Inv
<1>2. TypeInv'
  <2>1. stored \in Config /\ given \in 0..MaxGiven
    BY <1>1, Zenon DEF TypeInv, TypeOK
  <2>2. ASSUME UNCHANGED vars PROVE TypeInv'
    BY <1>1, <2>2, Zenon DEF TypeInv, TypeOK, Planned, vars, system
  <2>q. QED
    BY <1>1, <2>1, <2>2, TypeStep, TypeSave, TypeLoad, TypeBoot, TypeItself, TypeFails, Zenon DEF Next
<1>q. QED
  BY <1>1, <1>2, SoloNext, YoungNext, CalmNext, BootCalmNext, LoneNext, Zenon DEF Inv

LEMMA InvAlways == Spec => []Inv
  BY InvInit, InvNext, PTL DEF Spec

\* As long as it is calm, a pid file names no process but the daemon's own, so that no call
\* kills another's.
THEOREM PidFilesAreTheirOwn == Spec => []PidFileNamesItsOwn
<1>1. Inv => PidFileNamesItsOwn
  <2> SUFFICES ASSUME Inv, calm, NEW d \in ByPid, NEW p \in Pids, pidfile[d] = p, proc[p] # NoProc
               PROVE  proc[p].svc = d
    BY Zenon DEF PidFileNamesItsOwn
  <2>1. OwnDyndns /\ OwnDhcrelay
    BY Zenon DEF Inv, CalmInv
  <2>2. CASE d = "dyndns"
    BY <2>1, <2>2 DEF OwnDyndns, Running
  <2>3. CASE d = "dhcrelay"
    BY <2>1, <2>3 DEF OwnDhcrelay, Running, Living
  <2>q. QED
    BY <2>2, <2>3 DEF ByPid
<1>q. QED
  BY <1>1, InvAlways, PTL

\* As long as it is calm, what runs between the calls is what is stored, but for what the code
\* itself leaves.
THEOREM CalmCallsServe == Spec => []CalmServes
<1>1. Inv => CalmServes
  BY Zenon DEF Inv, CalmInv, CalmServes, Settled, Servers
<1>q. QED
  BY <1>1, InvAlways, PTL

\* A call that nothing runs beside and that can open its files puts its daemons and the packet
\* filter in order, whatever overlapping calls, calls that could not write, crashes and
\* refused files have left.
THEOREM LoneCallsServe == Spec => []LoneCallServes
<1>1. Inv => LoneCallServes
  <2> SUFFICES ASSUME Inv, NEW r \in Processes, pc[r] = "end", solo[r],
                      NEW d \in covered[r] \cap (Dhcpds \cup {"dnsmasq"})
               PROVE  (view[r][d] # Gone => Serves(d, view[r])) /\ filter = view[r]
    BY Zenon DEF LoneCallServes
  <2>1. TypeInv /\ SoloInv /\ CalmInv /\ BootCalm /\ LoneInv
    BY Zenon DEF Inv
  <2>2. todo[r] = <<>> /\ Busy(r)
    BY <2>1 DEF TypeInv, Busy
  <2>3. \A a, e : ~Has(todo[r], a, e)
    BY <2>2, NothingLeft
  <2>4. ServerState(r, d) => (view[r][d] # Gone => Serves(d, view[r]))
    BY <2>3, Zenon DEF ServerState, Ends, Starting
  <2>5. CASE r = rcbootup
    <3>1. calm /\ filter = view[r]
      BY <2>1, <2>2, <2>5, Zenon DEF BootCalm
    <3>2. d \in Servers /\ d \in Daemons
      BY Kinds DEF Servers
    <3>3. State(r, d)
      BY <2>1, <2>2, <3>1, <3>2, Zenon DEF CalmInv
    <3>q. QED
      BY <2>4, <3>1, <3>2, <3>3, Zenon DEF State
  <2>6. CASE r # rcbootup
    <3>1. r \in Requests
      BY <2>6 DEF Processes
    <3>2. ServerState(r, d) /\ (Filters(r) \/ filter = view[r])
      BY <2>1, <2>2, <3>1, Zenon DEF LoneInv, Alone, TypeInv
    <3>3. ~Filters(r)
      BY <2>3, Zenon DEF Filters
    <3>q. QED
      BY <2>4, <3>2, <3>3
  <2>q. QED
    BY <2>5, <2>6
<1>q. QED
  BY <1>1, InvAlways, PTL
=============================================================================
