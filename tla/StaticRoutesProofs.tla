-------------------------- MODULE StaticRoutesProofs --------------------------
(***************************************************************************)
(* For every number of processes, and whatever static routes configurations *)
(* have: what a call that runs alone knows of routes.db and of the kernel's *)
(* tables at each of its steps, and from it that nothing is left behind,   *)
(* that routes get to their place, and that those of others are kept.      *)
(***************************************************************************)
EXTENDS StaticRoutes, SequenceTheorems, TLAPS

(* The invariant. *)

Elems(q) == {q[i] : i \in DOMAIN q}
Listed == IF db = NoFile THEN {} ELSE Elems(db)
Planned(p) == {SiteOf(view[p], e) : e \in Elems(todo[p])}
Own(s) == kernel[s] # NoRoute /\ kernel[s].by = "own"

\* What a process carries from step to step.
Carries == \A p \in Procs :
    /\ pc[p] # "idle" => view[p] \in Config
    /\ pc[p] = "clear" => todo[p] \in Seq(Line)
    /\ pc[p] \in {"add", "note"} => todo[p] \in Seq(Entry) /\ Elems(todo[p]) \subseteq Entries(view[p])
    /\ pc[p] = "note" => todo[p] # <<>>

\* The history says whose a route is.
Marks == \A s \in Site : kernel[s] # NoRoute => (s \in touched <=> kernel[s].by = "other")

\* As long as calls have not met, each runs alone.
SoloInv == \A p \in Procs : pc[p] # "idle" => /\ solo[p] => Alone(p)
                                              /\ calm => solo[p]

\* What routes.db has is known as long as calls have not met, and after a call alone; and
\* so it is known of a site that its route will have been deleted.
Known == calm \/ lone > 0
Fresh(s) == calm \/ (lone > 0 /\ s \in Sites(applied))

\* Between two calls, up to the moment when the next has read the file.
Recorded == /\ Known => Listed = Sites(applied)
            /\ calm => \A s \in Site : Own(s) => s \in Sites(applied)

\* Where a call alone has been with its routes.
InPlace(p, s) == s \notin touched => /\ kernel[s] # NoRoute
                                     /\ Fresh(s) => Own(s) /\ kernel[s].gateway \in GatewaysTo(view[p], s)

NotYet(s) == Fresh(s) => ~Own(s)

Adding(p) == /\ handle[p] = "file" /\ off[p] = Len(db)
             /\ Listed \cup Planned(p) = Sites(view[p])

Knows(p) ==
    /\ pc[p] \in {"look", "read"} => Recorded
    /\ pc[p] = "read" => db # NoFile
    /\ pc[p] = "clear" =>
         /\ Known => Elems(todo[p]) \subseteq Sites(applied)
         /\ \A s \in Site : Fresh(s) /\ Own(s) => s \in Elems(todo[p])
    /\ pc[p] \in {"open", "end"} => db = NoFile /\ \A s \in Site : NotYet(s)
    /\ pc[p] = "end" => Sites(view[p]) = {}
    /\ pc[p] = "add" =>
         Adding(p) /\ \A s \in Site : IF s \in Listed THEN InPlace(p, s) ELSE NotYet(s)
    /\ pc[p] = "note" =>
         Adding(p) /\ \A s \in Site : IF s \in Listed \cup {SiteOf(view[p], Head(todo[p]))}
                                      THEN InPlace(p, s) ELSE NotYet(s)

RestInv == AtRest => Recorded /\ RoutesInPlace
RunInv == \A p \in Procs : pc[p] # "idle" /\ solo[p] => Knows(p)
-----------------------------------------------------------------------------
(* Sites and lists. *)

LEMMA SiteTypes ==
  /\ \A c \in Config, e \in Entry : SiteOf(c, e) \in Site
  /\ \A c \in Config : Entries(c) \subseteq Entry /\ c.routes \in Seq(Entry)
                       /\ Entries(c) = Elems(c.routes)
  /\ \A c \in Config \cup {NoConfig} : Sites(c) \subseteq Site
  /\ Sites(NoConfig) = {}
<1>1. ASSUME NEW c \in Config, NEW e \in Entry PROVE SiteOf(c, e) \in Site
  BY DEF Config, Entry, SiteOf, TableId, Site
<1>2. ASSUME NEW c \in Config
      PROVE  Entries(c) \subseteq Entry /\ c.routes \in Seq(Entry) /\ Entries(c) = Elems(c.routes)
  <2>1. c # NoConfig /\ c.routes \in Seq(Entry)
    BY RoutesAssumption DEF Config
  <2>q. QED
    BY <2>1 DEF Entries, Elems
<1>3. Sites(NoConfig) = {}
  BY DEF Sites, Entries
<1>q. QED
  BY <1>1, <1>2, <1>3 DEF Sites

LEMMA HeadElems ==
  ASSUME NEW S, NEW q \in Seq(S), q # <<>>
  PROVE  Head(q) \in S /\ Tail(q) \in Seq(S) /\ Elems(q) = {Head(q)} \cup Elems(Tail(q))
<1>1. /\ Len(q) \in Nat \ {0} /\ DOMAIN q = 1..Len(q)
      /\ Tail(q) \in Seq(S) /\ Len(Tail(q)) = Len(q) - 1 /\ DOMAIN Tail(q) = 1..(Len(q) - 1)
      /\ Head(q) = q[1] /\ Head(q) \in S
      /\ \A i \in 1..(Len(q) - 1) : Tail(q)[i] = q[i + 1]
  BY HeadTailProperties, LenProperties, EmptySeq
<1>2. ASSUME NEW i \in DOMAIN q PROVE q[i] \in {Head(q)} \cup Elems(Tail(q))
  <2>1. CASE i = 1
    BY <1>1, <2>1
  <2>2. CASE i # 1
    <3>1. i - 1 \in 1..(Len(q) - 1) /\ (i - 1) + 1 = i
      BY <1>1, <2>2
    <3>2. Tail(q)[i - 1] = q[i]
      BY <1>1, <3>1
    <3>q. QED
      BY <1>1, <3>1, <3>2 DEF Elems
  <2>q. QED
    BY <2>1, <2>2
<1>3. ASSUME NEW i \in DOMAIN Tail(q) PROVE Tail(q)[i] \in Elems(q)
  <2>1. i + 1 \in DOMAIN q /\ Tail(q)[i] = q[i + 1]
    BY <1>1
  <2>q. QED
    BY <2>1 DEF Elems
<1>4. Head(q) \in Elems(q)
  BY <1>1 DEF Elems
<1>q. QED
  BY <1>1, <1>2, <1>3, <1>4 DEF Elems

\* fwrite keeps routes.db a file of lines; at its end it adds the line.
LEMMA PutEffect ==
  ASSUME NEW lines \in Seq(Line), NEW i \in Nat \ {0}, NEW line \in Line
  PROVE  /\ Put(lines, i, line) \in Seq(Line)
         /\ i = Len(lines) + 1 => /\ Len(Put(lines, i, line)) = i
                                  /\ Elems(Put(lines, i, line)) = Elems(lines) \cup {line}
<1> DEFINE n == IF i > Len(lines) THEN i ELSE Len(lines)
           new == Put(lines, i, line)
<1>1. Len(lines) \in Nat /\ n \in Nat /\ DOMAIN lines = 1..Len(lines)
      /\ \A k \in 1..Len(lines) : lines[k] \in Line
  BY LenProperties
<1>2. \A k \in 1..n : (IF k = i /\ i <= Len(lines) + 1 THEN line
                       ELSE IF k <= Len(lines) /\ k # i THEN lines[k] ELSE Garbled) \in Line
  BY <1>1 DEF Line
<1>3. new \in [1..n -> Line]
  BY <1>2 DEF Put
<1>4. new \in Seq(Line) /\ Len(new) = n
  BY <1>1, <1>3
<1>5. ASSUME i = Len(lines) + 1 PROVE Len(new) = i /\ Elems(new) = Elems(lines) \cup {line}
  <2>1. n = i
    BY <1>1, <1>5
  <2>2. \A k \in 1..i : new[k] = IF k = i THEN line ELSE lines[k]
    BY <1>1, <1>5, <2>1 DEF Put
  <2>3. DOMAIN new = 1..i
    BY <1>3, <2>1
  <2> HIDE DEF new
  <2>4. ASSUME NEW k \in 1..i PROVE new[k] \in Elems(lines) \cup {line}
    <3>1. k # i => k \in DOMAIN lines
      BY <1>1, <1>5
    <3>q. QED
      BY <2>2, <3>1 DEF Elems
  <2>5. ASSUME NEW k \in DOMAIN lines PROVE lines[k] \in Elems(new)
    <3>1. k \in 1..i /\ k # i
      BY <1>1, <1>5
    <3>q. QED
      BY <2>2, <2>3, <3>1 DEF Elems
  <2>6. line \in Elems(new)
    <3>1. i \in 1..i
      OBVIOUS
    <3>q. QED
      BY <2>2, <2>3, <3>1 DEF Elems
  <2>q. QED
    BY <1>4, <2>1, <2>3, <2>4, <2>5, <2>6 DEF Elems
<1>q. QED
  BY <1>4, <1>5
-----------------------------------------------------------------------------
(* Types. *)

TypeInv == TypeOK /\ Carries

LEMMA TypeInit == Init => TypeInv
<1> SUFFICES ASSUME Init PROVE TypeInv
  OBVIOUS
<1>1. TypeOK
  <2>1. solo \in [Procs -> BOOLEAN]
    BY DEF Init
  <2>q. QED
    BY <2>1, RoutesAssumption DEF Init, TypeOK
<1>2. Carries
  BY DEF Init, Carries
<1>q. QED
  BY <1>1, <1>2 DEF TypeInv

LEMMA CallType == ASSUME TypeInv, NEW p \in Procs, Call(p) PROVE TypeInv'
<1> USE DEF TypeInv
<1>1. solo' \in [Procs -> BOOLEAN]
  BY DEF Call, Alone, TypeOK
<1>2. met' \in 0..MaxDisturbances
  <2>1. CASE Alone(p)
    BY <2>1 DEF Call, TypeOK
  <2>2. CASE ~Alone(p)
    <3>1. met + others < MaxDisturbances /\ met' = met + 1
      BY <2>2 DEF Call
    <3>q. QED
      BY <3>1, RoutesAssumption DEF TypeOK
  <2>q. QED
    BY <2>1, <2>2
<1>3. TypeOK'
  BY <1>1, <1>2, RoutesAssumption DEF Call, To, file, TypeOK
<1>4. Carries'
  BY DEF Call, To, file, TypeOK, Carries
<1>q. QED
  BY <1>3, <1>4

LEMMA ClearType == ASSUME TypeInv, NEW p \in Procs, Clear(p) PROVE TypeInv'
<1> USE DEF TypeInv
<1>1. Head(todo[p]) \in Line /\ Tail(todo[p]) \in Seq(Line) /\ pc[p] = "clear"
  BY HeadElems DEF Clear, Carries
<1>2. TypeOK'
  BY <1>1, RoutesAssumption DEF Clear, file, callHistory, TypeOK
<1>3. Carries'
  BY <1>1 DEF Clear, file, callHistory, TypeOK, Carries
<1>q. QED
  BY <1>2, <1>3

LEMMA OpenType == ASSUME TypeInv, NEW p \in Procs, Open(p) PROVE TypeInv'
<1> USE DEF TypeInv
<1>1. view[p] \in Config /\ view[p].routes \in Seq(Entry) /\ Elems(view[p].routes) = Entries(view[p])
  BY SiteTypes DEF Open, Carries
<1>2. CASE view[p].routes = <<>>
  <2>1. TypeOK'
    BY <1>1, <1>2 DEF Open, To, file, history, callHistory, TypeOK
  <2>2. Carries'
    BY <1>1, <1>2 DEF Open, To, TypeOK, Carries
  <2>q. QED
    BY <2>1, <2>2
<1>3. CASE view[p].routes # <<>>
  <2>1. db' \in Seq(Line) /\ db' # NoFile
    <3>1. <<>> \in Seq(Line)
      OBVIOUS
    <3>q. QED
      BY <1>3, <3>1, RoutesAssumption DEF Open
  <2>2. /\ handle' \in [Procs -> {"none", "file", "lost"}] /\ off' \in [Procs -> Nat]
        /\ todo' \in [Procs -> Seq(Line) \cup Seq(Entry)]
    <3>1. handle' = [handle EXCEPT ![p] = "file"] /\ off' = [off EXCEPT ![p] = 0]
      BY <1>3 DEF Open
    <3>2. todo' = [todo EXCEPT ![p] = view[p].routes]
      BY DEF Open
    <3>3. view[p].routes \in Seq(Line) \cup Seq(Entry)
      BY <1>1
    <3>q. QED
      BY <3>1, <3>2, <3>3 DEF TypeOK
  <2>3. TypeOK'
    BY <1>3, <2>1, <2>2 DEF Open, To, history, callHistory, TypeOK
  <2>4. Carries'
    BY <1>1, <1>3 DEF Open, To, TypeOK, Carries
  <2>q. QED
    BY <2>3, <2>4
<1>q. QED
  BY <1>2, <1>3

LEMMA AddType == ASSUME TypeInv, NEW p \in Procs, Add(p) PROVE TypeInv'
<1> USE DEF TypeInv
<1> DEFINE e == Head(todo[p])
           s == SiteOf(view[p], e)
<1>1. view[p] \in Config /\ e \in Entry /\ s \in Site
  BY HeadElems, SiteTypes DEF Add, Carries
<1> HIDE DEF e, s
<1>2. [gateway |-> e.gateway, by |-> "own"] \in Route
  BY <1>1 DEF Entry, Route
<1>3. kernel' \in [Site -> Route \cup {NoRoute}] /\ touched' \subseteq Site
  BY <1>1, <1>2 DEF Add, TypeOK, e, s
<1>4. TypeOK'
  BY <1>3 DEF Add, To, file, callHistory, TypeOK
<1>5. Carries'
  BY DEF Add, To, TypeOK, Carries
<1>q. QED
  BY <1>4, <1>5

LEMMA NoteType == ASSUME TypeInv, NEW p \in Procs, Note(p) PROVE TypeInv'
<1> USE DEF TypeInv
<1>1. /\ view[p] \in Config /\ todo[p] \in Seq(Entry) /\ todo[p] # <<>>
      /\ SiteOf(view[p], Head(todo[p])) \in Line
      /\ Tail(todo[p]) \in Seq(Entry) /\ Elems(Tail(todo[p])) \subseteq Entries(view[p])
  BY HeadElems, SiteTypes DEF Note, Carries, Line
<1>2. db' \in Seq(Line) \cup {NoFile} /\ (db # NoFile => db' # NoFile)
  <2>1. CASE handle[p] = "file"
    <3>1. db \in Seq(Line) /\ off[p] + 1 \in Nat \ {0}
      BY <2>1 DEF TypeOK
    <3>2. db' = Put(db, off[p] + 1, SiteOf(view[p], Head(todo[p])))
      BY <2>1 DEF Note, Written
    <3>3. db' \in Seq(Line)
      BY <1>1, <3>1, <3>2, PutEffect
    <3>q. QED
      BY <3>3, RoutesAssumption
  <2>2. CASE handle[p] # "file"
    BY <2>2 DEF Note, Written, TypeOK
  <2>q. QED
    BY <2>1, <2>2
<1>3. TypeOK'
  BY <1>1, <1>2 DEF Note, Written, To, history, callHistory, TypeOK
<1>4. Carries'
  BY <1>1 DEF Note, Written, To, TypeOK, Carries
<1>q. QED
  BY <1>3, <1>4

LEMMA FinishType == ASSUME TypeInv, NEW p \in Procs, Finish(p) PROVE TypeInv'
<1> USE DEF TypeInv
<1>1. view[p] \in Config /\ Sites(view[p]) \subseteq Site
  BY SiteTypes DEF Finish, Carries
<1>2. solo' \in [Procs -> BOOLEAN]
  BY DEF Finish, TypeOK
<1>3. lone' \in 0..2
  <2>1. lone' = 0 \/ lone' = 1 \/ lone' = 2
    BY DEF Finish
  <2>q. QED
    BY <2>1
<1>4. TypeOK'
  BY <1>1, <1>2, <1>3 DEF Finish, To, TypeOK
<1>5. Carries'
  BY DEF Finish, To, TypeOK, Carries
<1>q. QED
  BY <1>4, <1>5

LEMMA PowerLossType == ASSUME TypeInv, PowerLoss PROVE TypeInv'
<1> USE DEF TypeInv
<1>1. solo' \in [Procs -> BOOLEAN]
  BY DEF PowerLoss
<1>2. TypeOK'
  BY <1>1, RoutesAssumption DEF PowerLoss, TypeOK
<1>3. Carries'
  BY DEF PowerLoss, TypeOK, Carries
<1>q. QED
  BY <1>2, <1>3

LEMMA TypeStep == TypeInv /\ [Next]_vars => TypeInv'
<1> SUFFICES ASSUME TypeInv, [Next]_vars PROVE TypeInv'
  OBVIOUS
<1>1. ASSUME NEW p \in Procs, Look(p) \/ Read(p) \/ Unlink(p) PROVE TypeInv'
  <2>1. TypeOK'
    <3>1. CASE Look(p)
      BY <3>1 DEF Look, To, file, history, callHistory, TypeInv, TypeOK
    <3>2. CASE Read(p)
      BY <3>2, ZenonT(60) DEF Read, To, file, history, callHistory, TypeInv, TypeOK
    <3>3. CASE Unlink(p)
      BY <3>3 DEF Unlink, To, history, callHistory, TypeInv, TypeOK
    <3>q. QED
      BY <1>1, <3>1, <3>2, <3>3
  <2>2. Carries'
    BY <1>1 DEF Look, Read, Unlink, To, TypeInv, TypeOK, Carries
  <2>q. QED
    BY <2>1, <2>2 DEF TypeInv
<1>2. CASE EditTables
  <2>1. stored' \in Config
    BY <1>2 DEF EditTables, Config, TypeInv, TypeOK
  <2>2. calls' \in 0..MaxCalls
    BY <1>2, RoutesAssumption DEF EditTables, TypeInv, TypeOK
  <2>q. QED
    BY <1>2, <2>1, <2>2 DEF EditTables, file, history, callHistory, TypeInv, TypeOK, Carries
<1>3. CASE Other
  <2>1. OthersRoute \in Route
    BY RoutesAssumption DEF OthersRoute, Route
  <2>2. others' \in 0..MaxDisturbances
    BY <1>3, RoutesAssumption DEF Other, TypeInv, TypeOK
  <2>q. QED
    BY <1>3, <2>1, <2>2 DEF Other, file, callHistory, TypeInv, TypeOK, Carries
<1>4. CASE UNCHANGED vars
  BY <1>4 DEF vars, file, history, callHistory, TypeInv, TypeOK, Carries
<1>q. QED
  BY <1>1, <1>2, <1>3, <1>4, CallType, ClearType, OpenType, AddType, NoteType, FinishType,
     PowerLossType DEF Next, Step

\* Every variable stays in its set, and a handle that is good is one of a file that is there.
THEOREM RoutesTypeCorrect == Spec => []TypeOK
<1>1. TypeInv => TypeOK
  BY DEF TypeInv
<1>q. QED
  BY TypeInit, TypeStep, <1>1, PTL DEF Spec
-----------------------------------------------------------------------------
(* The history. *)

LEMMA MarksStep == TypeInv /\ Marks /\ [Next]_vars => Marks'
<1> SUFFICES ASSUME TypeInv, Marks, [Next]_vars PROVE Marks'
  OBVIOUS
<1> USE DEF Marks
<1>1. ASSUME NEW p \in Procs, Call(p) \/ Look(p) \/ Read(p) \/ Unlink(p) \/ Open(p) \/ Note(p)
                              \/ Finish(p)
      PROVE  Marks'
  <2>1. kernel' = kernel /\ touched' = touched
    BY <1>1 DEF Call, Look, Read, Unlink, Open, Note, Written, Finish, history, callHistory
  <2>q. QED
    BY <2>1
<1>2. ASSUME NEW p \in Procs, Clear(p) PROVE Marks'
  BY <1>2 DEF Clear
<1>3. ASSUME NEW p \in Procs, Add(p) PROVE Marks'
  <2> DEFINE s0 == SiteOf(view[p], Head(todo[p]))
             own == [gateway |-> Head(todo[p]).gateway, by |-> "own"]
  <2>1. own.by = "own"
    OBVIOUS
  <2>2. kernel \in [Site -> Route \cup {NoRoute}]
    BY DEF TypeInv, TypeOK
  <2>3. \/ kernel' = kernel /\ touched' = touched
        \/ kernel' = [kernel EXCEPT ![s0] = own] /\ touched' = touched \ {s0}
        \/ kernel[s0] = NoRoute /\ touched' = touched \cup {s0} /\ kernel' = kernel
    BY <1>3 DEF Add
  <2> HIDE DEF s0, own
  <2>q. QED
    BY <2>1, <2>2, <2>3
<1>4. CASE EditTables
  BY <1>4 DEF EditTables, history
<1>5. CASE Other
  <2>1. PICK s0 \in Site : /\ kernel' = [kernel EXCEPT ![s0] = IF @ = NoRoute THEN OthersRoute ELSE NoRoute]
                           /\ touched' = touched \cup {s0}
    BY <1>5 DEF Other
  <2>2. kernel \in [Site -> Route \cup {NoRoute}] /\ OthersRoute.by = "other"
    BY DEF TypeInv, TypeOK, OthersRoute
  <2>q. QED
    BY <2>1, <2>2
<1>6. CASE PowerLoss
  BY <1>6 DEF PowerLoss
<1>7. CASE UNCHANGED vars
  BY <1>7 DEF vars, history
<1>q. QED
  BY <1>1, <1>2, <1>3, <1>4, <1>5, <1>6, <1>7 DEF Next, Step

LEMMA SoloStep == TypeInv /\ SoloInv /\ [Next]_vars => SoloInv'
<1> SUFFICES ASSUME TypeInv, SoloInv, [Next]_vars,
                    NEW q \in Procs, pc'[q] # "idle"
             PROVE  (solo'[q] => Alone(q)') /\ (calm' => solo'[q])
  BY DEF SoloInv
<1>0. pc[q] # "idle" => (solo[q] => Alone(q)) /\ (calm => solo[q])
  BY DEF SoloInv
<1>t. /\ pc \in [Procs -> {"idle", "look", "read", "clear", "open", "add", "note", "end"}]
      /\ DOMAIN solo = Procs /\ met \in Nat
  BY RoutesAssumption DEF TypeInv, TypeOK
<1>1. ASSUME solo'[q] = solo[q], met' = met, pc[q] # "idle",
             \A r \in Procs : pc'[r] = "idle" \/ pc[r] # "idle"
      PROVE  (solo'[q] => Alone(q)') /\ (calm' => solo'[q])
  BY <1>0, <1>1, Zenon DEF Alone, calm
<1>2. ASSUME NEW p \in Procs, Call(p) PROVE (solo'[q] => Alone(q)') /\ (calm' => solo'[q])
  <2>1. pc' = [pc EXCEPT ![p] = "look"] /\ pc[p] = "idle"
        /\ solo' = [r \in Procs |-> IF r = p THEN Alone(p) ELSE solo[r] /\ pc[r] = "idle"]
        /\ (Alone(p) \/ met' = met + 1)
    BY <1>2 DEF Call, To
  <2>2. calm' => Alone(p)
    BY <1>t, <2>1 DEF calm
  <2>3. CASE q = p
    <3>1. solo'[q] <=> Alone(p)
      BY <2>1, <2>3, Zenon
    <3>2. Alone(p) => Alone(q)'
      BY <1>t, <2>1, <2>3 DEF Alone
    <3>q. QED
      BY <2>2, <3>1, <3>2
  <2>4. CASE q # p
    <3>1. pc[q] # "idle"
      BY <1>t, <2>1, <2>4
    <3>2. ~solo'[q]
      BY <2>1, <2>4, <3>1, Zenon
    <3>3. ~Alone(p)
      BY <2>4, <3>1 DEF Alone
    <3>q. QED
      BY <2>2, <3>2, <3>3
  <2>q. QED
    BY <2>3, <2>4
<1>3. ASSUME NEW p \in Procs, Step(p) PROVE (solo'[q] => Alone(q)') /\ (calm' => solo'[q])
  <2>1. pc[p] # "idle" /\ met' = met /\ \A r \in Procs \ {p} : pc'[r] = pc[r]
    BY <1>t, <1>3 DEF Step, Look, Read, Clear, Unlink, Open, Add, Note, Written, Finish, To,
                      history, callHistory
  <2>2. CASE Finish(p)
    <3>1. pc'[p] = "idle" /\ solo' = [solo EXCEPT ![p] = TRUE]
      BY <1>t, <2>2 DEF Finish, To
    <3>2. q # p /\ solo'[q] = solo[q] /\ pc[q] # "idle"
      BY <1>t, <2>1, <3>1
    <3>q. QED
      BY <1>1, <2>1, <3>2
  <2>3. CASE ~Finish(p)
    <3>1. solo' = solo
      BY <1>3, <2>3 DEF Step, Look, Read, Clear, Unlink, Open, Add, Note, Written, To, history,
                        callHistory
    <3>2. pc[q] # "idle"
      BY <2>1
    <3>q. QED
      BY <1>1, <2>1, <3>1, <3>2
  <2>q. QED
    BY <2>2, <2>3
<1>4. CASE EditTables \/ Other \/ UNCHANGED vars
  <2>1. solo' = solo /\ met' = met /\ pc' = pc
    BY <1>4 DEF EditTables, Other, vars, history, callHistory
  <2>q. QED
    BY <1>1, <2>1
<1>5. CASE PowerLoss
  <2>1. PICK b \in Procs : pc' = [p \in Procs |-> IF p = b THEN "look" ELSE "idle"]
    BY <1>5 DEF PowerLoss
  <2>2. q = b /\ solo'[q] = TRUE
    BY <1>5, <2>1 DEF PowerLoss
  <2>3. Alone(q)'
    BY <2>1, <2>2 DEF Alone
  <2>q. QED
    BY <2>2, <2>3
<1>q. QED
  BY <1>2, <1>3, <1>4, <1>5 DEF Next
-----------------------------------------------------------------------------
(* A call that runs alone, step by step. *)

LEMMA LookKnows == ASSUME TypeInv, NEW p \in Procs, Look(p), Knows(p) PROVE Knows(p)'
<1>1. Recorded /\ pc[p] = "look"
  BY DEF Look, Knows
<1>2. /\ db' = db /\ kernel' = kernel /\ touched' = touched /\ met' = met /\ lone' = lone
      /\ applied' = applied /\ pc'[p] = IF db = NoFile THEN "open" ELSE "read"
  BY DEF Look, To, file, history, callHistory, TypeInv, TypeOK
<1>3. CASE db = NoFile
  <2>1. Listed = {}
    BY <1>3 DEF Listed
  <2>2. \A s \in Site : NotYet(s)
    BY <1>1, <2>1 DEF Recorded, Known, Fresh, NotYet
  <2>3. \A s \in Site : NotYet(s)'
    BY <1>2, <2>2 DEF NotYet, Fresh, calm, Own
  <2>4. pc'[p] = "open" /\ db' = NoFile
    BY <1>2, <1>3
  <2>q. QED
    BY <2>3, <2>4 DEF Knows
<1>4. CASE db # NoFile
  <2>1. Recorded'
    BY <1>1, <1>2 DEF Recorded, Known, Listed, calm, Own
  <2>2. pc'[p] = "read" /\ db' # NoFile
    BY <1>2, <1>4
  <2>q. QED
    BY <2>1, <2>2 DEF Knows
<1>q. QED
  BY <1>3, <1>4

LEMMA ReadKnows == ASSUME TypeInv, NEW p \in Procs, Read(p), Knows(p) PROVE Knows(p)'
<1>1. Recorded /\ db # NoFile /\ pc[p] = "read"
  BY DEF Read, Knows
<1>2. /\ kernel' = kernel /\ touched' = touched /\ met' = met /\ lone' = lone
      /\ applied' = applied /\ pc'[p] = "clear" /\ todo'[p] = db
  BY <1>1 DEF Read, To, file, history, callHistory, TypeInv, TypeOK
<1>3. Elems(todo'[p]) = Listed
  BY <1>1, <1>2 DEF Listed
<1>4. Known' => Elems(todo'[p]) \subseteq Sites(applied')
  BY <1>1, <1>2, <1>3 DEF Recorded, Known, calm
<1>5. \A s \in Site : Fresh(s)' /\ Own(s)' => s \in Elems(todo'[p])
  <2>1. \A s \in Site : Fresh(s) /\ Own(s) => s \in Listed
    BY <1>1 DEF Recorded, Known, Fresh
  <2>q. QED
    BY <1>2, <1>3, <2>1 DEF Fresh, calm, Own
<1>q. QED
  BY <1>2, <1>4, <1>5 DEF Knows

LEMMA ClearKnows == ASSUME TypeInv, NEW p \in Procs, Clear(p), Knows(p) PROVE Knows(p)'
<1>1. /\ pc[p] = "clear" /\ todo[p] \in Seq(Line) /\ todo[p] # <<>>
      /\ Known => Elems(todo[p]) \subseteq Sites(applied)
      /\ \A s \in Site : Fresh(s) /\ Own(s) => s \in Elems(todo[p])
  BY DEF Clear, TypeInv, Carries, Knows
<1>2. Elems(todo[p]) = {Head(todo[p])} \cup Elems(Tail(todo[p]))
  BY <1>1, HeadElems
<1>3. /\ kernel' = [s \in Site |-> IF s = Head(todo[p]) THEN NoRoute ELSE kernel[s]]
      /\ met' = met /\ lone' = lone /\ applied' = applied
      /\ pc'[p] = "clear" /\ todo'[p] = Tail(todo[p])
  BY <1>1 DEF Clear, file, callHistory, TypeInv, TypeOK
<1>4. Known' => Elems(todo'[p]) \subseteq Sites(applied')
  BY <1>1, <1>2, <1>3 DEF Known, calm
<1>5. \A s \in Site : Fresh(s)' /\ Own(s)' => s \in Elems(todo'[p])
  <2> TAKE s \in Site
  <2>1. Fresh(s)' => Fresh(s)
    BY <1>3 DEF Fresh, calm
  <2>2. Own(s)' => Own(s) /\ s # Head(todo[p])
    BY <1>3 DEF Own
  <2>q. QED
    BY <1>1, <1>2, <1>3, <2>1, <2>2
<1>q. QED
  BY <1>3, <1>4, <1>5 DEF Knows

LEMMA UnlinkKnows == ASSUME TypeInv, NEW p \in Procs, Unlink(p), Knows(p) PROVE Knows(p)'
<1>1. Elems(todo[p]) = {} /\ \A s \in Site : Fresh(s) /\ Own(s) => s \in Elems(todo[p])
  BY DEF Unlink, Knows, Elems
<1>2. /\ kernel' = kernel /\ met' = met /\ lone' = lone /\ applied' = applied
      /\ pc'[p] = "open" /\ db' = NoFile
  BY DEF Unlink, To, history, callHistory, TypeInv, TypeOK
<1>3. \A s \in Site : NotYet(s)'
  BY <1>1, <1>2 DEF NotYet, Fresh, calm, Own
<1>q. QED
  BY <1>2, <1>3 DEF Knows

LEMMA OpenKnows == ASSUME TypeInv, NEW p \in Procs, Open(p), Knows(p) PROVE Knows(p)'
<1>1. db = NoFile /\ (\A s \in Site : NotYet(s)) /\ pc[p] = "open"
  BY DEF Open, Knows
<1>2. /\ kernel' = kernel /\ met' = met /\ lone' = lone /\ applied' = applied
      /\ view' = view /\ todo'[p] = view[p].routes
  BY DEF Open, history, callHistory, TypeInv, TypeOK
<1>3. \A s \in Site : NotYet(s)'
  BY <1>1, <1>2 DEF NotYet, Fresh, calm, Own
<1>4. view[p] \in Config /\ Elems(view[p].routes) = Entries(view[p])
  BY <1>1, SiteTypes DEF TypeInv, Carries
<1>5. CASE view[p].routes = <<>>
  <2>1. Sites(view'[p]) = {}
    BY <1>2, <1>4, <1>5 DEF Sites, Elems
  <2>2. pc'[p] = "end" /\ db' = NoFile
    BY <1>1, <1>5 DEF Open, To, file, TypeInv, TypeOK
  <2>q. QED
    BY <1>3, <2>1, <2>2 DEF Knows
<1>6. CASE view[p].routes # <<>>
  <2>1. pc'[p] = "add" /\ db' = <<>> /\ handle'[p] = "file" /\ off'[p] = 0
    BY <1>6 DEF Open, To, TypeInv, TypeOK
  <2>2. Listed' = {}
    BY <2>1 DEF Listed, Elems
  <2>3. Planned(p)' = Sites(view'[p])
    BY <1>2, <1>4 DEF Planned, Sites
  <2>4. Adding(p)'
    BY <2>1, <2>2, <2>3 DEF Adding
  <2>q. QED
    BY <1>3, <2>1, <2>2, <2>4 DEF Knows
<1>q. QED
  BY <1>5, <1>6

LEMMA AddKnows == ASSUME TypeInv, Marks, NEW p \in Procs, Add(p), Knows(p) PROVE Knows(p)'
<1>e. PICK e, s0, own : /\ e = Head(todo[p])
                        /\ s0 = SiteOf(view[p], e)
                        /\ own = [gateway |-> e.gateway, by |-> "own"]
  OBVIOUS
<1>1. /\ Adding(p) /\ pc[p] = "add"
      /\ \A s \in Site : IF s \in Listed THEN InPlace(p, s) ELSE NotYet(s)
  BY DEF Add, Knows
<1>2. view[p] \in Config /\ e \in Entry /\ e \in Entries(view[p]) /\ s0 \in Site
  <2>1. /\ view[p] \in Config /\ todo[p] \in Seq(Entry) /\ todo[p] # <<>>
        /\ Elems(todo[p]) \subseteq Entries(view[p])
    BY DEF Add, TypeInv, Carries
  <2>q. QED
    BY <2>1, <1>e, HeadElems, SiteTypes
<1>3. own.by = "own" /\ own \in Route /\ own.gateway \in GatewaysTo(view[p], s0)
  BY <1>e, <1>2 DEF Entry, Route, GatewaysTo
<1>4. /\ db' = db /\ handle' = handle /\ off' = off /\ view' = view /\ todo' = todo
      /\ met' = met /\ lone' = lone /\ applied' = applied /\ pc'[p] = "note"
  BY DEF Add, To, file, callHistory, TypeInv, TypeOK
<1>5. \/ kernel[s0] # NoRoute /\ kernel' = kernel /\ touched' = touched
      \/ kernel[s0] = NoRoute /\ kernel' = [kernel EXCEPT ![s0] = own] /\ touched' = touched \ {s0}
      \/ kernel[s0] = NoRoute /\ touched' = touched \cup {s0} /\ kernel' = kernel
  BY <1>e DEF Add
<1>6. kernel \in [Site -> Route \cup {NoRoute}]
  BY DEF TypeInv, TypeOK
<1>7. \A s \in Site : Fresh(s)' <=> Fresh(s)
  BY <1>4 DEF Fresh, calm
<1>8. InPlace(p, s0)'
  <2>1. CASE kernel[s0] # NoRoute /\ kernel' = kernel /\ touched' = touched
    <3>1. CASE s0 \in Listed
      BY <1>1, <1>2, <1>4, <1>7, <2>1, <3>1 DEF InPlace, Own
    <3>2. CASE s0 \notin Listed
      <4>1. NotYet(s0)
        BY <1>1, <1>2, <3>2
      <4>2. Own(s0) \/ s0 \in touched
        BY <1>2, <1>6, <2>1 DEF Marks, Route, Own
      <4>q. QED
        BY <1>2, <1>7, <2>1, <4>1, <4>2 DEF NotYet, InPlace
    <3>q. QED
      BY <3>1, <3>2
  <2>2. CASE kernel' = [kernel EXCEPT ![s0] = own]
    <3>1. kernel'[s0] = own
      BY <1>2, <1>6, <2>2
    <3>2. own # NoRoute
      BY <1>3, RoutesAssumption
    <3>q. QED
      BY <1>3, <1>4, <3>1, <3>2 DEF InPlace, Own
  <2>3. CASE touched' = touched \cup {s0}
    BY <2>3 DEF InPlace
  <2>q. QED
    BY <1>5, <2>1, <2>2, <2>3
<1>9. ASSUME NEW s \in Site, s # s0 PROVE IF s \in Listed THEN InPlace(p, s)' ELSE NotYet(s)'
  <2>1. kernel'[s] = kernel[s] /\ (s \in touched' <=> s \in touched)
    BY <1>5, <1>6, <1>9
  <2>2. CASE s \in Listed
    <3>1. InPlace(p, s)
      BY <1>1, <2>2
    <3>2. InPlace(p, s)'
      BY <1>4, <1>7, <2>1, <3>1 DEF InPlace, Own
    <3>q. QED
      BY <2>2, <3>2
  <2>3. CASE s \notin Listed
    <3>1. NotYet(s)
      BY <1>1, <2>3
    <3>2. NotYet(s)'
      BY <1>7, <2>1, <3>1 DEF NotYet, Own
    <3>q. QED
      BY <2>3, <3>2
  <2>q. QED
    BY <2>2, <2>3
<1>10. Listed' = Listed /\ Planned(p)' = Planned(p)
  BY <1>4 DEF Listed, Planned
<1>11. Adding(p)'
  BY <1>1, <1>4, <1>10 DEF Adding
<1>12. \A s \in Site : IF s \in Listed' \cup {SiteOf(view'[p], Head(todo'[p]))}
                       THEN InPlace(p, s)' ELSE NotYet(s)'
  <2>1. SiteOf(view'[p], Head(todo'[p])) = s0
    BY <1>e, <1>4
  <2>q. QED
    BY <1>8, <1>9, <1>10, <2>1
<1>q. QED
  BY <1>4, <1>11, <1>12 DEF Knows

LEMMA NoteKnows == ASSUME TypeInv, NEW p \in Procs, Note(p), Knows(p) PROVE Knows(p)'
<1>s. PICK s0 : s0 = SiteOf(view[p], Head(todo[p]))
  OBVIOUS
<1>1. /\ Adding(p) /\ pc[p] = "note"
      /\ \A s \in Site : IF s \in Listed \cup {s0} THEN InPlace(p, s) ELSE NotYet(s)
  BY <1>s DEF Note, Knows
<1>2. /\ view[p] \in Config /\ todo[p] \in Seq(Entry) /\ todo[p] # <<>> /\ s0 \in Line
      /\ Elems(todo[p]) = {Head(todo[p])} \cup Elems(Tail(todo[p]))
  BY <1>s, <1>1, HeadElems, SiteTypes DEF TypeInv, Carries, Line
<1>3. db \in Seq(Line) /\ db # NoFile /\ Len(db) \in Nat
  BY <1>1 DEF Adding, TypeInv, TypeOK
<1>4. /\ kernel' = kernel /\ touched' = touched /\ handle' = handle /\ view' = view
      /\ met' = met /\ lone' = lone /\ applied' = applied /\ pc'[p] = "add"
      /\ off'[p] = off[p] + 1 /\ todo'[p] = Tail(todo[p])
      /\ db' = Put(db, Len(db) + 1, s0)
  BY <1>s, <1>1 DEF Note, Written, To, history, callHistory, Adding, TypeInv, TypeOK
<1>5. db' \in Seq(Line) /\ Len(db') = Len(db) + 1 /\ Elems(db') = Elems(db) \cup {s0}
  <2>1. PICK i \in Nat \ {0} : i = Len(db) + 1
    BY <1>3
  <2>2. /\ Put(db, i, s0) \in Seq(Line) /\ Len(Put(db, i, s0)) = i
        /\ Elems(Put(db, i, s0)) = Elems(db) \cup {s0}
    BY <1>2, <1>3, <2>1, PutEffect, Zenon
  <2>q. QED
    BY <1>4, <2>1, <2>2, Zenon
<1>6. Listed' = Listed \cup {s0}
  BY <1>3, <1>5, RoutesAssumption DEF Listed
<1>7. Planned(p) = {s0} \cup Planned(p)'
  BY <1>s, <1>2, <1>4 DEF Planned
<1>8. Adding(p)'
  BY <1>1, <1>4, <1>5, <1>6, <1>7 DEF Adding
<1>9. \A s \in Site : IF s \in Listed' THEN InPlace(p, s)' ELSE NotYet(s)'
  <2>1. \A s \in Site : /\ InPlace(p, s)' <=> InPlace(p, s)
                        /\ NotYet(s)' <=> NotYet(s)
    BY <1>4 DEF InPlace, NotYet, Fresh, calm, Own
  <2>q. QED
    BY <1>1, <1>6, <2>1
<1>q. QED
  BY <1>4, <1>8, <1>9 DEF Knows

\* Whoever changes a route beside it leaves a mark.
LEMMA OtherKnows == ASSUME TypeInv, NEW p \in Procs, Other, Knows(p) PROVE Knows(p)'
<1>1. PICK s0 \in Site : /\ kernel' = [kernel EXCEPT ![s0] = IF @ = NoRoute THEN OthersRoute ELSE NoRoute]
                         /\ touched' = touched \cup {s0}
  BY DEF Other
<1>2. /\ db' = db /\ handle' = handle /\ off' = off /\ pc' = pc /\ view' = view /\ todo' = todo
      /\ met' = met /\ lone' = lone /\ applied' = applied
  BY DEF Other, file, callHistory
<1>3. \A s \in Site : Own(s)' => Own(s)
  <2>1. kernel \in [Site -> Route \cup {NoRoute}] /\ OthersRoute.by = "other"
    BY DEF TypeInv, TypeOK, OthersRoute
  <2>q. QED
    BY <1>1, <2>1 DEF Own
<1>4. \A s \in Site : Fresh(s)' <=> Fresh(s)
  BY <1>2 DEF Fresh, calm
<1>5. ASSUME NEW s \in Site PROVE (NotYet(s) => NotYet(s)') /\ (InPlace(p, s) => InPlace(p, s)')
  <2>1. NotYet(s) => NotYet(s)'
    BY <1>3, <1>4 DEF NotYet
  <2>2. CASE s = s0
    BY <1>1, <2>1, <2>2 DEF InPlace
  <2>3. CASE s # s0
    <3>1. kernel'[s] = kernel[s]
      BY <1>1, <2>3 DEF TypeInv, TypeOK
    <3>2. InPlace(p, s) => InPlace(p, s)'
      BY <1>1, <1>2, <1>4, <3>1 DEF InPlace, Own
    <3>q. QED
      BY <2>1, <3>2
  <2>q. QED
    BY <2>2, <2>3
<1>6. Recorded => Recorded'
  BY <1>2, <1>3 DEF Recorded, Known, Listed, calm
<1>7. Adding(p) => Adding(p)'
  BY <1>2 DEF Adding, Listed, Planned
<1>8. Listed' = Listed /\ (Known' <=> Known)
  BY <1>2 DEF Listed, Known, calm
<1>9. CASE pc[p] \in {"look", "read", "open", "end", "clear", "idle"}
  BY <1>2, <1>3, <1>4, <1>5, <1>6, <1>8, <1>9 DEF Knows
<1>10. CASE pc[p] = "add"
  BY <1>2, <1>5, <1>7, <1>8, <1>10 DEF Knows
<1>11. CASE pc[p] = "note"
  BY <1>2, <1>5, <1>7, <1>8, <1>11 DEF Knows
<1>q. QED
  BY <1>9, <1>10, <1>11 DEF TypeInv, TypeOK
-----------------------------------------------------------------------------
(* All calls. *)

RoutesInv == TypeInv /\ Marks /\ SoloInv /\ RestInv /\ RunInv

LEMMA RoutesInit == Init => RoutesInv
<1> SUFFICES ASSUME Init PROVE RoutesInv
  OBVIOUS
<1>1. PICK b \in Procs : pc = [p \in Procs |-> IF p = b THEN "look" ELSE "idle"]
  BY DEF Init
<1>2. Marks
  BY DEF Init, Marks
<1>3. SoloInv
  BY <1>1 DEF Init, SoloInv, Alone
<1>4. RestInv
  BY <1>1 DEF RestInv, AtRest
<1>5. Recorded
  BY SiteTypes DEF Init, Recorded, Listed, Own
<1>6. RunInv
  BY <1>1, <1>5 DEF RunInv, Knows
<1>q. QED
  BY <1>2, <1>3, <1>4, <1>6, TypeInit DEF RoutesInv

LEMMA CallStep ==
  ASSUME RoutesInv, SoloInv', NEW p \in Procs, Call(p)
  PROVE  RestInv' /\ RunInv'
<1>1. /\ pc' = [pc EXCEPT ![p] = "look"] /\ pc[p] = "idle"
      /\ solo' = [q \in Procs |-> IF q = p THEN Alone(p) ELSE solo[q] /\ pc[q] = "idle"]
      /\ kernel' = kernel /\ db' = db /\ lone' = lone /\ applied' = applied
      /\ Alone(p) => met' = met
  BY DEF Call, To, file
<1>2. pc'[p] = "look"
  BY <1>1 DEF RoutesInv, TypeInv, TypeOK
<1>3. RestInv'
  BY <1>2 DEF RestInv, AtRest
<1>4. ASSUME NEW q \in Procs, pc'[q] # "idle", solo'[q] PROVE Knows(q)'
  <2>1. Alone(q)'
    BY <1>4 DEF SoloInv
  <2>2. q = p
    BY <1>2, <2>1 DEF Alone
  <2>3. Alone(p)
    BY <1>1, <1>4, <2>2, Zenon
  <2>4. AtRest
    BY <1>1, <2>3 DEF Alone, AtRest
  <2>5. Recorded
    BY <2>4 DEF RoutesInv, RestInv
  <2>6. Recorded'
    BY <1>1, <2>3, <2>5 DEF Recorded, Known, Listed, calm, Own
  <2>q. QED
    BY <1>2, <2>2, <2>6 DEF Knows
<1>q. QED
  BY <1>3, <1>4 DEF RunInv

\* A call that ran alone leaves routes.db with its sites, and its routes in place.
LEMMA FinishStep ==
  ASSUME RoutesInv, NEW p \in Procs, Finish(p)
  PROVE  RestInv' /\ RunInv'
<1>1. /\ pc[p] # "idle" /\ pc'[p] = "idle" /\ \A q \in Procs \ {p} : pc'[q] = pc[q] /\ solo'[q] = solo[q]
      /\ applied' = view[p] /\ again' = Sites(view[p]) \cap Sites(applied)
      /\ kernel' = kernel /\ db' = db /\ touched' = touched /\ met' = met
      /\ lone' = IF ~solo[p] THEN 0 ELSE IF lone = 0 THEN 1 ELSE 2
  BY DEF Finish, To, RoutesInv, TypeInv, TypeOK
<1>2. ASSUME NEW q \in Procs, pc'[q] # "idle", solo'[q] PROVE FALSE
  <2>1. q # p
    BY <1>1, <1>2
  <2>2. pc[q] # "idle" /\ solo[q]
    BY <1>1, <1>2, <2>1
  <2>3. Alone(q)
    BY <2>2 DEF RoutesInv, SoloInv
  <2>q. QED
    BY <1>1, <2>1, <2>3 DEF Alone
<1>3. CASE ~solo[p]
  <2>1. lone' = 0
    BY <1>1, <1>3, Zenon
  <2>2. ~calm'
    <3>1. ~calm
      BY <1>1, <1>3 DEF RoutesInv, SoloInv
    <3>q. QED
      BY <1>1, <3>1 DEF calm
  <2>3. Recorded' /\ RoutesInPlace'
    BY <2>1, <2>2 DEF Recorded, Known, RoutesInPlace
  <2>q. QED
    BY <1>2, <2>3 DEF RestInv, RunInv
<1>4. CASE solo[p]
  <2>1. Knows(p) /\ view[p] \in Config
    BY <1>1, <1>4 DEF RoutesInv, RunInv, TypeInv, Carries
  <2>2. /\ Listed = Sites(view[p])
        /\ \A s \in Site : IF s \in Sites(view[p]) THEN InPlace(p, s) ELSE NotYet(s)
    <3>1. CASE pc[p] = "add" /\ todo[p] = <<>>
      <4>1. Planned(p) = {}
        BY <3>1 DEF Planned, Elems
      <4>2. Listed = Sites(view[p])
        BY <2>1, <3>1, <4>1 DEF Knows, Adding
      <4>q. QED
        BY <2>1, <3>1, <4>2 DEF Knows
    <3>2. CASE pc[p] = "end"
      BY <2>1, <3>2 DEF Knows, Listed
    <3>q. QED
      BY <3>1, <3>2 DEF Finish
  <2>3. Recorded'
    <3>1. Listed' = Sites(applied')
      BY <1>1, <2>2 DEF Listed
    <3>2. calm' => \A s \in Site : Own(s)' => s \in Sites(applied')
      BY <1>1, <2>2 DEF NotYet, Fresh, calm, Own
    <3>q. QED
      BY <3>1, <3>2 DEF Recorded
  <2>4. lone' = 2 => lone > 0
    <3>1. lone \in 0..2
      BY DEF RoutesInv, TypeInv, TypeOK
    <3>2. lone' = IF lone = 0 THEN 1 ELSE 2
      BY <1>1, <1>4, Zenon
    <3>q. QED
      BY <3>1, <3>2
  <2>5. ASSUME NEW s \in Sites(applied') \ touched'
        PROVE  /\ kernel'[s] # NoRoute
               /\ calm' \/ (lone' = 2 /\ s \in again') =>
                    kernel'[s] \in [gateway : GatewaysTo(applied', s), by : {"own"}]
    <3>1. s \in Site /\ s \in Sites(view[p]) /\ s \notin touched
      BY <1>1, <2>1, <2>5, SiteTypes
    <3>2. kernel[s] # NoRoute /\ (Fresh(s) => Own(s) /\ kernel[s].gateway \in GatewaysTo(view[p], s))
      BY <2>2, <3>1 DEF InPlace
    <3>3. calm' \/ (lone' = 2 /\ s \in again') => Fresh(s)
      BY <1>1, <2>4 DEF Fresh, calm
    <3>4. kernel[s] = [gateway |-> kernel[s].gateway, by |-> kernel[s].by]
      BY <3>1, <3>2 DEF RoutesInv, TypeInv, TypeOK, Route
    <3>5. Fresh(s) => kernel[s] \in [gateway : GatewaysTo(view[p], s), by : {"own"}]
      BY <3>2, <3>4 DEF Own
    <3>q. QED
      BY <1>1, <3>2, <3>3, <3>5
  <2>6. RoutesInPlace'
    BY <2>5 DEF RoutesInPlace
  <2>q. QED
    BY <1>2, <2>3, <2>6 DEF RestInv, RunInv
<1>q. QED
  BY <1>3, <1>4

\* The other steps of a call, of which nobody else's tells anything.
LEMMA OnlyCall ==
  ASSUME RoutesInv, NEW p \in Procs, pc[p] # "idle", pc'[p] # "idle", solo' = solo,
         \A q \in Procs \ {p} : pc'[q] = pc[q],
         Knows(p) => Knows(p)'
  PROVE  RestInv' /\ RunInv'
<1>1. RestInv'
  BY DEF RestInv, AtRest
<1>2. ASSUME NEW q \in Procs, pc'[q] # "idle", solo'[q] PROVE Knows(q)'
  <2>1. pc[q] # "idle" /\ solo[q]
    BY <1>2
  <2>2. Alone(q) /\ Knows(q)
    BY <2>1 DEF RoutesInv, SoloInv, RunInv
  <2>3. q = p
    BY <2>2 DEF Alone
  <2>q. QED
    BY <2>2, <2>3
<1>q. QED
  BY <1>1, <1>2 DEF RunInv

LEMMA RunStep == RoutesInv /\ SoloInv' /\ [Next]_vars => RestInv' /\ RunInv'
<1> SUFFICES ASSUME RoutesInv, SoloInv', [Next]_vars PROVE RestInv' /\ RunInv'
  OBVIOUS
<1>1. ASSUME NEW p \in Procs,
             Look(p) \/ Read(p) \/ Clear(p) \/ Unlink(p) \/ Open(p) \/ Add(p) \/ Note(p)
      PROVE  RestInv' /\ RunInv'
  <2>1. CASE Read(p) /\ db = NoFile
    <3>1. ~solo[p]
      <4>1. ~Knows(p)
        BY <2>1 DEF Read, Knows
      <4>q. QED
        BY <2>1, <4>1 DEF Read, RoutesInv, RunInv
    <3>2. Knows(p) => Knows(p)'
      BY <2>1 DEF Read, Knows
    <3>3. /\ pc[p] # "idle" /\ pc'[p] # "idle" /\ solo' = solo
          /\ \A q \in Procs \ {p} : pc'[q] = pc[q]
      BY <2>1 DEF Read, To, history, callHistory, RoutesInv, TypeInv, TypeOK
    <3>q. QED
      BY <3>2, <3>3, OnlyCall
  <2>2. Knows(p) => Knows(p)'
    BY <1>1, LookKnows, ReadKnows, ClearKnows, UnlinkKnows, OpenKnows, AddKnows, NoteKnows
       DEF RoutesInv
  <2>3. /\ pc[p] # "idle" /\ pc'[p] # "idle" /\ solo' = solo
        /\ \A q \in Procs \ {p} : pc'[q] = pc[q]
    <3>1. pc \in [Procs -> {"idle", "look", "read", "clear", "open", "add", "note", "end"}]
      BY DEF RoutesInv, TypeInv, TypeOK
    <3>q. QED
      BY <1>1, <3>1 DEF Look, Read, Clear, Unlink, Open, Add, Note, Written, To, history,
                        callHistory
  <2>q. QED
    BY <2>2, <2>3, OnlyCall
<1>2. CASE EditTables \/ UNCHANGED vars
  <2>1. /\ kernel' = kernel /\ db' = db /\ handle' = handle /\ off' = off /\ pc' = pc
        /\ view' = view /\ todo' = todo /\ solo' = solo /\ met' = met /\ lone' = lone
        /\ applied' = applied /\ again' = again /\ touched' = touched
    BY <1>2 DEF EditTables, vars, file, history, callHistory
  <2>2. RestInv'
    BY <2>1 DEF RoutesInv, RestInv, AtRest, Recorded, RoutesInPlace, Known, Listed, calm, Own
  <2>3. \A p \in Procs : Knows(p)' <=> Knows(p)
    BY <2>1 DEF Knows, Recorded, Known, Listed, Planned, Adding, InPlace, NotYet, Fresh, calm, Own
  <2>4. RunInv'
    BY <2>1, <2>3 DEF RoutesInv, RunInv
  <2>q. QED
    BY <2>2, <2>4
<1>3. CASE Other
  <2>1. pc' = pc /\ solo' = solo /\ db' = db /\ met' = met /\ lone' = lone
        /\ applied' = applied /\ again' = again
    BY <1>3 DEF Other, file, callHistory
  <2>2. RunInv'
    BY <1>3, <2>1, OtherKnows DEF RoutesInv, RunInv
  <2>3. PICK s0 \in Site : /\ kernel' = [kernel EXCEPT ![s0] = IF @ = NoRoute THEN OthersRoute ELSE NoRoute]
                           /\ touched' = touched \cup {s0}
    BY <1>3 DEF Other
  <2>4. kernel \in [Site -> Route \cup {NoRoute}] /\ OthersRoute.by = "other"
    BY DEF RoutesInv, TypeInv, TypeOK, OthersRoute
  <2>5. \A s \in Site : Own(s)' => Own(s)
    BY <2>3, <2>4 DEF Own
  <2>6. AtRest' => Recorded'
    BY <2>1, <2>5 DEF RoutesInv, RestInv, AtRest, Recorded, Known, Listed, calm
  <2>7. applied \in Config \cup {NoConfig}
    BY DEF RoutesInv, TypeInv, TypeOK
  <2>8. AtRest' => RoutesInPlace'
    BY <2>1, <2>3, <2>4, <2>7, SiteTypes DEF RoutesInv, RestInv, AtRest, RoutesInPlace, calm
  <2>q. QED
    BY <2>2, <2>6, <2>8 DEF RestInv
<1>4. CASE PowerLoss
  <2>1. PICK b \in Procs : pc' = [p \in Procs |-> IF p = b THEN "look" ELSE "idle"]
    BY <1>4 DEF PowerLoss
  <2>2. RestInv'
    BY <2>1 DEF RestInv, AtRest
  <2>3. Recorded'
    BY <1>4, SiteTypes DEF PowerLoss, Recorded, Listed, Own
  <2>4. RunInv'
    BY <2>1, <2>3 DEF RunInv, Knows
  <2>q. QED
    BY <2>2, <2>4
<1>q. QED
  BY <1>1, <1>2, <1>3, <1>4, CallStep, FinishStep DEF Next, Step

LEMMA RoutesInvariant == Spec => []RoutesInv
<1>1. RoutesInv /\ [Next]_vars => RoutesInv'
  BY TypeStep, MarksStep, SoloStep, RunStep DEF RoutesInv
<1>q. QED
  BY RoutesInit, <1>1, PTL DEF Spec

\* As long as calls have not met, every route of the box's own is a configured one, and the
\* next call finds it in routes.db.
THEOREM NothingIsLeft == Spec => []NothingLeft
<1>1. RoutesInv => NothingLeft
  <2> SUFFICES ASSUME RoutesInv, AtRest, calm, NEW s \in Site,
                      kernel[s] # NoRoute, kernel[s].by = "own"
               PROVE  s \in Sites(applied) /\ \E i \in DOMAIN db : db[i] = s
    BY DEF NothingLeft
  <2>1. Listed = Sites(applied) /\ s \in Sites(applied)
    BY DEF RoutesInv, RestInv, Recorded, Known, Own
  <2>q. QED
    BY <2>1 DEF Listed, Elems
<1>q. QED
  BY RoutesInvariant, <1>1, PTL

\* A call alone puts a route to every configured site, and calls that do not meet, or two
\* alone, the configured one.
THEOREM RoutesGetToTheirPlace == Spec => []RoutesInPlace
<1>1. RoutesInv => RoutesInPlace
  BY DEF RoutesInv, RestInv, RoutesInPlace
<1>q. QED
  BY RoutesInvariant, <1>1, PTL

\* As long as calls have not met, a call deletes a route of somebody else only where the
\* call before it had one.
THEOREM OthersRoutesAreKept == Spec => OthersKept
<1> DEFINE Kept == calm /\ ~booting' /\ others' = others =>
                       \A s \in Site : Deleted(s) => s \in Sites(applied)
<1>1. RoutesInv /\ [Next]_vars => [Kept]_vars
  <2> SUFFICES ASSUME RoutesInv, [Next]_vars, calm, ~booting', others' = others,
                      NEW s \in Site, Deleted(s)
               PROVE  s \in Sites(applied)
    OBVIOUS
  <2>1. ASSUME NEW p \in Procs, Clear(p) PROVE s \in Sites(applied)
    <3>1. s = Head(todo[p])
      BY <2>1 DEF Clear, Deleted
    <3>2. pc[p] = "clear" /\ todo[p] \in Seq(Line) /\ todo[p] # <<>>
      BY <2>1 DEF Clear, RoutesInv, TypeInv, Carries
    <3>3. solo[p]
      BY <3>2 DEF RoutesInv, SoloInv
    <3>4. Elems(todo[p]) \subseteq Sites(applied)
      BY <3>2, <3>3 DEF RoutesInv, RunInv, Knows, Known
    <3>5. Head(todo[p]) \in Elems(todo[p])
      BY <3>2, HeadElems
    <3>q. QED
      BY <3>1, <3>4, <3>5
  <2>2. ASSUME NEW p \in Procs, Add(p) PROVE FALSE
    <3>1. PICK s0, own : /\ own = [gateway |-> Head(todo[p]).gateway, by |-> "own"]
                         /\ \/ kernel' = kernel
                            \/ kernel[s0] = NoRoute /\ kernel' = [kernel EXCEPT ![s0] = own]
      BY <2>2 DEF Add
    <3>q. QED
      BY <3>1 DEF Deleted, RoutesInv, TypeInv, TypeOK
  <2>3. ASSUME NEW p \in Procs, Call(p) \/ Look(p) \/ Read(p) \/ Unlink(p) \/ Open(p)
                                \/ Note(p) \/ Finish(p)
        PROVE  FALSE
    BY <2>3 DEF Call, Look, Read, Unlink, Open, Note, Written, Finish, Deleted
  <2>4. CASE EditTables \/ UNCHANGED vars
    BY <2>4 DEF EditTables, vars, Deleted
  <2>5. CASE Other
    <3>1. others \in Nat /\ others' = others + 1
      BY <2>5, RoutesAssumption DEF Other, RoutesInv, TypeInv, TypeOK
    <3>q. QED
      BY <3>1
  <2>6. CASE PowerLoss
    BY <2>6 DEF PowerLoss
  <2>q. QED
    BY <2>1, <2>2, <2>3, <2>4, <2>5, <2>6 DEF Next, Step
<1>q. QED
  BY RoutesInvariant, <1>1, PTL DEF Spec, OthersKept
=============================================================================
