---------------------------- MODULE StaticRoutes ----------------------------
(***************************************************************************)
(* Static routes (system_routing_configure() in system.inc).  The routes   *)
(* that a call adds are recorded in routes.db, as the arguments of the     *)
(* commands that delete them; the next call runs these commands, removes   *)
(* the file, and adds and records the routes of its own $config.           *)
(*                                                                         *)
(* rc.bootup calls the function before it starts the web server.  After    *)
(* that the page of the static routes, sync_config_area() and the          *)
(* functions that configure interfaces call it, none of them under the     *)
(* configuration lock.  The kernel's table has other users: nssh, routing  *)
(* daemons, the kernel itself when an interface changes.                   *)
(***************************************************************************)
EXTENDS Naturals, Sequences

CONSTANTS Procs,       \* PHP processes
          Networks,    \* the networks of static routes
          Gateways,
          RouteTables, \* the names of routing tables but for DEFAULT; each stands for its id
          DEFAULT,     \* the main table, of id 0
          RouteLists,  \* bound: the static routes a configuration may have
          NoRoute, NoFile, NoConfig,
          Garbled,     \* a line of routes.db that is no command of route
          MaxCalls,        \* bound: requests between two boots
          MaxDisturbances  \* bound: calls that begin beside another, and changes by others

\* The routes are a list, of which several may be to one network.
Entry == [network : Networks, rtable : RouteTables \cup {DEFAULT}, gateway : Gateways]
Config == [routes : RouteLists, rtables : SUBSET RouteTables]
Site == [network : Networks, rtable : RouteTables \cup {DEFAULT}]
Line == Site \cup {Garbled}
Route == [gateway : Gateways, by : {"own", "other"}]

ASSUME RoutesAssumption == /\ RouteLists \subseteq Seq(Entry)
                           /\ Gateways # {} /\ DEFAULT \notin RouteTables
                           /\ NoRoute \notin Route /\ Garbled \notin Site
                           /\ NoConfig \notin Config /\ NoFile \notin Seq(Line)
                           /\ {MaxCalls, MaxDisturbances} \subseteq Nat

VARIABLES stored,    \* what config.xml has of it
          kernel,    \* the routing tables
          db,        \* routes.db: a sequence of lines, or no file
          booting,   \* rc.bootup has not come to the web server yet
          pc, view,  \* where each process is, and its $config
          todo,      \* the lines it has to delete, or the entries it has to add
          handle,    \* its handle of routes.db: none, of the file, of one unlinked since
          off,       \* how many lines it has written there
          solo,      \* history: nobody runs beside it
          met,       \* history: how many calls have begun beside another since the boot
          lone,      \* history: how many calls in a row have run alone, 2 for more
          applied,   \* history: the $config of the last call
          again,     \* history: the sites that the call before it had too
          touched,   \* history: where others, or a failed add, have been at work
          calls, others

file == <<db, handle, off>>
callHistory == <<solo, met, lone, applied, again>>
history == <<callHistory, touched>>
vars == <<stored, kernel, file, booting, pc, view, todo, history, calls, others>>

TypeOK == /\ stored \in Config
          /\ kernel \in [Site -> Route \cup {NoRoute}]
          /\ db \in Seq(Line) \cup {NoFile}
          /\ booting \in BOOLEAN
          /\ pc \in [Procs -> {"idle", "look", "read", "clear", "open", "add", "note", "end"}]
          /\ view \in [Procs -> Config \cup {NoConfig}]
          /\ todo \in [Procs -> Seq(Line) \cup Seq(Entry)]
          /\ handle \in [Procs -> {"none", "file", "lost"}]
          /\ off \in [Procs -> Nat]
          /\ solo \in [Procs -> BOOLEAN]
          /\ met \in 0..MaxDisturbances /\ lone \in 0..2
          /\ applied \in Config \cup {NoConfig}
          /\ again \subseteq Site /\ touched \subseteq Site
          /\ calls \in 0..MaxCalls /\ others \in 0..MaxDisturbances
          /\ \A p \in Procs : handle[p] = "file" => db # NoFile

\* get_route_table_id_by_name(): a name that is not there any more is table 0.
TableId(c, name) == IF name \in c.rtables THEN name ELSE DEFAULT

SiteOf(c, e) == [network |-> e.network, rtable |-> TableId(c, e.rtable)]
Entries(c) == IF c = NoConfig THEN {} ELSE {c.routes[i] : i \in DOMAIN c.routes}
Sites(c) == {SiteOf(c, e) : e \in Entries(c)}

\* rc.bootup gets to the static routes.
Init == /\ stored \in Config
        /\ kernel = [s \in Site |-> NoRoute]
        /\ db = NoFile
        /\ booting = TRUE
        /\ \E b \in Procs :
             /\ pc = [p \in Procs |-> IF p = b THEN "look" ELSE "idle"]
             /\ view = [p \in Procs |-> IF p = b THEN stored ELSE NoConfig]
        /\ todo = [p \in Procs |-> <<>>]
        /\ handle = [p \in Procs |-> "none"] /\ off = [p \in Procs |-> 0]
        /\ solo = [p \in Procs |-> TRUE]
        /\ met = 0 /\ lone = 0
        /\ applied = NoConfig /\ again = {} /\ touched = {}
        /\ calls = 0 /\ others = 0

To(p, l) == pc' = [pc EXCEPT ![p] = l]
Alone(p) == \A q \in Procs \ {p} : pc[q] = "idle"
-----------------------------------------------------------------------------
\* A page or a synchronisation has stored a configuration, changed or not, and calls.
Call(p) == /\ ~booting /\ pc[p] = "idle" /\ calls < MaxCalls
           /\ stored' \in Config
           /\ view' = [view EXCEPT ![p] = stored']
           /\ solo' = [q \in Procs |-> IF q = p THEN Alone(p) ELSE solo[q] /\ pc[q] = "idle"]
           /\ IF Alone(p) THEN UNCHANGED met ELSE met + others < MaxDisturbances /\ met' = met + 1
           /\ calls' = calls + 1
           /\ To(p, "look")
           /\ UNCHANGED <<kernel, file, booting, todo, lone, applied, again, touched, others>>

\* The page of the routing tables stores, and calls nothing.
EditTables == /\ ~booting /\ calls < MaxCalls
              /\ \E t \in SUBSET RouteTables : stored' = [stored EXCEPT !.rtables = t]
              /\ calls' = calls + 1
              /\ UNCHANGED <<kernel, file, booting, pc, view, todo, history, others>>

\* file_exists().
Look(p) == /\ pc[p] = "look"
           /\ To(p, IF db = NoFile THEN "open" ELSE "read")
           /\ UNCHANGED <<stored, kernel, file, booting, view, todo, history, calls, others>>

\* One line only.
ReadFirst(p) == /\ pc[p] = "read"
                /\ IF db = NoFile THEN To(p, "end") /\ UNCHANGED todo
                   ELSE To(p, "clear") /\ todo' = [todo EXCEPT ![p] = [i \in DOMAIN db \cap {1} |-> db[i]]]
                /\ UNCHANGED <<stored, kernel, file, booting, view, history, calls, others>>

\* The first fgets() reads all of it.  A file that has gone is an error, and the end.
Read(p) == /\ pc[p] = "read"
           /\ IF db = NoFile THEN To(p, "end") /\ UNCHANGED todo
              ELSE To(p, "clear") /\ todo' = [todo EXCEPT ![p] = db]
           /\ UNCHANGED <<stored, kernel, file, booting, view, history, calls, others>>

\* The last line is not used.
ClearButLast(p) == /\ pc[p] = "clear" /\ todo[p] # <<>>
                   /\ kernel' = [s \in Site |-> IF s = Head(todo[p]) /\ Len(todo[p]) > 1
                                                THEN NoRoute ELSE kernel[s]]
                   /\ touched' = touched \ {Head(todo[p])}
                   /\ todo' = [todo EXCEPT ![p] = Tail(@)]
                   /\ UNCHANGED <<stored, file, booting, pc, view, callHistory, calls, others>>

\* In every table.
ClearTables(p) == /\ pc[p] = "clear" /\ todo[p] # <<>>
                  /\ kernel' = [s \in Site |-> IF s.network = Head(todo[p]).network THEN NoRoute ELSE kernel[s]]
                  /\ touched' = touched \ {Head(todo[p])}
                  /\ todo' = [todo EXCEPT ![p] = Tail(@)]
                  /\ UNCHANGED <<stored, file, booting, pc, view, callHistory, calls, others>>

\* route delete takes the route to the network, whoever added it.
Clear(p) == /\ pc[p] = "clear" /\ todo[p] # <<>>
            /\ kernel' = [s \in Site |-> IF s = Head(todo[p]) THEN NoRoute ELSE kernel[s]]
            /\ touched' = touched \ {Head(todo[p])}
            /\ todo' = [todo EXCEPT ![p] = Tail(@)]
            /\ UNCHANGED <<stored, file, booting, pc, view, callHistory, calls, others>>

\* A handle taken for one of the name and not of the file.
UnlinkName(p) == /\ pc[p] = "clear" /\ todo[p] = <<>>
                 /\ db' = NoFile
                 /\ To(p, "open")
                 /\ UNCHANGED <<stored, kernel, handle, off, booting, view, todo, history, calls, others>>

Unlink(p) == /\ pc[p] = "clear" /\ todo[p] = <<>>
             /\ db' = NoFile
             /\ handle' = [q \in Procs |-> IF handle[q] = "file" THEN "lost" ELSE handle[q]]
             /\ To(p, "open")
             /\ UNCHANGED <<stored, kernel, off, booting, view, todo, history, calls, others>>

\* Without static routes there is no array, and no file.  A file that another call has
\* made meanwhile is emptied.
Open(p) == /\ pc[p] = "open"
           /\ todo' = [todo EXCEPT ![p] = view[p].routes]
           /\ IF view[p].routes = <<>> THEN To(p, "end") /\ UNCHANGED file
              ELSE /\ To(p, "add")
                   /\ db' = <<>>
                   /\ handle' = [handle EXCEPT ![p] = "file"]
                   /\ off' = [off EXCEPT ![p] = 0]
           /\ UNCHANGED <<stored, kernel, booting, view, history, calls, others>>

\* route add fails where there is a route, or when the gateway cannot be reached.
Add(p) == /\ pc[p] = "add" /\ todo[p] # <<>>
          /\ LET s == SiteOf(view[p], Head(todo[p]))
                 own == [gateway |-> Head(todo[p]).gateway, by |-> "own"]
             IN  \/ /\ kernel[s] # NoRoute
                    /\ UNCHANGED <<kernel, touched>>
                 \/ /\ kernel[s] = NoRoute
                    /\ kernel' = [kernel EXCEPT ![s] = own] /\ touched' = touched \ {s}
                 \/ /\ kernel[s] = NoRoute
                    /\ touched' = touched \cup {s} /\ UNCHANGED kernel
          /\ To(p, "note")
          /\ UNCHANGED <<stored, file, booting, view, todo, callHistory, calls, others>>

\* What is written behind the end of the file has zeros before it; lines are taken to be
\* of one length.
Put(lines, i, line) == [k \in 1..(IF i > Len(lines) THEN i ELSE Len(lines)) |->
                          IF k = i /\ i <= Len(lines) + 1 THEN line
                          ELSE IF k <= Len(lines) /\ k # i THEN lines[k] ELSE Garbled]

Written(p, line) == /\ db' = IF handle[p] = "file" THEN Put(db, off[p] + 1, line) ELSE db
                    /\ off' = [off EXCEPT ![p] = @ + 1]
                    /\ todo' = [todo EXCEPT ![p] = Tail(@)]
                    /\ To(p, "add")
                    /\ UNCHANGED <<stored, kernel, handle, booting, view, history, calls, others>>

\* Whether the route could be added or not, it is recorded.
Note(p) == /\ pc[p] = "note"
           /\ Written(p, SiteOf(view[p], Head(todo[p])))

\* fclose(), and the function returns.
Finish(p) == /\ pc[p] = "end" \/ (pc[p] = "add" /\ todo[p] = <<>>)
             /\ applied' = view[p]
             /\ again' = Sites(view[p]) \cap Sites(applied)
             /\ lone' = IF ~solo[p] THEN 0 ELSE IF lone = 0 THEN 1 ELSE 2
             /\ view' = [view EXCEPT ![p] = NoConfig]
             /\ handle' = [handle EXCEPT ![p] = "none"] /\ off' = [off EXCEPT ![p] = 0]
             /\ solo' = [solo EXCEPT ![p] = TRUE]
             /\ booting' = FALSE
             /\ To(p, "idle")
             /\ UNCHANGED <<stored, kernel, db, todo, met, touched, calls, others>>
-----------------------------------------------------------------------------
OthersRoute == [gateway |-> CHOOSE g \in Gateways : TRUE, by |-> "other"]

\* Somebody else adds a route, or deletes one, whosever it is.
Other == /\ met + others < MaxDisturbances
         /\ \E s \in Site :
              /\ kernel' = [kernel EXCEPT ![s] = IF @ = NoRoute THEN OthersRoute ELSE NoRoute]
              /\ touched' = touched \cup {s}
         /\ others' = others + 1
         /\ UNCHANGED <<stored, file, booting, pc, view, todo, callHistory, calls>>

\* Routes and routes.db are in memory; config.xml is not.
PowerLoss == /\ kernel' = [s \in Site |-> NoRoute]
             /\ db' = NoFile
             /\ booting' = TRUE
             /\ \E b \in Procs :
                  /\ pc' = [p \in Procs |-> IF p = b THEN "look" ELSE "idle"]
                  /\ view' = [p \in Procs |-> IF p = b THEN stored ELSE NoConfig]
             /\ todo' = [p \in Procs |-> <<>>]
             /\ handle' = [p \in Procs |-> "none"] /\ off' = [p \in Procs |-> 0]
             /\ solo' = [p \in Procs |-> TRUE]
             /\ met' = 0 /\ lone' = 0
             /\ applied' = NoConfig /\ again' = {} /\ touched' = {}
             /\ calls' = 0 /\ others' = 0
             /\ UNCHANGED stored

Step(p) == \/ Look(p) \/ Read(p) \/ Clear(p) \/ Unlink(p)
           \/ Open(p) \/ Add(p) \/ Note(p) \/ Finish(p)

Next == \/ \E p \in Procs : Call(p) \/ Step(p)
        \/ EditTables \/ Other \/ PowerLoss

Spec == Init /\ [][Next]_vars
-----------------------------------------------------------------------------
(* Correctness. *)

GatewaysTo(c, s) == {e.gateway : e \in {f \in Entries(c) : SiteOf(c, f) = s}}
AtRest == \A p \in Procs : pc[p] = "idle"
calm == met = 0

\* As long as calls have not met, the routes they have added are the configured ones and
\* no others, and routes.db has each: nothing is left that the next call would not find.
NothingLeft == AtRest /\ calm =>
    \A s \in Site : kernel[s] # NoRoute /\ kernel[s].by = "own" =>
        s \in Sites(applied) /\ \E i \in DOMAIN db : db[i] = s

\* After one call alone a configured network has a route at least, whatever the calls
\* before have left.  It goes by a configured gateway as long as calls have not met; and
\* once they have, after two calls alone that both have it, the first of which may only
\* have recorded what it found.  Excepted are the places where others have been since, and
\* where the gateway could not be reached.
RoutesInPlace == AtRest =>
    \A s \in Sites(applied) \ touched :
        /\ lone > 0 => kernel[s] # NoRoute
        /\ calm \/ (lone = 2 /\ s \in again) =>
             kernel[s] \in [gateway : GatewaysTo(applied, s), by : {"own"}]

\* As long as calls have not met, a route of somebody else is deleted by a call only where
\* the configuration of the call before has a route to the same network in the same table.
Deleted(s) == kernel[s] # NoRoute /\ kernel[s].by = "other" /\ kernel'[s] = NoRoute
OthersKept ==
    [][calm /\ ~booting' /\ others' = others =>
           \A s \in Site : Deleted(s) => s \in Sites(applied)]_vars
=============================================================================
