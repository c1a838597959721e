----------------------------- MODULE ConfigSync -----------------------------
(***************************************************************************)
(* Configuration synchronisation (config_sync.inc): a page of the primary  *)
(* edits one area of the configuration, stores it, and pushes the area to  *)
(* each sync host in turn.  At the host a request of config_sync.php loads *)
(* the whole configuration, replaces the area, stores the whole and        *)
(* applies it.                                                             *)
(*                                                                         *)
(* What is pushed is one element of the configuration.  Not every area     *)
(* comes to the same element at both ends: the host may not know the name  *)
(* under which it is asked for the md5 or sent the area, may take the md5  *)
(* of the element around, and may store the area one level up.             *)
(*                                                                         *)
(* Loading and storing a configuration are atomic here (ConfigStore shows  *)
(* when they are); what happens between them is not.  Pages of the primary *)
(* and requests at a host run side by side.  A connection may fail at any  *)
(* point, and the request it leaves behind at the host still runs.         *)
(***************************************************************************)
EXTENDS Naturals, Sequences

CONSTANTS Pages,     \* the requests at the primary that edit and push
          Hosts,     \* the sync hosts, in the order of $config['carp']['configsynchost']
          Primary,   \* the host that pushes
          Areas,     \* the areas of the configuration
          Named,     \* those whose name push_config() uses to ask for the md5
          Refused,   \* those the host does not know by the name they are posted under
          Around,    \* those whose md5 is that of the element around them: aliases
          Lifted,    \* those stored in place of the element around them
          Applied,   \* those that are applied once they are stored
          Values,    \* what an area may contain
          Encoded    \* the string that push_config() puts in place of the area

Peers == {Hosts[i] : i \in DOMAIN Hosts}

\* An area in its place, or one level up.
Content == [value : Values, up : BOOLEAN]
Config == [Areas -> Content]

ASSUME SyncAssumption == /\ Hosts \in Seq(Peers)
                         /\ \A i, j \in DOMAIN Hosts : Hosts[i] = Hosts[j] => i = j
                         /\ Primary \notin Peers
                         /\ Areas # {} /\ Values # {}
                         /\ Named \subseteq Areas /\ Refused \subseteq Areas
                         /\ Lifted \subseteq Around /\ Around \subseteq Areas
                         /\ Applied \subseteq Areas
                         /\ Encoded \notin Content

VARIABLES stored,    \* the configuration in each host's config.xml
          inforce,   \* the values of the areas each peer last applied
          askew,     \* history: peers where an apply has failed or requests have met, since boot
          pc,        \* where each page is
          view,      \* its $config
          area,      \* the area it edits
          sent,      \* what it has encoded to send
          at,        \* its place in the list of hosts
          failed,    \* history: the peers its push has not reached
          solo,      \* history: no other page, and no request left behind, beside it
          req        \* each page's request at each peer

pageVars == <<pc, view, area, sent, at, failed, solo>>
vars == <<stored, inforce, askew, pageVars, req>>

Request == [pc : {"none", "md5", "load", "write", "apply", "reply", "failed"}, area : Areas,
            value : Values, view : Config, alone : BOOLEAN]

TypeOK == /\ stored \in [Peers \cup {Primary} -> Config]
          /\ inforce \in [Peers -> Config]
          /\ askew \in SUBSET Peers
          /\ pc \in [Pages -> {"idle", "edit", "get", "md5", "post", "wait", "end"}]
          /\ view \in [Pages -> [Areas -> Content \cup {Encoded}]]
          /\ \A s \in Pages : pc[s] = "edit" => view[s] \in Config
          /\ area \in [Pages -> Areas]
          /\ sent \in [Pages -> Values]
          /\ at \in [Pages -> 1..(Len(Hosts) + 1)]
          /\ \A s \in Pages : pc[s] \in {"get", "md5", "post", "wait"} => at[s] \in DOMAIN Hosts
          /\ failed \in [Pages -> SUBSET Peers]
          /\ solo \in [Pages -> BOOLEAN]
          /\ req \in [Pages -> [Peers -> Request]]

InPlace(v) == [value |-> v, up |-> FALSE]
NoRequest == [pc |-> "none", area |-> CHOOSE a \in Areas : TRUE,
              value |-> CHOOSE v \in Values : TRUE,
              view |-> [a \in Areas |-> InPlace(CHOOSE v \in Values : TRUE)], alone |-> TRUE]

Init == /\ stored \in [Peers \cup {Primary} -> [Areas -> {InPlace(v) : v \in Values}]]
        /\ inforce = [p \in Peers |-> stored[p]]
        /\ askew = {}
        /\ pc = [s \in Pages |-> "idle"]
        /\ view = [s \in Pages |-> NoRequest.view]
        /\ area = [s \in Pages |-> NoRequest.area]
        /\ sent = [s \in Pages |-> NoRequest.value]
        /\ at = [s \in Pages |-> 1]
        /\ failed = [s \in Pages |-> {}]
        /\ solo = [s \in Pages |-> TRUE]
        /\ req = [s \in Pages |-> [p \in Peers |-> NoRequest]]

Peer(s) == Hosts[at[s]]
Busy(s) == pc[s] # "idle" \/ \E p \in Peers : req[s][p].pc # "none"

\* A request that changes the peer p.
Changing(s, p) == req[s][p].pc \notin {"none", "md5"}
-----------------------------------------------------------------------------
(* The page at the primary. *)

\* It loads the configuration; it starts when none of its requests is left behind.
Load(s) == /\ ~Busy(s)
           /\ view' = [view EXCEPT ![s] = stored[Primary]]
           /\ pc' = [pc EXCEPT ![s] = "edit"]
           /\ solo' = [t \in Pages |-> IF t = s THEN \A u \in Pages \ {s} : ~Busy(u)
                                       ELSE solo[t] /\ ~Busy(t)]
           /\ UNCHANGED <<stored, inforce, askew, area, sent, at, failed, req>>

\* It edits an area, stores the whole, and calls push_config() for the area, which encodes
\* it by reference: from then on the page's own $config holds the string (what else is in
\* it is forgotten here).  Where no sync host is configured nothing more is done.
Edit(s) == /\ pc[s] = "edit"
           /\ \E a \in Areas, v \in Values :
                /\ area' = [area EXCEPT ![s] = a]
                /\ sent' = [sent EXCEPT ![s] = v]
                /\ stored' = [stored EXCEPT ![Primary] = [view[s] EXCEPT ![a] = InPlace(v)]]
                /\ view' = [view EXCEPT ![s] = [NoRequest.view EXCEPT ![a] = Encoded]]
           /\ pc' = [pc EXCEPT ![s] = IF Hosts = <<>> THEN "end" ELSE "get"]
           /\ UNCHANGED <<inforce, askew, at, failed, solo, req>>

\* A loop that runs past the end of the list.
AdvancePast(s, miss) == /\ at' = [at EXCEPT ![s] = @ + 1]
                        /\ failed' = [failed EXCEPT ![s] = @ \cup miss]
                        /\ pc' = [pc EXCEPT ![s] = IF at[s] > Len(Hosts) THEN "end" ELSE "get"]

\* The host tried again until it answers.
AdvanceStays(s, miss) == /\ at' = [at EXCEPT ![s] = IF miss = {} THEN @ + 1 ELSE @]
                         /\ UNCHANGED failed
                         /\ pc' = [pc EXCEPT ![s] =
                                     IF miss = {} /\ at[s] = Len(Hosts) THEN "end" ELSE "get"]

\* On to the next host; miss is the set of peers given up on.
Advance(s, miss) == /\ at' = [at EXCEPT ![s] = @ + 1]
                    /\ failed' = [failed EXCEPT ![s] = @ \cup miss]
                    /\ pc' = [pc EXCEPT ![s] = IF at[s] = Len(Hosts) THEN "end" ELSE "get"]

\* The GET of the md5 arrives, and the page waits for the answer.
AskMd5(s) == /\ pc[s] = "get"
             /\ pc' = [pc EXCEPT ![s] = "md5"]
             /\ req' = [req EXCEPT ![s][Peer(s)].pc = "md5"]
             /\ UNCHANGED <<stored, inforce, askew, view, area, sent, at, failed, solo>>

\* break in place of continue.
StopAtFailure(s) == /\ pc[s] \in {"get", "md5"}
                    /\ req' = [req EXCEPT ![s][Peer(s)] = NoRequest]
                    /\ at' = [at EXCEPT ![s] = Len(Hosts) + 1]
                    /\ failed' = [failed EXCEPT ![s] = @ \cup {Peer(s)}]
                    /\ pc' = [pc EXCEPT ![s] = "end"]
                    /\ UNCHANGED <<stored, inforce, askew, view, area, sent, solo>>

\* No connection, one that breaks, or 401: no md5, the host is skipped.
NoMd5(s) == /\ pc[s] \in {"get", "md5"}
            /\ req' = [req EXCEPT ![s][Peer(s)] = NoRequest]
            /\ Advance(s, {Peer(s)})
            /\ UNCHANGED <<stored, inforce, askew, view, area, sent, solo>>

\* The md5 is that of what sync_config_area() returns: nothing, for a name that it does not
\* know; and the element around, which equals what is sent only if it was put there.
SameMd5(s) == /\ area[s] \in Named
              /\ stored[Peer(s)][area[s]] = [value |-> sent[s], up |-> area[s] \in Around]

\* An equal md5 is that of some area of the host.
GetMd5Any(s) == /\ pc[s] = "md5"
                /\ req[s][Peer(s)].pc = "md5"
                /\ req' = [req EXCEPT ![s][Peer(s)] = NoRequest]
                /\ IF \E a \in Areas : stored[Peer(s)][a].value = sent[s]
                   THEN Advance(s, {})
                   ELSE /\ pc' = [pc EXCEPT ![s] = "post"]
                        /\ UNCHANGED <<at, failed>>
                /\ UNCHANGED <<stored, inforce, askew, view, area, sent, solo>>

GetMd5(s) == /\ pc[s] = "md5"
             /\ req[s][Peer(s)].pc = "md5"
             /\ req' = [req EXCEPT ![s][Peer(s)] = NoRequest]
             /\ IF SameMd5(s) THEN Advance(s, {})
                ELSE /\ pc' = [pc EXCEPT ![s] = "post"]
                     /\ UNCHANGED <<at, failed>>
             /\ UNCHANGED <<stored, inforce, askew, view, area, sent, solo>>

\* The POST arrives: a request starts at the host, and the page waits for its end.
Post(s) == /\ pc[s] = "post"
           /\ LET p == Peer(s)
                  beside == {t \in Pages : Changing(t, p)}
              IN  /\ req' = [t \in Pages |->
                        IF t = s
                        THEN [req[s] EXCEPT ![p] =
                                [pc |-> "load", area |-> area[s], value |-> sent[s],
                                 view |-> NoRequest.view, alone |-> beside = {}]]
                        ELSE [req[t] EXCEPT ![p].alone = @ /\ t \notin beside]]
                  /\ askew' = IF beside = {} THEN askew ELSE askew \cup {p}
           /\ pc' = [pc EXCEPT ![s] = "wait"]
           /\ UNCHANGED <<stored, inforce, view, area, sent, at, failed, solo>>

\* The connection cannot be opened or breaks.  When it breaks the request at the host
\* goes on.
PostFails(s) == /\ pc[s] \in {"post", "wait"}
                /\ Advance(s, {Peer(s)})
                /\ UNCHANGED <<stored, inforce, askew, view, area, sent, solo, req>>

\* The answer is SUCCESS, or something else.
Answered(s, answer, miss) == /\ pc[s] = "wait"
                             /\ req[s][Peer(s)].pc = answer
                             /\ req' = [req EXCEPT ![s][Peer(s)] = NoRequest]
                             /\ Advance(s, miss)
                             /\ UNCHANGED <<stored, inforce, askew, view, area, sent, solo>>
Success(s) == Answered(s, "reply", {})
Failure(s) == Answered(s, "failed", {Peer(s)})

Finish(s) == /\ pc[s] = "end"
             /\ pc' = [pc EXCEPT ![s] = "idle"]
             /\ at' = [at EXCEPT ![s] = 1]
             /\ view' = [view EXCEPT ![s] = NoRequest.view]
             /\ area' = [area EXCEPT ![s] = NoRequest.area]
             /\ sent' = [sent EXCEPT ![s] = NoRequest.value]
             /\ failed' = [failed EXCEPT ![s] = {}]
             /\ UNCHANGED <<stored, inforce, askew, solo, req>>
-----------------------------------------------------------------------------
(* The request at the peer p on behalf of the page s. *)

Serve(s, p, from, to) == /\ req[s][p].pc = from
                         /\ UNCHANGED pageVars
                         /\ req' = [req EXCEPT ![s][p] =
                                      [@ EXCEPT !.pc = to, !.view = NoRequest.view]]

ReqLoad(s, p) == /\ req[s][p].pc = "load"
                 /\ req[s][p].area \notin Refused
                 /\ req' = [req EXCEPT ![s][p] = [@ EXCEPT !.pc = "write", !.view = stored[p]]]
                 /\ UNCHANGED <<stored, inforce, askew, pageVars>>

\* Only the area, in an otherwise empty configuration.
ReqWriteBare(s, p) == /\ Serve(s, p, "write", "apply")
                      /\ stored' = [stored EXCEPT ![p] =
                            [NoRequest.view EXCEPT ![req[s][p].area] = InPlace(req[s][p].value)]]
                      /\ UNCHANGED <<inforce, askew>>

\* The area assigned to a copy, for want of an &.
ReqWriteCopy(s, p) == /\ Serve(s, p, "write", "apply")
                      /\ stored' = [stored EXCEPT ![p] = req[s][p].view]
                      /\ UNCHANGED <<inforce, askew>>

ReqWrite(s, p) == /\ Serve(s, p, "write", "apply")
                  /\ LET a == req[s][p].area
                     IN  stored' = [stored EXCEPT ![p] = [req[s][p].view EXCEPT ![a] =
                                       [value |-> req[s][p].value, up |-> a \in Lifted]]]
                  /\ UNCHANGED <<inforce, askew>>

\* The area is stored and not applied.
ReqApplyNothing(s, p) == /\ Serve(s, p, "apply", "reply")
                         /\ UNCHANGED <<stored, inforce, askew>>

\* filter_configure() and its kin put the area in force, or fail, and nobody looks at what
\* they return; some areas have none.
ReqApply(s, p) ==
    /\ Serve(s, p, "apply", "reply")
    /\ LET r == req[s][p]
       IN  \/ /\ r.area \notin Applied
              /\ UNCHANGED <<inforce, askew>>
           \/ /\ r.area \in Applied
              /\ inforce' = [inforce EXCEPT ![p] = [@ EXCEPT ![r.area] =
                                [value |-> r.value, up |-> r.area \in Lifted]]]
              /\ UNCHANGED askew
           \/ /\ r.area \in Applied
              /\ askew' = askew \cup {p}
              /\ UNCHANGED inforce
    /\ UNCHANGED stored

\* The area is not one the host takes, or the request dies: die() in write_config(), or an
\* error in what applies the area.
ReqFail(s, p) == /\ \E from \in {"load", "write", "apply"} : Serve(s, p, from, "failed")
                 /\ askew' = IF req[s][p].pc = "apply" THEN askew \cup {p} ELSE askew
                 /\ UNCHANGED <<stored, inforce>>

\* Nobody reads the answer of a request whose page has gone on.
ReqEnd(s, p) == /\ req[s][p].pc \in {"reply", "failed"}
                /\ ~(pc[s] = "wait" /\ Peer(s) = p)
                /\ req' = [req EXCEPT ![s][p] = NoRequest]
                /\ UNCHANGED <<stored, inforce, askew, pageVars>>

\* The peer reboots: its requests are gone, and what it has stored is put in force.
PeerReboot(p) == /\ req' = [s \in Pages |-> [req[s] EXCEPT ![p] = NoRequest]]
                 /\ inforce' = [inforce EXCEPT ![p] = stored[p]]
                 /\ askew' = askew \ {p}
                 /\ UNCHANGED <<stored, pageVars>>
-----------------------------------------------------------------------------
PageStep(s) == \/ Load(s) \/ Edit(s) \/ AskMd5(s) \/ NoMd5(s) \/ GetMd5(s)
               \/ Post(s) \/ PostFails(s) \/ Success(s) \/ Failure(s) \/ Finish(s)
ReqStep(s, p) == \/ ReqLoad(s, p) \/ ReqWrite(s, p) \/ ReqApply(s, p)
                 \/ ReqFail(s, p) \/ ReqEnd(s, p)

Next == \/ \E s \in Pages : PageStep(s) \/ \E p \in Peers : ReqStep(s, p)
        \/ \E p \in Peers : PeerReboot(p)

Spec == Init /\ [][Next]_vars

\* Pages and requests are processes that go on as long as they can.  A connection is opened
\* or given up after its timeout, but nothing makes an open one break: the loop that reads
\* an answer has no limit.
Fairness == /\ \A s \in Pages : WF_vars(Edit(s) \/ AskMd5(s) \/ GetMd5(s) \/ Post(s)
                                        \/ Success(s) \/ Failure(s) \/ Finish(s))
            /\ \A s \in Pages, p \in Peers : WF_vars(ReqStep(s, p))
FairSpec == Spec /\ Fairness
-----------------------------------------------------------------------------
(* Correctness. *)

\* A push that nothing runs beside leaves every peer it has not given up on with the
\* primary's version of the area, whatever the peer held before and whichever other
\* peers were down, unless the area is one that is stored out of its place.
LonePushSyncs == \A s \in Pages : pc[s] = "end" /\ solo[s] /\ area[s] \notin Lifted =>
                   \A p \in Peers \ failed[s] :
                       stored[p][area[s]] = stored[Primary][area[s]]

\* What the primary logs as "Successfully pushed" is stored, if in its place or out of it,
\* provided no other request was at the peer.
SuccessIsStored == \A s \in Pages, p \in Peers :
    LET r == req[s][p]
    IN  r.pc = "reply" /\ r.alone =>
          stored[p][r.area] = [value |-> r.value, up |-> r.area \in Lifted]

\* What a peer has stored is in force there, once no request is about to apply it, unless
\* requests have met there or what should have applied it has failed.  Then the next push
\* finds the md5 equal and does nothing: only a reboot puts what is stored in force.
InForceAtPeers == \A p \in Peers \ askew, a \in Applied :
    (\A s \in Pages : req[s][p].pc = "apply" => req[s][p].area # a) =>
        inforce[p][a] = stored[p][a]

\* A push changes the area that is pushed; requests side by side at a peer may undo
\* each other's areas.
OtherAreasKept ==
    [][\A p \in Peers, a \in Areas : stored'[p][a] # stored[p][a] =>
           \E s \in Pages : /\ req[s][p].pc = "write"
                            /\ req[s][p].area = a \/ ~req[s][p].alone]_vars

\* A page gets to the end of its list of hosts, unless a peer went down while the page
\* waited for its answer, to the GET or to the POST, and the connection stays as it is.
Hung(s) == pc[s] \in {"md5", "wait"} /\ req[s][Peer(s)].pc = "none"
EveryPushEnds == \A s \in Pages : pc[s] # "idle" ~> pc[s] = "idle" \/ Hung(s)
=============================================================================
