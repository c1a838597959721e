-------------------------- MODULE ConfigSyncProofs --------------------------
(***************************************************************************)
(* For every set of pages, list of sync hosts and set of areas, however    *)
(* they are named and wherever they are stored: the types of ConfigSync,   *)
(* what a push that runs alone has reached when it ends, what an answer of *)
(* SUCCESS means, that a push keeps the other areas of a peer, and that    *)
(* what a peer has stored is in force there unless requests have met or    *)
(* what applies it has failed.                                             *)
(*                                                                         *)
(* The invariant has three parts.  At a peer, a request that no other has  *)
(* run beside (alone) has seen the configuration it is about to replace.   *)
(* At the primary, a page that nothing ran beside (solo) has reached the   *)
(* hosts before its place in the list, except those it has given up on,    *)
(* and only at those can a request of its own be left behind.  Where no    *)
(* requests have met there is one at most, so what it applies is what it   *)
(* has stored.                                                             *)
(***************************************************************************)
EXTENDS ConfigSync, TLAPS

Unanswered(s, p) == req[s][p].pc # "none"

\* No other request changes the peer of one that is alone.
AloneExcludes == \A s, t \in Pages, p \in Peers :
    Changing(s, p) /\ req[s][p].alone /\ t # s => ~Changing(t, p)

\* What a request puts in its area.
Pushes(s, p) == [value |-> req[s][p].value, up |-> req[s][p].area \in Lifted]

\* What a request that is alone has loaded and stored is still there.
Exact(s, p) ==
    /\ req[s][p].pc = "write" => req[s][p].view = stored[p]
    /\ req[s][p].pc \in {"apply", "reply"} => stored[p][req[s][p].area] = Pushes(s, p)
AloneIsExact == \A s \in Pages, p \in Peers : req[s][p].alone => Exact(s, p)

PeerInv == AloneExcludes /\ AloneIsExact

\* Where a page is in the list of hosts.
PlaceInList == \A s \in Pages :
    /\ pc[s] \in {"idle", "edit"} => at[s] = 1 /\ failed[s] = {}
    /\ pc[s] = "end" => at[s] = Len(Hosts) + 1
    /\ \A p \in failed[s] : \E i \in DOMAIN Hosts : i < at[s] /\ Hosts[i] = p

\* Nothing is busy beside a page that is solo.
SoloExcludes == \A s, t \in Pages : solo[s] /\ Busy(s) /\ t # s => ~Busy(t)

Pushing(s) == pc[s] \in {"get", "md5", "post", "wait", "end"}

\* A page that edits has no request; one that pushes has none but at the peer whose
\* answer it waits for, of the kind it waits for, and at those it has given up on.
Left(s) == \A p \in Peers : Unanswered(s, p) =>
    /\ pc[s] # "edit"
    /\ Pushing(s) => \/ p \in failed[s]
                     \/ pc[s] = "wait" /\ p = Peer(s)
                     \/ pc[s] = "md5" /\ p = Peer(s) /\ ~Changing(s, p)

\* The request that a page waits for carries the area it pushes.
Carries(s) == pc[s] = "wait" /\ Unanswered(s, Peer(s)) =>
    /\ req[s][Peer(s)].area = area[s]
    /\ req[s][Peer(s)].value = sent[s]

\* What a solo push has done so far.
Pushed(s) == Pushing(s) =>
    /\ stored[Primary][area[s]] = InPlace(sent[s])
    /\ area[s] \notin Lifted =>
         /\ \A i \in DOMAIN Hosts : i < at[s] /\ Hosts[i] \notin failed[s] =>
              stored[Hosts[i]][area[s]] = InPlace(sent[s])
         /\ pc[s] = "wait" /\ req[s][Peer(s)].pc \in {"apply", "reply"} =>
              stored[Peer(s)][area[s]] = InPlace(sent[s])

PushInv == \A s \in Pages : Left(s) /\ Carries(s) /\ (solo[s] => Pushed(s))

\* At a peer, only the areas in Lifted are stored out of their place.
UpIsLifted(c) == \A a \in Areas : c[a].up => a \in Lifted
PlaceInv == /\ \A p \in Peers : UpIsLifted(stored[p])
            /\ \A s \in Pages, p \in Peers : req[s][p].pc = "write" => UpIsLifted(req[s][p].view)

\* Where no requests have met, every one that changes the peer is alone.
UnmetIsAlone == \A s \in Pages, p \in Peers \ askew : Changing(s, p) => req[s][p].alone
ForceInv == UnmetIsAlone /\ InForceAtPeers

SyncInv == /\ TypeOK
           /\ PlaceInList
           /\ PeerInv
           /\ SoloExcludes
           /\ PlaceInv
           /\ PushInv
           /\ ForceInv
-----------------------------------------------------------------------------
\* The list of sync hosts: each peer is one of its hosts, at one place only.
LEMMA HostList == /\ Len(Hosts) \in Nat
                  /\ DOMAIN Hosts = 1..Len(Hosts)
                  /\ \A i \in DOMAIN Hosts : Hosts[i] \in Peers
                  /\ \A p \in Peers : \E i \in DOMAIN Hosts : Hosts[i] = p
                  /\ \A i, j \in DOMAIN Hosts : Hosts[i] = Hosts[j] => i = j
                  /\ Hosts = <<>> <=> Len(Hosts) = 0
  BY SyncAssumption DEF Peers

\* An idle request is a request, and all of its configuration is in its place.
LEMMA NoRequestType == /\ NoRequest \in Request
                       /\ NoRequest.pc = "none"
                       /\ NoRequest.area \in Areas
                       /\ NoRequest.value \in Values
                       /\ NoRequest.view \in Config
                       /\ UpIsLifted(NoRequest.view)
  BY SyncAssumption DEF NoRequest, Request, Config, Content, InPlace, UpIsLifted

\* What a request at a peer changes: its own record, and by that what the peer has
\* stored (ReqWrite) or in force (ReqApply).
LEMMA ReqLoadEffect ==
  ASSUME TypeOK, NEW s \in Pages, NEW p \in Peers, ReqLoad(s, p)
  PROVE  /\ req' \in [Pages -> [Peers -> Request]]
         /\ \A t \in Pages, q \in Peers : t # s \/ q # p => req'[t][q] = req[t][q]
         /\ req[s][p].pc = "load" /\ req'[s][p].pc = "write"
         /\ req'[s][p].view = stored[p]
         /\ req'[s][p].area = req[s][p].area
         /\ req'[s][p].value = req[s][p].value
         /\ req'[s][p].alone = req[s][p].alone
<1> DEFINE r == [pc |-> "write", area |-> req[s][p].area, value |-> req[s][p].value,
                 view |-> stored[p], alone |-> req[s][p].alone]
<1>1. req[s][p] \in Request /\ stored[p] \in Config
  BY DEF TypeOK
<1>2. r \in Request /\ r = [[req[s][p] EXCEPT !.pc = "write"] EXCEPT !.view = stored[p]]
  <2> DEFINE r1 == [pc |-> "write", area |-> req[s][p].area, value |-> req[s][p].value,
                    view |-> req[s][p].view, alone |-> req[s][p].alone]
  <2>1. r1 = [req[s][p] EXCEPT !.pc = "write"]
    BY <1>1 DEF Request
  <2>2. r = [r1 EXCEPT !.view = stored[p]] /\ r \in Request
    BY <1>1 DEF Request
  <2>q. QED
    BY <2>1, <2>2, Zenon
<1> HIDE DEF r
<1>3. req' = [req EXCEPT ![s] = [req[s] EXCEPT ![p] = r]]
  BY <1>2, Zenon DEF ReqLoad, TypeOK
<1>4. /\ req' \in [Pages -> [Peers -> Request]]
      /\ \A t \in Pages, q \in Peers : t # s \/ q # p => req'[t][q] = req[t][q]
      /\ req'[s][p] = r
  BY <1>2, <1>3 DEF TypeOK
<1>q. QED
  BY <1>4 DEF ReqLoad, r

LEMMA ServeEffect ==
  ASSUME TypeOK, NEW s \in Pages, NEW p \in Peers, NEW from,
         NEW to \in {"apply", "reply", "failed"}, Serve(s, p, from, to)
  PROVE  /\ req' \in [Pages -> [Peers -> Request]]
         /\ \A t \in Pages, q \in Peers : t # s \/ q # p => req'[t][q] = req[t][q]
         /\ req[s][p].pc = from /\ req'[s][p].pc = to
         /\ req'[s][p].area = req[s][p].area
         /\ req'[s][p].value = req[s][p].value
         /\ req'[s][p].alone = req[s][p].alone
<1> DEFINE r == [pc |-> to, area |-> req[s][p].area, value |-> req[s][p].value,
                 view |-> NoRequest.view, alone |-> req[s][p].alone]
<1>1. req[s][p] \in Request /\ NoRequest.view \in Config
  BY NoRequestType DEF TypeOK
<1>2. r \in Request /\ r = [[req[s][p] EXCEPT !.pc = to] EXCEPT !.view = NoRequest.view]
  <2> DEFINE r1 == [pc |-> to, area |-> req[s][p].area, value |-> req[s][p].value,
                    view |-> req[s][p].view, alone |-> req[s][p].alone]
  <2>1. r1 = [req[s][p] EXCEPT !.pc = to]
    BY <1>1 DEF Request
  <2>2. r = [r1 EXCEPT !.view = NoRequest.view] /\ r \in Request
    BY <1>1 DEF Request
  <2>q. QED
    BY <2>1, <2>2, Zenon
<1> HIDE DEF r
<1>3. req' = [req EXCEPT ![s] = [req[s] EXCEPT ![p] = r]]
  BY <1>2, Zenon DEF Serve, TypeOK
<1>4. /\ req' \in [Pages -> [Peers -> Request]]
      /\ \A t \in Pages, q \in Peers : t # s \/ q # p => req'[t][q] = req[t][q]
      /\ req'[s][p] = r
  BY <1>2, <1>3 DEF TypeOK
<1>q. QED
  BY <1>4 DEF Serve, r

LEMMA ServedEffect ==
  ASSUME TypeOK, NEW s \in Pages, NEW p \in Peers,
         ReqWrite(s, p) \/ ReqApply(s, p) \/ ReqFail(s, p)
  PROVE  /\ \A t \in Pages, q \in Peers : t # s \/ q # p => req'[t][q] = req[t][q]
         /\ req[s][p].pc \in {"load", "write", "apply"}
         /\ req'[s][p].area = req[s][p].area
         /\ req'[s][p].alone = req[s][p].alone
<1>1. PICK from \in {"load", "write", "apply"}, to \in {"apply", "reply", "failed"} :
         Serve(s, p, from, to)
  <2>1. CASE ReqWrite(s, p)
    BY <2>1, Zenon DEF ReqWrite
  <2>2. CASE ReqApply(s, p)
    BY <2>2, Zenon DEF ReqApply
  <2>3. CASE ReqFail(s, p)
    BY <2>3, Zenon DEF ReqFail
  <2>q. QED
    BY <2>1, <2>2, <2>3
<1>q. QED
  BY <1>1, ServeEffect

\* A request that ends, answered or not.
LEMMA ForgetEffect ==
  ASSUME TypeOK, NEW s \in Pages, NEW p \in Peers, req' = [req EXCEPT ![s][p] = NoRequest]
  PROVE  /\ req' \in [Pages -> [Peers -> Request]]
         /\ \A t \in Pages, q \in Peers : t # s \/ q # p => req'[t][q] = req[t][q]
         /\ req'[s][p].pc = "none"
  BY NoRequestType DEF TypeOK

\* The peer that a page is at.
LEMMA AtPeer ==
  ASSUME TypeOK, NEW s \in Pages, pc[s] \in {"get", "md5", "post", "wait"}
  PROVE  Peer(s) \in Peers
  BY HostList DEF TypeOK, Peer

LEMMA AskEffect ==
  ASSUME TypeOK, NEW s \in Pages, AskMd5(s)
  PROVE  /\ req' \in [Pages -> [Peers -> Request]]
         /\ \A t \in Pages, q \in Peers : t # s \/ q # Peer(s) => req'[t][q] = req[t][q]
         /\ req'[s][Peer(s)].pc = "md5"
<1>1. Peer(s) \in Peers
  BY AtPeer DEF AskMd5
<1>2. PICK r : r = [req[s][Peer(s)] EXCEPT !.pc = "md5"]
  OBVIOUS
<1>3. r \in Request /\ r.pc = "md5"
  <2>1. req[s][Peer(s)] \in Request
    BY <1>1 DEF TypeOK
  <2>q. QED
    BY <1>2, <2>1 DEF Request
<1>4. req' = [req EXCEPT ![s] = [req[s] EXCEPT ![Peer(s)] = r]]
  BY <1>2, Zenon DEF AskMd5, TypeOK
<1>q. QED
  BY <1>1, <1>3, <1>4 DEF TypeOK

\* The steps by which a page takes no notice of a request any more, or of a GET.
Forgets(s) == NoMd5(s) \/ GetMd5(s) \/ Success(s) \/ Failure(s)

LEMMA ForgetsEffect ==
  ASSUME TypeOK, NEW s \in Pages, Forgets(s)
  PROVE  /\ Peer(s) \in Peers
         /\ req' \in [Pages -> [Peers -> Request]]
         /\ \A t \in Pages, q \in Peers : t # s \/ q # Peer(s) => req'[t][q] = req[t][q]
         /\ req'[s][Peer(s)].pc = "none"
         /\ UNCHANGED <<stored, inforce, askew, view, area, sent, solo>>
<1>1. /\ pc[s] \in {"get", "md5", "wait"}
      /\ req' = [req EXCEPT ![s][Peer(s)] = NoRequest]
      /\ UNCHANGED <<stored, inforce, askew, view, area, sent, solo>>
  BY DEF Forgets, NoMd5, GetMd5, Success, Failure, Answered
<1>2. Peer(s) \in Peers
  BY <1>1, AtPeer
<1>q. QED
  BY <1>1, <1>2, ForgetEffect, ZenonT(60)

LEMMA PostEffect ==
  ASSUME TypeOK, NEW s \in Pages, Post(s)
  PROVE  /\ req' \in [Pages -> [Peers -> Request]]
         /\ Peer(s) \in Peers
         /\ askew \subseteq askew' /\ askew' \subseteq askew \cup {Peer(s)}
         /\ \A t \in Pages, q \in Peers : q # Peer(s) => req'[t][q] = req[t][q]
         /\ \A t \in Pages, q \in Peers : t # s =>
              /\ req'[t][q].pc = req[t][q].pc
              /\ req'[t][q].area = req[t][q].area
              /\ req'[t][q].value = req[t][q].value
              /\ req'[t][q].view = req[t][q].view
              /\ req'[t][q].alone => req[t][q].alone
         /\ \A t \in Pages : Changing(t, Peer(s)) =>
              /\ ~req'[s][Peer(s)].alone
              /\ t # s => ~req'[t][Peer(s)].alone
              /\ Peer(s) \in askew'
         /\ (\A t \in Pages : ~Changing(t, Peer(s))) => req'[s][Peer(s)].alone
         /\ req'[s][Peer(s)].pc = "load"
         /\ req'[s][Peer(s)].area = area[s]
         /\ req'[s][Peer(s)].value = sent[s]
<1> DEFINE p == Peer(s)
           beside == {t \in Pages : Changing(t, p)}
           mine == [pc |-> "load", area |-> area[s], value |-> sent[s],
                    view |-> NoRequest.view, alone |-> beside = {}]
           other(t) == [req[t][p] EXCEPT !.alone = @ /\ t \notin beside]
<1>1. p \in Peers
  BY AtPeer DEF Post
<1>2. \A t \in Pages : req[t][p] \in Request
  BY <1>1 DEF TypeOK
<1>3. area[s] \in Areas /\ sent[s] \in Values
  BY DEF TypeOK
<1>4. /\ mine \in Request /\ mine.pc = "load"
      /\ mine.area = area[s] /\ mine.value = sent[s]
      /\ mine.alone = (beside = {})
  BY <1>3, NoRequestType DEF Request
<1>5. ASSUME NEW t \in Pages
      PROVE  /\ other(t) \in Request
             /\ other(t).pc = req[t][p].pc /\ other(t).area = req[t][p].area
             /\ other(t).value = req[t][p].value /\ other(t).view = req[t][p].view
             /\ other(t).alone = (req[t][p].alone /\ t \notin beside)
  BY <1>2 DEF Request
<1>6. req' = [t \in Pages |-> IF t = s THEN [req[s] EXCEPT ![p] = mine]
                              ELSE [req[t] EXCEPT ![p] = other(t)]]
  BY Zenon DEF Post
<1>6a. askew' = IF beside = {} THEN askew ELSE askew \cup {p}
  BY DEF Post
<1>7. \A t \in Pages : Changing(t, p) => t \in beside
  OBVIOUS
<1>7a. (\A t \in Pages : ~Changing(t, p)) => beside = {}
  OBVIOUS
<1> HIDE DEF mine, other, beside
<1>8. /\ req' \in [Pages -> [Peers -> Request]]
      /\ \A t \in Pages, q \in Peers : q # p => req'[t][q] = req[t][q]
      /\ req'[s][p] = mine
      /\ \A t \in Pages : t # s => req'[t][p] = other(t)
  BY <1>1, <1>4, <1>5, <1>6 DEF TypeOK
<1>9. \A t \in Pages, q \in Peers : t # s =>
              /\ req'[t][q].pc = req[t][q].pc
              /\ req'[t][q].area = req[t][q].area
              /\ req'[t][q].value = req[t][q].value
              /\ req'[t][q].view = req[t][q].view
  BY <1>5, <1>8
<1>10. ASSUME NEW t \in Pages, NEW q \in Peers, t # s
       PROVE  req'[t][q].alone => req[t][q].alone
  <2>1. CASE q = p
    BY <1>5, <1>8, <1>10, <2>1, Zenon
  <2>2. CASE q # p
    BY <1>8, <2>2, Zenon
  <2>q. QED
    BY <2>1, <2>2
<1>11. ASSUME NEW t \in Pages, Changing(t, p)
       PROVE  ~req'[s][p].alone /\ (t # s => ~req'[t][p].alone) /\ p \in askew'
  <2>1. t \in beside
    BY <1>7, <1>11
  <2>2. ~req'[s][p].alone
    BY <2>1, <1>4, <1>8, Zenon
  <2>3. t # s => ~req'[t][p].alone
    BY <2>1, <1>5, <1>8, Zenon
  <2>4. p \in askew'
    BY <2>1, <1>6a
  <2>q. QED
    BY <2>2, <2>3, <2>4
<1>12. (\A t \in Pages : ~Changing(t, p)) => req'[s][p].alone
  BY <1>4, <1>7a, <1>8, Zenon
<1>13. askew \subseteq askew' /\ askew' \subseteq askew \cup {p}
  BY <1>6a
<1>q. QED
  BY <1>1, <1>4, <1>8, <1>9, <1>10, <1>11, <1>12, <1>13

\* The type invariant holds at the start and is kept by every step.
LEMMA SyncTypeInit == Init => TypeOK /\ PlaceInList
<1> SUFFICES ASSUME Init PROVE TypeOK /\ PlaceInList
  OBVIOUS
<1>1. [Areas -> {InPlace(v) : v \in Values}] \subseteq Config
  <2>1. \A v \in Values : InPlace(v) \in Content
    BY DEF InPlace, Content
  <2>q. QED
    BY <2>1 DEF Config
<1>2. stored \in [Peers \cup {Primary} -> Config] /\ inforce \in [Peers -> Config]
  BY <1>1 DEF Init
<1>q. QED
  BY <1>2, HostList, NoRequestType DEF Init, TypeOK, PlaceInList, Config

LEMMA SyncTypeStep == TypeOK /\ PlaceInList /\ [Next]_vars => TypeOK' /\ PlaceInList'
<1> SUFFICES ASSUME TypeOK, PlaceInList, [Next]_vars PROVE TypeOK' /\ PlaceInList'
  OBVIOUS
<1> USE HostList, NoRequestType
<1>1. ASSUME NEW s \in Pages, Load(s) PROVE TypeOK' /\ PlaceInList'
  <2>1. solo' \in [Pages -> BOOLEAN]
    BY <1>1, Zenon DEF Load, TypeOK
  <2>2. /\ pc[s] = "idle" /\ pc' = [pc EXCEPT ![s] = "edit"]
        /\ view' = [view EXCEPT ![s] = stored[Primary]]
        /\ UNCHANGED <<stored, inforce, askew, area, sent, at, failed, req>>
    BY <1>1, Zenon DEF Load, Busy
  <2>3. view' \in [Pages -> [Areas -> Content \cup {Encoded}]]
    BY <2>2 DEF TypeOK, Config
  <2>4. \A t \in Pages : pc'[t] = "edit" => view'[t] \in Config
    BY <2>2 DEF TypeOK
  <2>q. QED
    BY <2>1, <2>2, <2>3, <2>4 DEF TypeOK, PlaceInList
<1>2. ASSUME NEW s \in Pages, Edit(s) PROVE TypeOK' /\ PlaceInList'
  <2>1. PICK a \in Areas, v \in Values :
          /\ area' = [area EXCEPT ![s] = a]
          /\ sent' = [sent EXCEPT ![s] = v]
          /\ stored' = [stored EXCEPT ![Primary] = [view[s] EXCEPT ![a] = InPlace(v)]]
          /\ view' = [view EXCEPT ![s] = [NoRequest.view EXCEPT ![a] = Encoded]]
    BY <1>2 DEF Edit
  <2>2. /\ pc[s] = "edit" /\ view[s] \in Config
        /\ pc' = [pc EXCEPT ![s] = IF Hosts = <<>> THEN "end" ELSE "get"]
        /\ UNCHANGED <<inforce, askew, at, failed, solo, req>>
    BY <1>2 DEF Edit, TypeOK
  <2>3. PICK c, e : c = [view[s] EXCEPT ![a] = InPlace(v)]
                    /\ e = [NoRequest.view EXCEPT ![a] = Encoded]
    OBVIOUS
  <2>4. c \in Config /\ e \in [Areas -> Content \cup {Encoded}]
    BY <2>2, <2>3 DEF Config, Content, InPlace
  <2>5. /\ stored' \in [Peers \cup {Primary} -> Config]
        /\ view' \in [Pages -> [Areas -> Content \cup {Encoded}]]
        /\ \A t \in Pages : pc'[t] = "edit" => view'[t] \in Config
    BY <2>1, <2>2, <2>3, <2>4 DEF TypeOK
  <2>q. QED
    BY <2>1, <2>2, <2>5 DEF TypeOK, PlaceInList
<1>3. ASSUME NEW s \in Pages, Forgets(s) PROVE TypeOK' /\ PlaceInList'
  <2>1. /\ pc[s] \in {"get", "md5", "wait"}
        /\ \/ \E miss \in SUBSET {Peer(s)} : Advance(s, miss)
           \/ pc' = [pc EXCEPT ![s] = "post"] /\ UNCHANGED <<at, failed>>
    BY <1>3, Zenon DEF Forgets, NoMd5, GetMd5, Success, Failure, Answered
  <2>2. /\ req' \in [Pages -> [Peers -> Request]] /\ Peer(s) \in Peers
        /\ UNCHANGED <<stored, inforce, askew, view, area, sent, solo>>
    BY <1>3, ForgetsEffect
  <2>3. ASSUME NEW miss \in SUBSET {Peer(s)}, Advance(s, miss) PROVE TypeOK' /\ PlaceInList'
    BY <2>1, <2>2, <2>3 DEF Advance, Peer, TypeOK, PlaceInList
  <2>4. CASE pc' = [pc EXCEPT ![s] = "post"] /\ UNCHANGED <<at, failed>>
    BY <2>1, <2>2, <2>4 DEF TypeOK, PlaceInList
  <2>q. QED
    BY <2>1, <2>3, <2>4
<1>4. ASSUME NEW s \in Pages, AskMd5(s) PROVE TypeOK' /\ PlaceInList'
  <2>1. /\ pc[s] = "get" /\ pc' = [pc EXCEPT ![s] = "md5"]
        /\ UNCHANGED <<stored, inforce, askew, view, area, sent, at, failed, solo>>
    BY <1>4, Zenon DEF AskMd5
  <2>2. req' \in [Pages -> [Peers -> Request]]
    BY <1>4, AskEffect
  <2>3. TypeOK'
    BY <2>1, <2>2, ZenonT(60) DEF TypeOK
  <2>q. QED
    BY <2>1, <2>3 DEF TypeOK, PlaceInList
<1>5. ASSUME NEW s \in Pages, Post(s) PROVE TypeOK' /\ PlaceInList'
  <2>1. /\ pc[s] = "post" /\ pc' = [pc EXCEPT ![s] = "wait"]
        /\ UNCHANGED <<stored, inforce, view, area, sent, at, failed, solo>>
    BY <1>5, Zenon DEF Post
  <2>2. req' \in [Pages -> [Peers -> Request]] /\ askew' \in SUBSET Peers
    BY <1>5, PostEffect DEF TypeOK
  <2>3. /\ pc' \in [Pages -> {"idle", "edit", "get", "md5", "post", "wait", "end"}]
        /\ \A t \in Pages : pc'[t] = "edit" => view'[t] \in Config
        /\ \A t \in Pages : pc'[t] \in {"get", "md5", "post", "wait"} => at'[t] \in DOMAIN Hosts
    BY <2>1 DEF TypeOK
  <2>4. TypeOK'
    BY <2>1, <2>2, <2>3, ZenonT(60) DEF TypeOK
  <2>q. QED
    BY <2>1, <2>4 DEF TypeOK, PlaceInList
<1>6. ASSUME NEW s \in Pages, PostFails(s) PROVE TypeOK' /\ PlaceInList'
  BY <1>6 DEF PostFails, Advance, Peer, TypeOK, PlaceInList
<1>8. ASSUME NEW s \in Pages, Finish(s) PROVE TypeOK' /\ PlaceInList'
  BY <1>8 DEF Finish, TypeOK, PlaceInList, Config
<1>9. ASSUME NEW s \in Pages, NEW p \in Peers, ReqStep(s, p) PROVE TypeOK' /\ PlaceInList'
  <2>1. UNCHANGED pageVars
    BY <1>9, Zenon DEF ReqStep, ReqLoad, ReqWrite, ReqApply, ReqFail, ReqEnd, Serve
  <2>2. req[s][p].area \in Areas /\ req[s][p].value \in Values /\ req[s][p].view \in Config
    BY DEF TypeOK, Request
  <2>3. PICK c : c = [value |-> req[s][p].value, up |-> req[s][p].area \in Lifted]
    OBVIOUS
  <2>4. c \in Content
    BY <2>2, <2>3 DEF Content
  <2>5. /\ stored' \in [Peers \cup {Primary} -> Config]
        /\ inforce' \in [Peers -> Config]
        /\ askew' \in SUBSET Peers
    <3>1. CASE ReqWrite(s, p)
      <4>1. /\ stored' = [stored EXCEPT ![p] = [req[s][p].view EXCEPT ![req[s][p].area] = c]]
            /\ UNCHANGED <<inforce, askew>>
        BY <2>3, <3>1, Zenon DEF ReqWrite
      <4>q. QED
        BY <2>2, <2>4, <4>1 DEF TypeOK, Config
    <3>2. CASE ReqApply(s, p)
        <4>1. \/ UNCHANGED inforce
              \/ inforce' = [inforce EXCEPT ![p] = [inforce[p] EXCEPT ![req[s][p].area] = c]]
          BY <2>3, <3>2, Zenon DEF ReqApply, TypeOK
        <4>2. UNCHANGED stored /\ askew' \in SUBSET Peers
          BY <3>2 DEF ReqApply, TypeOK
      <4>q. QED
        <5>1. PICK d : d = [inforce[p] EXCEPT ![req[s][p].area] = c]
          OBVIOUS
        <5>2. d \in Config
          BY <2>2, <2>4, <5>1 DEF TypeOK, Config
        <5>3. UNCHANGED inforce \/ inforce' = [inforce EXCEPT ![p] = d]
          BY <4>1, <5>1, Zenon
        <5>4. inforce \in [Peers -> Config] /\ stored \in [Peers \cup {Primary} -> Config]
          BY DEF TypeOK
        <5>5. inforce' \in [Peers -> Config]
          BY <5>2, <5>3, <5>4
        <5>q. QED
          BY <4>2, <5>4, <5>5
    <3>3. CASE ReqLoad(s, p) \/ ReqEnd(s, p) \/ ReqFail(s, p)
      BY <3>3 DEF ReqLoad, ReqEnd, ReqFail, TypeOK
    <3>q. QED
      BY <1>9, <3>1, <3>2, <3>3 DEF ReqStep
  <2>6. req' \in [Pages -> [Peers -> Request]]
    <3>1. CASE ReqEnd(s, p)
      BY <3>1, ForgetEffect DEF ReqEnd
    <3>q. QED
      BY <1>9, <3>1, ReqLoadEffect, ServeEffect DEF ReqStep, ReqWrite, ReqApply, ReqFail
  <2>q. QED
    BY <2>1, <2>5, <2>6 DEF pageVars, TypeOK, PlaceInList
<1>10. ASSUME NEW p \in Peers, PeerReboot(p) PROVE TypeOK' /\ PlaceInList'
  BY <1>10 DEF PeerReboot, pageVars, TypeOK, PlaceInList
<1>11. CASE UNCHANGED vars
  BY <1>11 DEF vars, pageVars, TypeOK, PlaceInList
<1>q. QED
  BY <1>1, <1>2, <1>3, <1>4, <1>5, <1>6, <1>8, <1>9, <1>10, <1>11 DEF Next, PageStep, Forgets

\* Every variable keeps its type: the place in the list stays inside it, a page asks a
\* host only while there is one left, and no string of push_config() reaches a host.
THEOREM SyncTypeCorrect == Spec => []TypeOK
  BY SyncTypeInit, SyncTypeStep, PTL DEF Spec
-----------------------------------------------------------------------------
(* At a peer. *)

LEMMA PeerInit == Init => PeerInv
<1> SUFFICES ASSUME Init PROVE PeerInv
  OBVIOUS
<1>1. \A s \in Pages, p \in Peers : req[s][p].pc = "none"
  BY NoRequestType DEF Init
<1>q. QED
  BY <1>1 DEF PeerInv, AloneExcludes, AloneIsExact, Exact, Changing

\* Both parts of the invariant survive when requests disappear and what the peers have
\* stored stays.
LEMMA PeerKept ==
  ASSUME PeerInv,
         \A p \in Peers : stored'[p] = stored[p],
         \A t \in Pages, q \in Peers : req'[t][q] = req[t][q] \/ ~Changing(t, q)'
  PROVE  PeerInv'
<1>1. \A t \in Pages, q \in Peers : Changing(t, q)' => req'[t][q] = req[t][q]
  BY Zenon
<1>2. AloneExcludes'
  <2> SUFFICES ASSUME NEW t \in Pages, NEW u \in Pages, NEW q \in Peers,
                      Changing(t, q)', req'[t][q].alone, u # t, Changing(u, q)'
               PROVE  FALSE
    BY Zenon DEF AloneExcludes
  <2>1. req'[t][q] = req[t][q] /\ req'[u][q] = req[u][q]
    BY <1>1, Zenon
  <2>2. Changing(t, q) /\ req[t][q].alone /\ Changing(u, q)
    BY <2>1, Zenon DEF Changing
  <2>q. QED
    BY <2>2, Zenon DEF PeerInv, AloneExcludes
<1>3. AloneIsExact'
  <2> SUFFICES ASSUME NEW t \in Pages, NEW q \in Peers, req'[t][q].alone PROVE Exact(t, q)'
    BY Zenon DEF AloneIsExact
  <2>1. CASE ~Changing(t, q)'
    BY <2>1 DEF Changing, Exact
  <2>2. CASE Changing(t, q)'
    <3>1. req'[t][q] = req[t][q] /\ stored'[q] = stored[q]
      BY <1>1, <2>2, Zenon
    <3>2. Exact(t, q)
      BY <3>1, Zenon DEF PeerInv, AloneIsExact
    <3>q. QED
      BY <3>1, <3>2, Zenon DEF Exact, Pushes
  <2>q. QED
    BY <2>1, <2>2
<1>q. QED
  BY <1>2, <1>3 DEF PeerInv

\* A step of one request, alone at its peer, leaves the others that are alone as they are.
LEMMA PeerServed ==
  ASSUME PeerInv, NEW s \in Pages, NEW p \in Peers, Changing(s, p),
         \A q \in Peers : q # p => stored'[q] = stored[q],
         \A t \in Pages, q \in Peers : t # s \/ q # p => req'[t][q] = req[t][q],
         Changing(s, p)',
         req'[s][p].alone = req[s][p].alone,
         req[s][p].alone => Exact(s, p)'
  PROVE  PeerInv'
<1>1. \A t \in Pages, q \in Peers : Changing(t, q)' <=> Changing(t, q)
  BY Zenon DEF Changing
<1>2. \A t \in Pages, q \in Peers : req'[t][q].alone = req[t][q].alone
  BY Zenon
<1>3. AloneExcludes'
  BY <1>1, <1>2, ZenonT(60) DEF PeerInv, AloneExcludes
<1>4. AloneIsExact'
  <2> SUFFICES ASSUME NEW t \in Pages, NEW q \in Peers, req'[t][q].alone PROVE Exact(t, q)'
    BY Zenon DEF AloneIsExact
  <2>1. CASE t = s /\ q = p
    BY <1>2, <2>1, Zenon
  <2>2. CASE q # p
    <3>1. req'[t][q] = req[t][q] /\ stored'[q] = stored[q]
      BY <2>2, Zenon
    <3>2. Exact(t, q)
      BY <3>1, Zenon DEF PeerInv, AloneIsExact
    <3>q. QED
      BY <3>1, <3>2, Zenon DEF Exact, Pushes
  <2>3. CASE t # s /\ q = p
    <3>1. ~Changing(t, q)'
      BY <1>1, <1>2, <2>3, Zenon DEF PeerInv, AloneExcludes
    <3>q. QED
      BY <3>1 DEF Exact, Changing
  <2>q. QED
    BY <2>1, <2>2, <2>3
<1>q. QED
  BY <1>3, <1>4 DEF PeerInv

LEMMA PeerPosted ==
  ASSUME TypeOK, PeerInv, NEW s \in Pages, Post(s)
  PROVE  PeerInv'
<1>1. UNCHANGED stored
  BY DEF Post
<1>2. AloneExcludes'
  <2> SUFFICES ASSUME NEW t \in Pages, NEW u \in Pages, NEW q \in Peers,
                      Changing(t, q)', req'[t][q].alone, u # t
               PROVE  ~Changing(u, q)'
    BY Zenon DEF AloneExcludes
  <2>1. CASE q # Peer(s)
    <3>1. req'[t][q] = req[t][q] /\ req'[u][q] = req[u][q]
      BY <2>1, PostEffect
    <3>2. Changing(t, q)
      BY <3>1 DEF Changing
    <3>3. req[t][q].alone
      BY <3>1, Zenon
    <3>4. ~Changing(u, q)
      BY <3>2, <3>3, Zenon DEF PeerInv, AloneExcludes
    <3>q. QED
      BY <3>1, <3>4, Zenon DEF Changing
  <2>2. CASE q = Peer(s) /\ t = s
    <3>1. ~Changing(u, q)
      BY <2>2, PostEffect
    <3>q. QED
      BY <2>2, <3>1, PostEffect DEF Changing
  <2>3. CASE q = Peer(s) /\ t # s
    BY <2>3, PostEffect DEF Changing
  <2>q. QED
    BY <2>1, <2>2, <2>3
<1>3. AloneIsExact'
  <2> SUFFICES ASSUME NEW t \in Pages, NEW q \in Peers, req'[t][q].alone PROVE Exact(t, q)'
    BY Zenon DEF AloneIsExact
  <2>1. CASE t = s /\ q = Peer(s)
    BY <2>1, PostEffect DEF Exact
  <2>2. CASE t # s \/ q # Peer(s)
    <3>1. /\ req'[t][q].alone => req[t][q].alone
          /\ req'[t][q].pc = req[t][q].pc
          /\ req'[t][q].area = req[t][q].area
          /\ req'[t][q].value = req[t][q].value
          /\ req'[t][q].view = req[t][q].view
      BY <2>2, PostEffect
    <3>2. Exact(t, q)
      BY <3>1, Zenon DEF PeerInv, AloneIsExact
    <3>q. QED
      BY <1>1, <3>1, <3>2, Zenon DEF Exact, Pushes
  <2>q. QED
    BY <2>1, <2>2
<1>q. QED
  BY <1>2, <1>3 DEF PeerInv

LEMMA PeerStep == TypeOK /\ PeerInv /\ [Next]_vars => PeerInv'
<1> SUFFICES ASSUME TypeOK, PeerInv, [Next]_vars PROVE PeerInv'
  OBVIOUS
<1>1. CASE UNCHANGED <<stored, req>>
  BY <1>1, PeerKept
<1>2. ASSUME NEW s \in Pages, NEW p \in Peers, UNCHANGED stored, ~Changing(s, p)',
             \A t \in Pages, q \in Peers : t # s \/ q # p => req'[t][q] = req[t][q]
      PROVE  PeerInv'
  <2>1. \A t \in Pages, q \in Peers : req'[t][q] = req[t][q] \/ ~Changing(t, q)'
    BY <1>2, Zenon
  <2>q. QED
    BY <1>2, <2>1, PeerKept
<1>3. ASSUME NEW s \in Pages, PageStep(s) PROVE PeerInv'
  <2>1. CASE Load(s) \/ PostFails(s) \/ Finish(s)
    <3>1. UNCHANGED <<stored, req>>
      BY <2>1, Zenon DEF Load, PostFails, Finish
    <3>q. QED
      BY <1>1, <3>1
  <2>2. CASE Edit(s)
    <3>1. \A p \in Peers : stored'[p] = stored[p]
      <4>1. PICK c : stored' = [stored EXCEPT ![Primary] = c]
        BY <2>2, Zenon DEF Edit
      <4>q. QED
        BY <4>1, SyncAssumption DEF TypeOK
    <3>2. UNCHANGED req
      BY <2>2 DEF Edit
    <3>q. QED
      BY <3>1, <3>2, PeerKept
  <2>3. CASE Post(s)
    BY <2>3, PeerPosted
  <2>4. CASE Forgets(s)
    <3>1. PICK p \in Peers : p = Peer(s)
      BY <2>4, ForgetsEffect
    <3>2. ~Changing(s, p)'
      BY <2>4, <3>1, ForgetsEffect DEF Changing
    <3>q. QED
      BY <1>2, <2>4, <3>1, <3>2, ForgetsEffect
  <2>5. CASE AskMd5(s)
    <3>1. PICK p \in Peers : p = Peer(s)
      BY <2>5, AtPeer DEF AskMd5
    <3>2. UNCHANGED stored
      BY <2>5 DEF AskMd5
    <3>3. ~Changing(s, p)'
      BY <2>5, <3>1, AskEffect DEF Changing
    <3>q. QED
      BY <1>2, <2>5, <3>1, <3>2, <3>3, AskEffect
  <2>q. QED
    BY <1>3, <2>1, <2>2, <2>3, <2>4, <2>5 DEF PageStep, Forgets
<1>4. ASSUME NEW s \in Pages, NEW p \in Peers, ReqStep(s, p) PROVE PeerInv'
  <2>1. CASE ReqLoad(s, p)
    <3>1. UNCHANGED stored
      BY <2>1, Zenon DEF ReqLoad
    <3>2. Exact(s, p)'
      BY <2>1, <3>1, ReqLoadEffect DEF Exact
    <3>3. Changing(s, p) /\ Changing(s, p)'
      BY <2>1, ReqLoadEffect DEF Changing
    <3>q. QED
      BY <2>1, <3>1, <3>2, <3>3, ReqLoadEffect, PeerServed
  <2>2. CASE ReqWrite(s, p)
    <3>1. Serve(s, p, "write", "apply")
      BY <2>2 DEF ReqWrite
    <3>2. /\ stored'[p][req[s][p].area] = Pushes(s, p)
          /\ \A q \in Peers : q # p => stored'[q] = stored[q]
      <4>1. PICK c : c = [value |-> req[s][p].value, up |-> req[s][p].area \in Lifted]
        OBVIOUS
      <4>2. PICK d : d = [req[s][p].view EXCEPT ![req[s][p].area] = c]
        OBVIOUS
      <4>3. stored' = [stored EXCEPT ![p] = d]
        BY <2>2, <4>1, <4>2, Zenon DEF ReqWrite
      <4>4. req[s][p].view \in Config /\ req[s][p].area \in Areas
        BY DEF TypeOK, Request
      <4>5. d[req[s][p].area] = c
        BY <4>2, <4>4 DEF Config
      <4>6. stored'[p] = d /\ \A q \in Peers : q # p => stored'[q] = stored[q]
        BY <4>3 DEF TypeOK
      <4>q. QED
        BY <4>1, <4>5, <4>6, Zenon DEF Pushes
    <3>3. Exact(s, p)'
      <4>1. Pushes(s, p)' = Pushes(s, p) /\ req'[s][p].area = req[s][p].area
        BY <3>1, ServeEffect DEF Pushes
      <4>q. QED
        BY <3>1, <3>2, <4>1, ServeEffect DEF Exact
    <3>4. Changing(s, p) /\ Changing(s, p)'
      BY <3>1, ServeEffect DEF Changing
    <3>q. QED
      BY <3>1, <3>2, <3>3, <3>4, ServeEffect, PeerServed
  <2>3. CASE ReqApply(s, p) \/ ReqFail(s, p)
    <3>1. /\ UNCHANGED stored
          /\ \/ Serve(s, p, "apply", "reply")
             \/ \E from \in {"load", "write", "apply"} : Serve(s, p, from, "failed")
      BY <2>3, Zenon DEF ReqApply, ReqFail
    <3>2. /\ Changing(s, p) /\ Changing(s, p)'
          /\ req'[s][p].pc # "write"
          /\ req'[s][p].pc \in {"apply", "reply"} => req[s][p].pc \in {"apply", "reply"}
      BY <3>1, ServeEffect DEF Changing
    <3>3. /\ \A t \in Pages, q \in Peers : t # s \/ q # p => req'[t][q] = req[t][q]
          /\ req'[s][p].area = req[s][p].area
          /\ req'[s][p].value = req[s][p].value
          /\ req'[s][p].alone = req[s][p].alone
      BY <3>1, ServeEffect
    <3>4. ASSUME req[s][p].alone PROVE Exact(s, p)'
      <4>1. Exact(s, p)
        BY <3>4, Zenon DEF PeerInv, AloneIsExact
      <4>2. Pushes(s, p)' = Pushes(s, p)
        BY <3>3 DEF Pushes
      <4>q. QED
        BY <3>1, <3>2, <3>3, <4>1, <4>2 DEF Exact
    <3>q. QED
      BY <3>1, <3>2, <3>3, <3>4, PeerServed
  <2>4. CASE ReqEnd(s, p)
    <3>1. ~Changing(s, p)' /\ UNCHANGED stored
      BY <2>4, ForgetEffect DEF ReqEnd, Changing
    <3>q. QED
      BY <1>2, <2>4, <3>1, ForgetEffect DEF ReqEnd
  <2>q. QED
    BY <1>4, <2>1, <2>2, <2>3, <2>4 DEF ReqStep
<1>5. ASSUME NEW p \in Peers, PeerReboot(p) PROVE PeerInv'
  <2>1. /\ \A t \in Pages : req'[t][p].pc = "none"
        /\ \A t \in Pages, q \in Peers : q # p => req'[t][q] = req[t][q]
        /\ UNCHANGED stored
    BY <1>5, NoRequestType DEF PeerReboot, TypeOK
  <2>2. \A t \in Pages, q \in Peers : req'[t][q] = req[t][q] \/ ~Changing(t, q)'
    BY <2>1 DEF Changing
  <2>q. QED
    BY <2>1, <2>2, PeerKept
<1>6. CASE UNCHANGED vars
  BY <1>1, <1>6 DEF vars
<1>q. QED
  BY <1>3, <1>4, <1>5, <1>6 DEF Next

\* What the primary logs as "Successfully pushed" (config_sync.inc, the answer SUCCESS of
\* config_sync.php) is what the peer holds for the area, in its place or out of it, unless
\* another request was at the peer.
THEOREM PushedIsStored == Spec => []SuccessIsStored
<1>1. TypeOK /\ PeerInv => SuccessIsStored
  BY DEF PeerInv, AloneIsExact, Exact, Pushes, SuccessIsStored
<1>q. QED
  BY <1>1, SyncTypeInit, SyncTypeStep, PeerInit, PeerStep, PTL DEF Spec

\* A push changes, at a peer where no other request runs, only the area that it pushes.
THEOREM PushKeepsAreas == Spec => OtherAreasKept
<1> DEFINE Kept == \A p \in Peers, a \in Areas : stored'[p][a] # stored[p][a] =>
                     \E s \in Pages : /\ req[s][p].pc = "write"
                                      /\ req[s][p].area = a \/ ~req[s][p].alone
<1>1. TypeOK /\ PeerInv /\ [Next]_vars => [Kept]_vars
  <2> SUFFICES ASSUME TypeOK, PeerInv, Next PROVE Kept
    BY Zenon
  <2>1. CASE \A p \in Peers : stored'[p] = stored[p]
    BY <2>1, Zenon
  <2>2. ASSUME NEW s \in Pages, NEW p \in Peers, ReqWrite(s, p) PROVE Kept
    <3>1. PICK c : stored' = [stored EXCEPT ![p] = [req[s][p].view EXCEPT ![req[s][p].area] = c]]
      BY <2>2, Zenon DEF ReqWrite
    <3>2. PICK d : d = [req[s][p].view EXCEPT ![req[s][p].area] = c]
      OBVIOUS
    <3>3. stored' = [stored EXCEPT ![p] = d]
      BY <3>1, <3>2, Zenon
    <3>4. \A a \in Areas : a # req[s][p].area => d[a] = req[s][p].view[a]
      BY <3>2 DEF TypeOK, Request, Config
    <3>5. /\ \A q \in Peers : q # p => stored'[q] = stored[q]
          /\ req[s][p].pc = "write"
          /\ stored'[p] = d
      BY <2>2, <3>3 DEF ReqWrite, Serve, TypeOK
    <3>6. req[s][p].alone => req[s][p].view = stored[p]
      BY <3>5, Zenon DEF PeerInv, AloneIsExact, Exact
    <3>q. QED
      BY <3>4, <3>5, <3>6
  <2>3. ASSUME NEW s \in Pages, PageStep(s) PROVE \A p \in Peers : stored'[p] = stored[p]
    <3>1. CASE Edit(s)
      <4>1. PICK c : stored' = [stored EXCEPT ![Primary] = c]
        BY <3>1, Zenon DEF Edit
      <4>q. QED
        BY <4>1, SyncAssumption DEF TypeOK
    <3>2. CASE ~Edit(s)
      <4>1. UNCHANGED stored
        BY <2>3, <3>2, ForgetsEffect, Zenon
        DEF PageStep, Forgets, Load, AskMd5, Post, PostFails, Finish
      <4>q. QED
        BY <4>1
    <3>q. QED
      BY <3>1, <3>2
  <2>4. ASSUME NEW s \in Pages, NEW p \in Peers, ReqStep(s, p), ~ReqWrite(s, p)
        PROVE  UNCHANGED stored
    BY <2>4, Zenon DEF ReqStep, ReqLoad, ReqApply, ReqFail, ReqEnd
  <2>5. ASSUME NEW p \in Peers, PeerReboot(p) PROVE UNCHANGED stored
    BY <2>5, Zenon DEF PeerReboot
  <2> HIDE DEF Kept
  <2>q. QED
    BY <2>1, <2>2, <2>3, <2>4, <2>5 DEF Next
<1>q. QED
  BY <1>1, SyncTypeInit, SyncTypeStep, PeerInit, PeerStep, PTL DEF Spec, OtherAreasKept
-----------------------------------------------------------------------------
(* At the primary. *)

LEMMA PushInit == Init => SoloExcludes /\ PushInv
<1> SUFFICES ASSUME Init PROVE SoloExcludes /\ PushInv
  OBVIOUS
<1>1. \A s \in Pages : pc[s] = "idle" /\ \A p \in Peers : req[s][p].pc = "none"
  BY NoRequestType DEF Init
<1>2. \A s \in Pages : ~Busy(s) /\ ~Pushing(s)
  BY <1>1 DEF Busy, Pushing
<1>q. QED
  BY <1>1, <1>2 DEF SoloExcludes, PushInv, Left, Carries, Pushed, Unanswered

\* Only a page that is pushing gets a request, at the host it is at.
LEMMA NoNewRequests ==
  ASSUME TypeOK, [Next]_vars, NEW t \in Pages, NEW q \in Peers,
         Unanswered(t, q)', ~Unanswered(t, q)
  PROVE  (Post(t) \/ AskMd5(t)) /\ q = Peer(t)
<1>1. ASSUME NEW s \in Pages, PageStep(s) PROVE (Post(t) \/ AskMd5(t)) /\ q = Peer(t)
  <2>1. CASE Post(s)
    <3>1. t = s /\ q = Peer(s)
      BY <2>1, PostEffect DEF Unanswered
    <3>q. QED
      BY <2>1, <3>1
  <2>2. CASE AskMd5(s)
    <3>1. t = s /\ q = Peer(s)
      BY <2>2, AskEffect DEF Unanswered
    <3>q. QED
      BY <2>2, <3>1
  <2>3. CASE Forgets(s)
    <3>1. req'[t][q] = req[t][q] \/ req'[t][q].pc = "none"
      BY <2>3, ForgetsEffect
    <3>q. QED
      BY <3>1 DEF Unanswered
  <2>4. CASE Load(s) \/ Edit(s) \/ PostFails(s) \/ Finish(s)
    <3>1. UNCHANGED req
      BY <2>4, Zenon DEF Load, Edit, PostFails, Finish
    <3>q. QED
      BY <3>1 DEF Unanswered
  <2>q. QED
    BY <1>1, <2>1, <2>2, <2>3, <2>4 DEF PageStep, Forgets
<1>2. ASSUME NEW s \in Pages, NEW p \in Peers, ReqStep(s, p) PROVE FALSE
  <2>1. CASE ReqLoad(s, p)
    BY <2>1, ReqLoadEffect DEF Unanswered
  <2>2. CASE \E from \in {"load", "write", "apply"}, to \in {"apply", "reply", "failed"} :
               Serve(s, p, from, to)
    BY <2>2, ServeEffect DEF Unanswered
  <2>3. CASE ReqEnd(s, p)
    <3>1. req'[t][q] = req[t][q] \/ req'[t][q].pc = "none"
      BY <2>3, ForgetEffect, ZenonT(60) DEF ReqEnd
    <3>q. QED
      BY <3>1 DEF Unanswered
  <2>q. QED
    BY <1>2, <2>1, <2>2, <2>3 DEF ReqStep, ReqWrite, ReqApply, ReqFail
<1>3. ASSUME NEW p \in Peers, PeerReboot(p) PROVE FALSE
  <2>1. req'[t][q] = req[t][q] \/ req'[t][q].pc = "none"
    BY <1>3, NoRequestType DEF PeerReboot, TypeOK
  <2>q. QED
    BY <2>1 DEF Unanswered
<1>4. CASE UNCHANGED vars
  BY <1>4 DEF vars, Unanswered
<1>q. QED
  BY <1>1, <1>2, <1>3, <1>4 DEF Next

\* Loading is the only step by which a page becomes busy, or ceases to be solo.
LEMMA BusyByLoad ==
  ASSUME TypeOK, [Next]_vars, \A s \in Pages : ~Load(s)
  PROVE  UNCHANGED solo /\ \A t \in Pages : Busy(t)' => Busy(t)
<1>1. ASSUME NEW s \in Pages, PageStep(s)
      PROVE  /\ pc[s] # "idle" /\ UNCHANGED solo
             /\ UNCHANGED pc \/ \E c : pc' = [pc EXCEPT ![s] = c]
  BY <1>1, Zenon DEF PageStep, Edit, AskMd5, NoMd5, GetMd5, Post, PostFails, Success, Failure,
                     Answered, Finish, Advance
<1>2. ASSUME NEW s \in Pages, NEW p \in Peers, ReqStep(s, p) PROVE UNCHANGED <<pc, solo>>
  BY <1>2, Zenon DEF ReqStep, ReqLoad, ReqWrite, ReqApply, ReqFail, ReqEnd, Serve, pageVars
<1>3. ASSUME NEW p \in Peers, PeerReboot(p) PROVE UNCHANGED <<pc, solo>>
  BY <1>3, Zenon DEF PeerReboot, pageVars
<1>4. UNCHANGED vars => UNCHANGED <<pc, solo>>
  BY DEF vars, pageVars
<1>5. UNCHANGED solo
  BY <1>1, <1>2, <1>3, <1>4, Zenon DEF Next
<1>6. ASSUME NEW t \in Pages, pc[t] = "idle" PROVE pc'[t] = "idle"
  <2>1. ASSUME NEW s \in Pages, PageStep(s) PROVE pc'[t] = "idle"
    BY <1>1, <1>6, <2>1 DEF TypeOK
  <2>2. CASE UNCHANGED pc
    BY <1>6, <2>2
  <2>q. QED
    BY <1>2, <1>3, <1>4, <2>1, <2>2 DEF Next
<1>7. ASSUME NEW t \in Pages, Busy(t)' PROVE Busy(t)
  <2>1. CASE \E q \in Peers : Unanswered(t, q)' /\ ~Unanswered(t, q)
    <3>1. Post(t) \/ AskMd5(t)
      BY <2>1, NoNewRequests
    <3>q. QED
      BY <3>1 DEF Post, AskMd5, Busy
  <2>2. CASE \A q \in Peers : Unanswered(t, q)' => Unanswered(t, q)
    BY <1>6, <1>7, <2>2 DEF Busy, Unanswered
  <2>q. QED
    BY <2>1, <2>2
<1>q. QED
  BY <1>5, <1>7

LEMMA SoloStep == TypeOK /\ SoloExcludes /\ [Next]_vars => SoloExcludes'
<1> SUFFICES ASSUME TypeOK, SoloExcludes, [Next]_vars,
                    NEW s \in Pages, NEW t \in Pages, t # s, solo'[s], Busy(s)'
             PROVE  ~Busy(t)'
  BY Zenon DEF SoloExcludes
<1>1. CASE \A u \in Pages : ~Load(u)
  BY <1>1, BusyByLoad, Zenon DEF SoloExcludes
<1>2. ASSUME NEW u \in Pages, Load(u) PROVE ~Busy(t)'
  <2>1. \A v \in Pages \ {u} : Busy(v)' <=> Busy(v)
    <3>1. UNCHANGED req /\ pc' = [pc EXCEPT ![u] = "edit"]
      BY <1>2 DEF Load
    <3>q. QED
      BY <3>1 DEF Busy, TypeOK
  <2>2. solo'[s] = IF s = u THEN \A v \in Pages \ {u} : ~Busy(v) ELSE solo[s] /\ ~Busy(s)
    BY <1>2, Zenon DEF Load
  <2>3. CASE s = u
    BY <2>1, <2>2, <2>3, Zenon
  <2>4. CASE s # u
    BY <2>1, <2>2, <2>4, Zenon
  <2>q. QED
    BY <2>3, <2>4
<1>q. QED
  BY <1>1, <1>2

\* What the peers hold out of its place stays within Lifted: a request puts back what it
\* has loaded, and its own area where that area goes.
LEMMA PlaceInit == Init => PlaceInv
<1> SUFFICES ASSUME Init PROVE PlaceInv
  OBVIOUS
<1>1. \A p \in Peers : stored[p] \in [Areas -> {InPlace(v) : v \in Values}]
  BY DEF Init
<1>2. \A p \in Peers : UpIsLifted(stored[p])
  BY <1>1 DEF UpIsLifted, InPlace
<1>3. \A s \in Pages, p \in Peers : req[s][p].pc = "none"
  BY NoRequestType DEF Init
<1>q. QED
  BY <1>2, <1>3 DEF PlaceInv

LEMMA PlaceStep == TypeOK /\ PlaceInv /\ [Next]_vars => PlaceInv'
<1> SUFFICES ASSUME TypeOK, PlaceInv, [Next]_vars PROVE PlaceInv'
  OBVIOUS
\* No request gets to its write.
<1>1. ASSUME \A p \in Peers : stored'[p] = stored[p],
             \A t \in Pages, q \in Peers :
                \/ req'[t][q].pc = req[t][q].pc /\ req'[t][q].view = req[t][q].view
                \/ req'[t][q].pc # "write"
      PROVE  PlaceInv'
  <2>1. \A p \in Peers : UpIsLifted(stored[p])'
    <3>1. \A p \in Peers : UpIsLifted(stored[p])
      BY DEF PlaceInv
    <3>q. QED
      BY <1>1, <3>1 DEF UpIsLifted
  <2>2. ASSUME NEW t \in Pages, NEW q \in Peers, req'[t][q].pc = "write"
        PROVE  UpIsLifted(req[t][q].view)'
    <3>1. req[t][q].pc = "write" /\ req'[t][q].view = req[t][q].view
      BY <1>1, <2>2
    <3>2. UpIsLifted(req[t][q].view)
      BY <3>1 DEF PlaceInv
    <3>q. QED
      BY <3>1, <3>2 DEF UpIsLifted
  <2>q. QED
    BY <2>1, <2>2 DEF PlaceInv
<1>2. ASSUME NEW s \in Pages, PageStep(s) PROVE PlaceInv'
  <2>1. \A p \in Peers : stored'[p] = stored[p]
    <3>1. CASE Edit(s)
      <4>1. PICK c : stored' = [stored EXCEPT ![Primary] = c]
        BY <3>1, Zenon DEF Edit
      <4>q. QED
        BY <4>1, SyncAssumption DEF TypeOK
    <3>2. CASE ~Edit(s)
      <4>1. UNCHANGED stored
        BY <1>2, <3>2, ForgetsEffect, Zenon
        DEF PageStep, Forgets, Load, AskMd5, Post, PostFails, Finish
      <4>q. QED
        BY <4>1
    <3>q. QED
      BY <3>1, <3>2
  <2>2. CASE Post(s)
    BY <1>1, <2>1, <2>2, PostEffect
  <2>3. CASE AskMd5(s)
    BY <1>1, <2>1, <2>3, AskEffect
  <2>4. CASE Forgets(s)
    BY <1>1, <2>1, <2>4, ForgetsEffect
  <2>5. CASE Load(s) \/ Edit(s) \/ PostFails(s) \/ Finish(s)
    <3>1. UNCHANGED req
      BY <2>5, Zenon DEF Load, Edit, PostFails, Finish
    <3>q. QED
      BY <1>1, <2>1, <3>1
  <2>q. QED
    BY <1>2, <2>2, <2>3, <2>4, <2>5 DEF PageStep, Forgets
<1>3. ASSUME NEW s \in Pages, NEW p \in Peers, ReqStep(s, p) PROVE PlaceInv'
  <2>1. CASE ReqLoad(s, p)
    <3>1. UNCHANGED stored
      BY <2>1, Zenon DEF ReqLoad
    <3>2. \A q \in Peers : UpIsLifted(stored[q])
      BY DEF PlaceInv
    <3>3. \A q \in Peers : UpIsLifted(stored[q])'
      BY <3>1, <3>2 DEF UpIsLifted
    <3>4. ASSUME NEW t \in Pages, NEW q \in Peers, req'[t][q].pc = "write"
          PROVE  UpIsLifted(req[t][q].view)'
      <4>1. CASE t = s /\ q = p
        <5>1. req'[t][q].view = stored[q]
          BY <2>1, <4>1, ReqLoadEffect
        <5>q. QED
          BY <3>2, <5>1 DEF UpIsLifted
      <4>2. CASE t # s \/ q # p
        <5>1. req'[t][q] = req[t][q]
          BY <2>1, <4>2, ReqLoadEffect
        <5>2. UpIsLifted(req[t][q].view)
          BY <3>4, <5>1 DEF PlaceInv
        <5>q. QED
          BY <5>1, <5>2 DEF UpIsLifted
      <4>q. QED
        BY <4>1, <4>2
    <3>q. QED
      BY <3>3, <3>4 DEF PlaceInv
  <2>2. CASE ReqWrite(s, p)
    <3>1. Serve(s, p, "write", "apply")
      BY <2>2 DEF ReqWrite
    <3>2. PICK c : c = [value |-> req[s][p].value, up |-> req[s][p].area \in Lifted]
      OBVIOUS
    <3>3. PICK d : d = [req[s][p].view EXCEPT ![req[s][p].area] = c]
      OBVIOUS
    <3>4. stored' = [stored EXCEPT ![p] = d]
      BY <2>2, <3>2, <3>3, Zenon DEF ReqWrite
    <3>5. UpIsLifted(d)
      <4>1. UpIsLifted(req[s][p].view) /\ req[s][p].view \in Config /\ req[s][p].area \in Areas
        BY <3>1 DEF PlaceInv, Serve, TypeOK, Request
      <4>2. c.up => req[s][p].area \in Lifted
        BY <3>2, Zenon
      <4>q. QED
        BY <3>3, <4>1, <4>2 DEF UpIsLifted, Config
    <3>6. \A q \in Peers : UpIsLifted(stored[q])'
      <4>1. stored'[p] = d /\ \A q \in Peers : q # p => stored'[q] = stored[q]
        BY <3>4 DEF TypeOK
      <4>2. \A q \in Peers : UpIsLifted(stored[q])
        BY DEF PlaceInv
      <4>q. QED
        BY <3>5, <4>1, <4>2 DEF UpIsLifted
    <3>7. ASSUME NEW t \in Pages, NEW q \in Peers, req'[t][q].pc = "write"
          PROVE  UpIsLifted(req[t][q].view)'
      <4>1. req'[t][q] = req[t][q]
        BY <3>1, <3>7, ServeEffect
      <4>2. UpIsLifted(req[t][q].view)
        BY <3>7, <4>1 DEF PlaceInv
      <4>q. QED
        BY <4>1, <4>2 DEF UpIsLifted
    <3>q. QED
      BY <3>6, <3>7 DEF PlaceInv
  <2>3. CASE ReqApply(s, p) \/ ReqFail(s, p)
    <3>1. /\ UNCHANGED stored
          /\ \/ Serve(s, p, "apply", "reply")
             \/ \E from \in {"load", "write", "apply"} : Serve(s, p, from, "failed")
      BY <2>3, Zenon DEF ReqApply, ReqFail
    <3>2. /\ req'[s][p].pc # "write"
          /\ \A t \in Pages, q \in Peers : t # s \/ q # p => req'[t][q] = req[t][q]
      BY <3>1, ServeEffect
    <3>q. QED
      BY <1>1, <3>1, <3>2
  <2>4. CASE ReqEnd(s, p)
    <3>1. UNCHANGED stored
      BY <2>4 DEF ReqEnd
    <3>2. /\ req'[s][p].pc # "write"
          /\ \A t \in Pages, q \in Peers : t # s \/ q # p => req'[t][q] = req[t][q]
      BY <2>4, ForgetEffect DEF ReqEnd
    <3>q. QED
      BY <1>1, <3>1, <3>2
  <2>q. QED
    BY <1>3, <2>1, <2>2, <2>3, <2>4 DEF ReqStep
<1>4. ASSUME NEW p \in Peers, PeerReboot(p) PROVE PlaceInv'
  <2>1. /\ \A t \in Pages : req'[t][p].pc = "none"
        /\ \A t \in Pages, q \in Peers : q # p => req'[t][q] = req[t][q]
        /\ UNCHANGED stored
    BY <1>4, NoRequestType DEF PeerReboot, TypeOK
  <2>q. QED
    BY <1>1, <2>1
<1>5. CASE UNCHANGED vars
  BY <1>1, <1>5 DEF vars
<1>q. QED
  BY <1>2, <1>3, <1>4, <1>5 DEF Next

PagePushes(s) == Left(s) /\ Carries(s) /\ (solo[s] => Pushed(s))

\* The steps of others leave a page's push as it is: where one of them stores something,
\* the page is not solo.
LEMMA PushBeside ==
  ASSUME TypeOK, PlaceInList, NEW s \in Pages, PagePushes(s),
         pc'[s] = pc[s], area'[s] = area[s], sent'[s] = sent[s], at'[s] = at[s],
         failed'[s] = failed[s],
         solo'[s] => solo[s],
         solo'[s] /\ pc[s] # "idle" => UNCHANGED stored,
         \A q \in Peers : \/ ~Unanswered(s, q)'
                          \/ /\ req'[s][q].pc = req[s][q].pc
                             /\ req'[s][q].area = req[s][q].area
                             /\ req'[s][q].value = req[s][q].value
  PROVE  PagePushes(s)'
<1>1. pc[s] = "wait" => Peer(s) \in Peers
  BY AtPeer
<1>2. Peer(s)' = Peer(s) /\ (Pushing(s)' <=> Pushing(s))
  BY DEF Peer, Pushing
<1>3. Left(s)'
  <2> SUFFICES ASSUME NEW q \in Peers, Unanswered(s, q)'
               PROVE  /\ pc'[s] # "edit"
                      /\ Pushing(s) => \/ q \in failed'[s]
                                       \/ pc'[s] = "wait" /\ q = Peer(s)
                                       \/ pc'[s] = "md5" /\ q = Peer(s) /\ ~Changing(s, q)'
    BY <1>2, Zenon DEF Left
  <2>1. Unanswered(s, q) /\ (Changing(s, q)' <=> Changing(s, q))
    BY DEF Unanswered, Changing
  <2>q. QED
    BY <2>1, Zenon DEF Left, PagePushes
<1>4. Carries(s)'
  <2> SUFFICES ASSUME pc'[s] = "wait", Unanswered(s, Peer(s))'
               PROVE  /\ req'[s][Peer(s)].area = area'[s]
                      /\ req'[s][Peer(s)].value = sent'[s]
    BY <1>2 DEF Carries, Unanswered
  <2>q. QED
    BY <1>1, <1>2 DEF Carries, PagePushes, Unanswered
<1>5. ASSUME solo'[s] PROVE Pushed(s)'
  <2> SUFFICES ASSUME Pushing(s)
               PROVE  /\ stored'[Primary][area'[s]] = InPlace(sent'[s])
                      /\ area'[s] \notin Lifted =>
                           /\ \A i \in DOMAIN Hosts : i < at'[s] /\ Hosts[i] \notin failed'[s] =>
                                stored'[Hosts[i]][area'[s]] = InPlace(sent'[s])
                           /\ pc'[s] = "wait" /\ req'[s][Peer(s)].pc \in {"apply", "reply"} =>
                                stored'[Peer(s)][area'[s]] = InPlace(sent'[s])
    BY <1>2 DEF Pushed, InPlace
  <2>1. UNCHANGED stored /\ Pushed(s)
    BY <1>5, Zenon DEF PagePushes, Pushing
  <2>2. pc'[s] = "wait" /\ req'[s][Peer(s)].pc \in {"apply", "reply"} =>
          req[s][Peer(s)].pc \in {"apply", "reply"}
    BY <1>1 DEF Unanswered
  <2>q. QED
    BY <2>1, <2>2 DEF Pushed
<1>q. QED
  BY <1>3, <1>4, <1>5 DEF PagePushes

\* On to the next host of the list, from a host that holds what is pushed or is given up.
LEMMA PushAdvances ==
  ASSUME TypeOK, PlaceInList, NEW s \in Pages, PagePushes(s),
         pc[s] \in {"get", "md5", "post", "wait"}, NEW miss \in SUBSET {Peer(s)},
         Advance(s, miss), UNCHANGED <<stored, area, sent, solo>>,
         \A q \in Peers : Unanswered(s, q)' => Unanswered(s, q),
         pc[s] \in {"md5", "wait"} /\ req'[s][Peer(s)].pc # "none" => Peer(s) \in miss,
         solo[s] /\ area[s] \notin Lifted /\ Peer(s) \notin miss =>
            stored[Peer(s)][area[s]] = InPlace(sent[s])
  PROVE  PagePushes(s)'
<1>1. at[s] \in DOMAIN Hosts /\ Peer(s) \in Peers /\ Pushing(s)
  BY HostList DEF TypeOK, Peer, Pushing
<1>2. /\ pc'[s] \in {"get", "end"} /\ at'[s] = at[s] + 1
      /\ failed'[s] = failed[s] \cup miss
  BY DEF Advance, TypeOK
<1>4. Left(s)'
  <2> SUFFICES ASSUME NEW q \in Peers, Unanswered(s, q)'
               PROVE  pc'[s] # "edit" /\ q \in failed'[s]
    BY Zenon DEF Left
  <2>1. Unanswered(s, q)
    OBVIOUS
  <2>2. q \in failed[s] \/ (pc[s] \in {"md5", "wait"} /\ q = Peer(s))
    BY <1>1, <2>1 DEF Left, PagePushes
  <2>q. QED
    BY <1>2, <2>2 DEF Unanswered
<1>5. Carries(s)'
  BY <1>2 DEF Carries
<1>6. ASSUME solo'[s] PROVE Pushed(s)'
  <2>1. Pushed(s)
    BY <1>6, Zenon DEF PagePushes
  <2>2. ASSUME area[s] \notin Lifted,
               NEW i \in DOMAIN Hosts, i < at[s] + 1, Hosts[i] \notin failed[s] \cup miss
        PROVE  stored[Hosts[i]][area[s]] = InPlace(sent[s])
    <3>1. CASE i < at[s]
      BY <1>1, <2>1, <2>2, <3>1 DEF Pushed
    <3>2. CASE i = at[s]
      BY <1>6, <2>2, <3>2 DEF Peer
    <3>q. QED
      BY <1>1, <2>2, <3>1, <3>2, HostList
  <2>q. QED
    BY <1>1, <1>2, <2>1, <2>2 DEF Pushed, InPlace
<1>q. QED
  BY <1>4, <1>5, <1>6 DEF PagePushes

\* The md5 is equal only where the host holds what is pushed, in its place, unless the
\* area is one that is stored out of it.
LEMMA EqualMd5 ==
  ASSUME TypeOK, PlaceInv, NEW s \in Pages, Peer(s) \in Peers, SameMd5(s),
         area[s] \notin Lifted
  PROVE  stored[Peer(s)][area[s]] = InPlace(sent[s])
<1>1. /\ stored[Peer(s)][area[s]] = [value |-> sent[s], up |-> area[s] \in Around]
      /\ area[s] \in Areas
  BY DEF SameMd5, TypeOK
<1>2. PICK u : u = (area[s] \in Around)
  OBVIOUS
<1>3. stored[Peer(s)][area[s]] = [value |-> sent[s], up |-> u]
  BY <1>1, <1>2, Zenon
<1>4. ~stored[Peer(s)][area[s]].up
  BY <1>1, Zenon DEF PlaceInv, UpIsLifted
<1>5. ~u
  <2>1. [value |-> sent[s], up |-> u].up = u
    OBVIOUS
  <2>q. QED
    BY <1>3, <1>4, <2>1, Zenon
<1>6. u = FALSE
  BY <1>2, <1>5
<1>q. QED
  BY <1>3, <1>6, Zenon DEF InPlace

LEMMA PageStepPushes ==
  ASSUME TypeOK, PlaceInList, PlaceInv, NEW s \in Pages, PagePushes(s), PageStep(s)
  PROVE  PagePushes(s)'
<1>1. CASE Load(s)
  <2>1. /\ pc'[s] = "edit" /\ UNCHANGED req
        /\ \A p \in Peers : ~Unanswered(s, p)
    BY <1>1 DEF Load, Busy, Unanswered, TypeOK
  <2>q. QED
    BY <2>1 DEF PagePushes, Left, Carries, Pushed, Pushing, Unanswered
<1>2. CASE Edit(s)
  <2>1. PICK a \in Areas, v \in Values :
          /\ area' = [area EXCEPT ![s] = a]
          /\ sent' = [sent EXCEPT ![s] = v]
          /\ stored' = [stored EXCEPT ![Primary] = [view[s] EXCEPT ![a] = InPlace(v)]]
    BY <1>2 DEF Edit
  <2>2. /\ UNCHANGED <<at, failed, req>> /\ pc[s] = "edit"
        /\ pc'[s] \in {"get", "end"}
        /\ Hosts # <<>> => pc'[s] = "get"
    BY <1>2 DEF Edit, TypeOK
  <2>3. stored'[Primary][area'[s]] = InPlace(sent'[s])
    <3>1. PICK c : c = [view[s] EXCEPT ![a] = InPlace(v)]
      OBVIOUS
    <3>2. c[a] = InPlace(v)
      BY <2>2, <3>1 DEF TypeOK, Config
    <3>3. stored' = [stored EXCEPT ![Primary] = c]
      BY <2>1, <3>1, Zenon
    <3>q. QED
      BY <2>1, <3>2, <3>3 DEF TypeOK
  <2>4. /\ \A p \in Peers : ~Unanswered(s, p)'
        /\ at'[s] = 1
    BY <2>2 DEF PagePushes, Left, Unanswered, PlaceInList
  <2>5. Left(s)' /\ Carries(s)'
    BY <2>2, <2>4 DEF Left, Carries
  <2>6. Pushed(s)'
    BY <2>2, <2>3, <2>4, HostList DEF Pushed, InPlace
  <2>q. QED
    BY <2>5, <2>6 DEF PagePushes
<1>3. CASE AskMd5(s)
  <2>1. /\ pc[s] = "get" /\ pc'[s] = "md5"
        /\ UNCHANGED <<stored, area, sent, at, failed, solo>>
    BY <1>3 DEF AskMd5, TypeOK
  <2>2. Peer(s)' = Peer(s) /\ Pushing(s) /\ Peer(s) \in Peers
    BY <2>1, AtPeer DEF Peer, Pushing
  <2>3. Left(s)'
    <3> SUFFICES ASSUME NEW q \in Peers, Unanswered(s, q)'
                 PROVE  q \in failed[s] \/ (q = Peer(s) /\ ~Changing(s, q)')
      BY <2>1, <2>2 DEF Left
    <3>1. CASE q # Peer(s)
      <4>1. Unanswered(s, q)
        BY <1>3, <3>1, AskEffect DEF Unanswered
      <4>q. QED
        BY <2>1, <2>2, <3>1, <4>1 DEF PagePushes, Left
    <3>2. CASE q = Peer(s)
      BY <1>3, <3>2, AskEffect DEF Changing
    <3>q. QED
      BY <3>1, <3>2
  <2>4. Carries(s)'
    BY <2>1 DEF Carries
  <2>5. ASSUME solo'[s] PROVE Pushed(s)'
    <3>1. Pushed(s)
      BY <2>1, <2>5, Zenon DEF PagePushes
    <3>q. QED
      BY <2>1, <2>2, <3>1 DEF Pushed, InPlace
  <2>q. QED
    BY <2>3, <2>4, <2>5 DEF PagePushes
<1>4. CASE Forgets(s)
  <2>1. PICK p \in Peers : p = Peer(s)
    BY <1>4, ForgetsEffect
  <2>2. /\ \A q \in Peers : q # p => req'[s][q] = req[s][q]
        /\ req'[s][p].pc = "none"
        /\ UNCHANGED <<stored, area, sent, solo>>
    BY <1>4, <2>1, ForgetsEffect
  <2>3. \A q \in Peers : Unanswered(s, q)' => Unanswered(s, q) /\ q # p
    BY <2>2 DEF Unanswered
  <2>4. /\ pc[s] \in {"get", "md5", "wait"}
        /\ \/ Advance(s, {Peer(s)})
           \/ Advance(s, {}) /\ (SameMd5(s) \/ (pc[s] = "wait" /\ req[s][Peer(s)].pc = "reply"))
           \/ pc[s] = "md5" /\ pc' = [pc EXCEPT ![s] = "post"] /\ UNCHANGED <<at, failed>>
    BY <1>4, Zenon DEF Forgets, NoMd5, GetMd5, Success, Failure, Answered
  <2>5. CASE Advance(s, {Peer(s)})
    BY <2>1, <2>2, <2>3, <2>4, <2>5, PushAdvances
  <2>6. CASE Advance(s, {}) /\ (SameMd5(s) \/ (pc[s] = "wait" /\ req[s][Peer(s)].pc = "reply"))
    <3>1. ASSUME solo[s], area[s] \notin Lifted
          PROVE  stored[Peer(s)][area[s]] = InPlace(sent[s])
      <4>1. CASE SameMd5(s)
        BY <2>1, <3>1, <4>1, EqualMd5
      <4>2. CASE pc[s] = "wait" /\ req[s][Peer(s)].pc = "reply"
        <5>1. Pushed(s)
          BY <3>1, Zenon DEF PagePushes
        <5>q. QED
          BY <3>1, <4>2, <5>1 DEF Pushed, Pushing
      <4>q. QED
        BY <2>6, <4>1, <4>2
    <3>q. QED
      BY <2>1, <2>2, <2>3, <2>4, <2>6, <3>1, PushAdvances
  <2>7. CASE pc[s] = "md5" /\ pc' = [pc EXCEPT ![s] = "post"] /\ UNCHANGED <<at, failed>>
    <3>1. pc'[s] = "post" /\ Pushing(s)
      BY <2>7 DEF TypeOK, Pushing
    <3>2. \A q \in Peers : Unanswered(s, q)' => q \in failed'[s]
      BY <2>1, <2>3, <2>7, <3>1 DEF PagePushes, Left
    <3>3. Left(s)' /\ Carries(s)'
      BY <3>1, <3>2 DEF Left, Carries
    <3>4. ASSUME solo'[s] PROVE Pushed(s)'
      <4>1. Pushed(s)
        BY <2>2, <3>4, Zenon DEF PagePushes
      <4>q. QED
        BY <2>2, <2>7, <3>1, <4>1 DEF Pushed, InPlace
    <3>q. QED
      BY <3>3, <3>4 DEF PagePushes
  <2>q. QED
    BY <2>4, <2>5, <2>6, <2>7
<1>5. CASE Post(s)
  <2>1. /\ pc[s] = "post" /\ pc'[s] = "wait"
        /\ UNCHANGED <<stored, area, sent, at, failed, solo>>
    BY <1>5 DEF Post, TypeOK
  <2>2. Peer(s)' = Peer(s) /\ Pushing(s)
    BY <2>1 DEF Peer, Pushing
  <2>3. Left(s)'
    <3> SUFFICES ASSUME NEW q \in Peers, Unanswered(s, q)'
                 PROVE  q \in failed[s] \/ q = Peer(s)
      BY <2>1, <2>2 DEF Left, Unanswered
    <3>1. CASE q # Peer(s)
      <4>1. Unanswered(s, q)
        BY <1>5, <3>1, PostEffect DEF Unanswered
      <4>q. QED
        BY <2>1, <2>2, <4>1 DEF PagePushes, Left
    <3>q. QED
      BY <3>1
  <2>4. Carries(s)'
    BY <1>5, <2>1, <2>2, PostEffect DEF Carries
  <2>5. ASSUME solo'[s] PROVE Pushed(s)'
    <3>1. Pushed(s)
      BY <2>1, <2>5, Zenon DEF PagePushes
    <3>2. req'[s][Peer(s)].pc = "load"
      BY <1>5, PostEffect
    <3>q. QED
      BY <2>1, <2>2, <3>1, <3>2 DEF Pushed, InPlace
  <2>q. QED
    BY <2>3, <2>4, <2>5 DEF PagePushes
<1>6. CASE PostFails(s)
  BY <1>6, PushAdvances DEF PostFails, Unanswered
<1>8. CASE Finish(s)
  <2>1. pc'[s] = "idle"
    BY <1>8 DEF Finish, TypeOK
  <2>q. QED
    BY <2>1 DEF PagePushes, Left, Carries, Pushed, Pushing
<1>q. QED
  BY <1>1, <1>2, <1>3, <1>4, <1>5, <1>6, <1>8 DEF PageStep, Forgets

LEMMA ReqStepPushes ==
  ASSUME TypeOK, PlaceInList, NEW s \in Pages, PagePushes(s), NEW p \in Peers, ReqStep(s, p)
  PROVE  PagePushes(s)'
<1>0. UNCHANGED pageVars
  BY Zenon DEF ReqStep, ReqLoad, ReqWrite, ReqApply, ReqFail, ReqEnd, Serve
<1>1. /\ Peer(s)' = Peer(s) /\ (Pushing(s)' <=> Pushing(s))
      /\ UNCHANGED <<pc, area, sent, at, failed, solo>>
  BY <1>0 DEF Peer, Pushing, pageVars
<1>2. ASSUME \A q \in Peers : \/ ~Unanswered(s, q)'
                              \/ /\ Unanswered(s, q)
                                 /\ Changing(s, q)' => Changing(s, q)
                                 /\ req'[s][q].area = req[s][q].area
                                 /\ req'[s][q].value = req[s][q].value
      PROVE  Left(s)' /\ Carries(s)'
  <2>1. Left(s)'
    <3> SUFFICES ASSUME NEW q \in Peers, Unanswered(s, q)'
                 PROVE  /\ pc'[s] # "edit"
                        /\ Pushing(s) => \/ q \in failed'[s]
                                         \/ pc'[s] = "wait" /\ q = Peer(s)
                                         \/ pc'[s] = "md5" /\ q = Peer(s) /\ ~Changing(s, q)'
      BY <1>1, Zenon DEF Left
    <3>1. Unanswered(s, q) /\ (Changing(s, q)' => Changing(s, q))
      BY <1>2, Zenon
    <3>q. QED
      BY <1>1, <3>1, Zenon DEF Left, PagePushes
  <2>2. pc[s] = "wait" => Peer(s) \in Peers
    BY AtPeer
  <2>3. Carries(s)'
    <3> SUFFICES ASSUME pc'[s] = "wait", Unanswered(s, Peer(s))'
                 PROVE  /\ req'[s][Peer(s)].area = area'[s]
                        /\ req'[s][Peer(s)].value = sent'[s]
      BY <1>1 DEF Carries, Unanswered
    <3>q. QED
      BY <1>1, <1>2, <2>2 DEF Carries, PagePushes
  <2>q. QED
    BY <2>1, <2>3
<1>3. CASE ReqLoad(s, p) \/ ReqApply(s, p) \/ ReqFail(s, p)
  <2>1. UNCHANGED stored
    BY <1>3, Zenon DEF ReqLoad, ReqApply, ReqFail
  <2>2. /\ \A q \in Peers : /\ req'[s][q].area = req[s][q].area
                            /\ req'[s][q].value = req[s][q].value
        /\ Changing(s, p)
        /\ \A q \in Peers : q # p => req'[s][q].pc = req[s][q].pc
        /\ req'[s][p].pc \in {"apply", "reply"} => req[s][p].pc \in {"apply", "reply"}
    <3>1. CASE ReqLoad(s, p)
      BY <3>1, ReqLoadEffect DEF Changing
    <3>2. CASE ReqApply(s, p)
      BY <3>2, ServeEffect, SMTT(60) DEF ReqApply, Changing
    <3>3. CASE ReqFail(s, p)
      BY <3>3, ServeEffect DEF ReqFail, Changing
    <3>q. QED
      BY <1>3, <3>1, <3>2, <3>3
  <2>3. Left(s)' /\ Carries(s)'
    BY <1>2, <2>2 DEF Unanswered, Changing
  <2>4. ASSUME solo'[s] PROVE Pushed(s)'
    <3>1. Pushed(s)
      BY <1>1, <2>4, Zenon DEF PagePushes
    <3>2. pc[s] = "wait" => Peer(s) \in Peers
      BY AtPeer
    <3>q. QED
      BY <1>1, <2>1, <2>2, <3>1, <3>2 DEF Pushed, InPlace
  <2>q. QED
    BY <2>3, <2>4 DEF PagePushes
<1>4. CASE ReqWrite(s, p)
  <2>1. /\ req[s][p].pc = "write" /\ req'[s][p].pc = "apply"
        /\ \A q \in Peers : /\ req'[s][q].area = req[s][q].area
                            /\ req'[s][q].value = req[s][q].value
        /\ \A q \in Peers : q # p => req'[s][q].pc = req[s][q].pc
    BY <1>4, ServeEffect DEF ReqWrite
  <2>2. /\ \A q \in Peers \cup {Primary} : q # p => stored'[q] = stored[q]
        /\ req[s][p].area \notin Lifted =>
              stored'[p][req[s][p].area] = InPlace(req[s][p].value)
    <3>1. PICK c : c = [value |-> req[s][p].value, up |-> req[s][p].area \in Lifted]
      OBVIOUS
    <3>2. PICK d : d = [req[s][p].view EXCEPT ![req[s][p].area] = c]
      OBVIOUS
    <3>3. stored' = [stored EXCEPT ![p] = d]
      BY <1>4, <3>1, <3>2, Zenon DEF ReqWrite
    <3>4. d[req[s][p].area] = c
      BY <3>2 DEF TypeOK, Request, Config
    <3>5. stored'[p] = d /\ \A q \in Peers \cup {Primary} : q # p => stored'[q] = stored[q]
      BY <3>3 DEF TypeOK
    <3>6. ASSUME req[s][p].area \notin Lifted PROVE c = InPlace(req[s][p].value)
      <4>1. PICK u : u = (req[s][p].area \in Lifted)
        OBVIOUS
      <4>2. c = [value |-> req[s][p].value, up |-> u]
        BY <3>1, <4>1, Zenon
      <4>3. ~u
        BY <3>6, <4>1, Zenon
      <4>4. u = FALSE
        BY <4>1, <4>3
      <4>q. QED
        BY <4>2, <4>4, Zenon DEF InPlace
    <3>q. QED
      BY <3>4, <3>5, <3>6, Zenon
  <2>3. Left(s)' /\ Carries(s)'
    BY <1>2, <2>1 DEF Unanswered, Changing
  <2>4. ASSUME solo'[s], Pushing(s) PROVE Pushed(s)'
    <3>1. Pushed(s) /\ Carries(s)
      BY <1>1, <2>4, Zenon DEF PagePushes
    <3>2. p \in failed[s] \/ (pc[s] = "wait" /\ p = Peer(s))
      BY <2>1, <2>4 DEF PagePushes, Left, Unanswered, Changing
    <3>3. stored'[Primary] = stored[Primary]
      BY <2>2, SyncAssumption
    <3>4. ASSUME area[s] \notin Lifted, NEW i \in DOMAIN Hosts, i < at[s], Hosts[i] \notin failed[s]
          PROVE  stored'[Hosts[i]][area[s]] = InPlace(sent[s])
      <4>1. Hosts[i] # p /\ Hosts[i] \in Peers
        BY <3>2, <3>4, HostList DEF Peer, TypeOK
      <4>q. QED
        BY <2>2, <2>4, <3>1, <3>4, <4>1 DEF Pushed
    <3>5. ASSUME area[s] \notin Lifted, pc[s] = "wait", req'[s][Peer(s)].pc \in {"apply", "reply"}
          PROVE  stored'[Peer(s)][area[s]] = InPlace(sent[s])
      <4>1. Peer(s) \in Peers
        BY <3>5, AtPeer
      <4>2. CASE p = Peer(s)
        BY <2>1, <2>2, <3>1, <3>5, <4>2 DEF Carries, Unanswered
      <4>3. CASE p # Peer(s)
        BY <2>1, <2>2, <2>4, <3>1, <3>5, <4>1, <4>3 DEF Pushed
      <4>q. QED
        BY <4>2, <4>3
    <3>q. QED
      BY <1>1, <2>4, <3>1, <3>3, <3>4, <3>5 DEF Pushed, InPlace
  <2>5. ~Pushing(s) => Pushed(s)'
    BY <1>1 DEF Pushed
  <2>q. QED
    BY <2>3, <2>4, <2>5 DEF PagePushes
<1>5. CASE ReqEnd(s, p)
  <2>1. UNCHANGED <<stored, pageVars>>
    BY <1>5 DEF ReqEnd
  <2>2. \A q \in Peers : req'[s][q] = req[s][q] \/ req'[s][q].pc = "none"
    BY <1>5, ForgetEffect, ZenonT(60) DEF ReqEnd
  <2>q. QED
    BY <2>1, <2>2, PushBeside DEF pageVars, Unanswered
<1>q. QED
  BY <1>3, <1>4, <1>5 DEF ReqStep

LEMMA PushStep ==
  TypeOK /\ PlaceInList /\ PlaceInv /\ SoloExcludes /\ PushInv /\ [Next]_vars => PushInv'
<1> SUFFICES ASSUME TypeOK, PlaceInList, PlaceInv, SoloExcludes, PushInv, [Next]_vars,
                    NEW s \in Pages
             PROVE  PagePushes(s)'
  BY Zenon DEF PushInv, PagePushes
<1>0. PagePushes(s)
  BY Zenon DEF PushInv, PagePushes
<1>1. ASSUME NEW t \in Pages, PageStep(t), t # s PROVE PagePushes(s)'
  <2>1. /\ pc'[s] = pc[s] /\ area'[s] = area[s] /\ sent'[s] = sent[s] /\ at'[s] = at[s]
        /\ failed'[s] = failed[s]
    <3>1. CASE Forgets(t)
      <4>1. \/ \E miss : Advance(t, miss)
            \/ pc' = [pc EXCEPT ![t] = "post"] /\ UNCHANGED <<at, failed>>
        BY <3>1, Zenon DEF Forgets, NoMd5, GetMd5, Success, Failure, Answered
      <4>q. QED
        BY <1>1, <3>1, <4>1, ForgetsEffect DEF Advance, TypeOK
    <3>2. CASE Edit(t)
      <4>1. PICK a, v : area' = [area EXCEPT ![t] = a] /\ sent' = [sent EXCEPT ![t] = v]
        BY <3>2, Zenon DEF Edit
      <4>2. UNCHANGED <<at, failed>> /\ \E c : pc' = [pc EXCEPT ![t] = c]
        BY <3>2, Zenon DEF Edit
      <4>q. QED
        BY <1>1, <4>1, <4>2 DEF TypeOK
    <3>3. CASE Load(t) \/ AskMd5(t) \/ Post(t) \/ PostFails(t) \/ Finish(t)
      BY <1>1, <3>3, ZenonT(60) DEF Load, AskMd5, Post, PostFails, Finish, Advance, TypeOK
    <3>q. QED
      BY <1>1, <3>1, <3>2, <3>3 DEF PageStep, Forgets
  <2>2. solo'[s] => solo[s]
    <3>1. CASE Load(t)
      BY <1>1, <3>1, Zenon DEF Load
    <3>2. CASE ~Load(t)
      BY <1>1, <3>2, ForgetsEffect, Zenon
      DEF PageStep, Forgets, Edit, AskMd5, Post, PostFails, Finish
    <3>q. QED
      BY <3>1, <3>2
  <2>3. ASSUME solo'[s], pc[s] # "idle" PROVE UNCHANGED stored
    <3>1. CASE Edit(t)
      <4>1. Busy(s) /\ Busy(t)
        BY <2>3, <3>1 DEF Busy, Edit
      <4>q. QED
        BY <1>1, <2>2, <2>3, <4>1, Zenon DEF SoloExcludes
    <3>2. CASE ~Edit(t)
      BY <1>1, <3>2, ForgetsEffect, Zenon
      DEF PageStep, Forgets, Load, AskMd5, Post, PostFails, Finish
    <3>q. QED
      BY <3>1, <3>2
  <2>4. \A q \in Peers : /\ req'[s][q].pc = req[s][q].pc
                         /\ req'[s][q].area = req[s][q].area
                         /\ req'[s][q].value = req[s][q].value
    <3>1. CASE Post(t)
      BY <1>1, <3>1, PostEffect
    <3>2. CASE AskMd5(t)
      BY <1>1, <3>2, AskEffect
    <3>3. CASE Forgets(t)
      BY <1>1, <3>3, ForgetsEffect
    <3>4. CASE Load(t) \/ Edit(t) \/ PostFails(t) \/ Finish(t)
      BY <1>1, <3>4, Zenon DEF Load, Edit, PostFails, Finish
    <3>q. QED
      BY <1>1, <3>1, <3>2, <3>3, <3>4 DEF PageStep, Forgets
  <2>q. QED
    BY <1>0, <2>1, <2>2, <2>3, <2>4, PushBeside
<1>2. ASSUME NEW t \in Pages, NEW p \in Peers, ReqStep(t, p), t # s PROVE PagePushes(s)'
  <2>1. UNCHANGED pageVars
    BY <1>2, Zenon DEF ReqStep, ReqLoad, ReqWrite, ReqApply, ReqFail, ReqEnd, Serve
  <2>2. ASSUME solo[s], pc[s] # "idle" PROVE UNCHANGED stored
    <3>1. CASE ReqWrite(t, p)
      <4>1. Busy(s) /\ Busy(t)
        BY <2>2, <3>1 DEF Busy, ReqWrite, Serve
      <4>q. QED
        BY <1>2, <2>2, <4>1, Zenon DEF SoloExcludes
    <3>2. CASE ~ReqWrite(t, p)
      BY <1>2, <3>2, Zenon DEF ReqStep, ReqLoad, ReqApply, ReqFail, ReqEnd
    <3>q. QED
      BY <3>1, <3>2
  <2>3. \A q \in Peers : req'[s][q] = req[s][q]
    <3>1. CASE ReqEnd(t, p)
      BY <1>2, <3>1, ForgetEffect DEF ReqEnd
    <3>q. QED
      BY <1>2, <3>1, ReqLoadEffect, ServedEffect DEF ReqStep
  <2>q. QED
    BY <1>0, <2>1, <2>2, <2>3, PushBeside DEF pageVars
<1>3. ASSUME NEW p \in Peers, PeerReboot(p) PROVE PagePushes(s)'
  <2>1. \A q \in Peers : req'[s][q] = req[s][q] \/ req'[s][q].pc = "none"
    BY <1>3, NoRequestType DEF PeerReboot, TypeOK
  <2>2. UNCHANGED <<stored, pageVars>>
    BY <1>3 DEF PeerReboot
  <2>q. QED
    BY <1>0, <2>1, <2>2, PushBeside DEF pageVars, Unanswered
<1>4. CASE UNCHANGED vars
  BY <1>0, <1>4, PushBeside DEF vars, pageVars, Unanswered
<1>q. QED
  BY <1>0, <1>1, <1>2, <1>3, <1>4, PageStepPushes, ReqStepPushes DEF Next
-----------------------------------------------------------------------------
(* What is in force at the peers. *)

Applying(p, a) == \E s \in Pages : req[s][p].pc = "apply" /\ req[s][p].area = a

LEMMA ForceInit == Init => ForceInv
<1> SUFFICES ASSUME Init PROVE ForceInv
  OBVIOUS
<1>1. \A s \in Pages, p \in Peers : req[s][p].pc = "none"
  BY NoRequestType DEF Init
<1>2. \A p \in Peers : inforce[p] = stored[p]
  BY DEF Init
<1>q. QED
  BY <1>1, <1>2 DEF ForceInv, UnmetIsAlone, InForceAtPeers, Changing

\* A step that neither stores nor applies anything, and ends no request that is about to.
LEMMA ForceKept ==
  ASSUME ForceInv, NEW p \in Peers, p \notin askew', p \notin askew,
         stored'[p] = stored[p], inforce'[p] = inforce[p],
         \A s \in Pages : \/ req'[s][p] = req[s][p]
                          \/ ~Changing(s, p)' /\ req[s][p].pc # "apply"
  PROVE  /\ \A s \in Pages : Changing(s, p)' => req'[s][p].alone
         /\ \A a \in Applied : ~Applying(p, a)' => inforce'[p][a] = stored'[p][a]
<1>1. \A s \in Pages : Changing(s, p)' => req'[s][p].alone
  <2> SUFFICES ASSUME NEW s \in Pages, Changing(s, p)' PROVE req'[s][p].alone
    OBVIOUS
  <2>1. req'[s][p] = req[s][p]
    BY Zenon
  <2>2. Changing(s, p)
    BY <2>1, Zenon DEF Changing
  <2>q. QED
    BY <2>1, <2>2, Zenon DEF ForceInv, UnmetIsAlone
<1>2. ASSUME NEW a \in Applied, ~Applying(p, a)' PROVE inforce'[p][a] = stored'[p][a]
  <2>1. ~Applying(p, a)
    BY <1>2 DEF Applying, Changing
  <2>2. inforce[p][a] = stored[p][a]
    BY <2>1 DEF ForceInv, InForceAtPeers, Applying
  <2>q. QED
    BY <2>2
<1>q. QED
  BY <1>1, <1>2

\* At a peer where no requests have met, one that changes it is the only one.
LEMMA UnmetIsOne ==
  ASSUME PeerInv, ForceInv, NEW p \in Peers \ askew, NEW s \in Pages, Changing(s, p)
  PROVE  /\ req[s][p].alone
         /\ \A t \in Pages : t # s => ~Changing(t, p)
         /\ Exact(s, p)
<1>1. req[s][p].alone
  BY Zenon DEF ForceInv, UnmetIsAlone
<1>q. QED
  BY <1>1, Zenon DEF PeerInv, AloneExcludes, AloneIsExact

LEMMA ForceStep ==
  TypeOK /\ PlaceInList /\ PeerInv /\ PushInv /\ ForceInv /\ [Next]_vars => ForceInv'
<1> SUFFICES ASSUME TypeOK, PlaceInList, PeerInv, PushInv, ForceInv, [Next]_vars,
                    NEW p \in Peers, p \notin askew'
             PROVE  /\ \A s \in Pages : Changing(s, p)' => req'[s][p].alone
                    /\ \A a \in Applied : ~Applying(p, a)' => inforce'[p][a] = stored'[p][a]
  BY DEF ForceInv, UnmetIsAlone, InForceAtPeers, Applying
<1> DEFINE Goal == /\ \A s \in Pages : Changing(s, p)' => req'[s][p].alone
                   /\ \A a \in Applied : ~Applying(p, a)' => inforce'[p][a] = stored'[p][a]
<1>1. ASSUME NEW s \in Pages, PageStep(s) PROVE Goal
  <2>1. stored'[p] = stored[p] /\ UNCHANGED inforce
    <3>1. CASE Edit(s)
      <4>1. UNCHANGED inforce /\ \E c : stored' = [stored EXCEPT ![Primary] = c]
        BY <3>1, Zenon DEF Edit
      <4>q. QED
        BY <4>1, SyncAssumption DEF TypeOK
    <3>2. CASE ~Edit(s)
      <4>1. UNCHANGED <<stored, inforce>>
        BY <1>1, <3>2, ForgetsEffect, Zenon
        DEF PageStep, Forgets, Load, AskMd5, Post, PostFails, Finish
      <4>q. QED
        BY <4>1
    <3>q. QED
      BY <3>1, <3>2
  <2>2. CASE Post(s)
    <3>1. p \notin askew
      BY <2>2, PostEffect
    <3>2. CASE p # Peer(s)
      <4>1. \A t \in Pages : req'[t][p] = req[t][p]
        BY <2>2, <3>2, PostEffect
      <4>q. QED
        BY <2>1, <3>1, <4>1, ForceKept
    <3>3. CASE p = Peer(s)
      <4>1. \A t \in Pages : ~Changing(t, p)
        BY <2>2, <3>3, PostEffect
      <4>2. req'[s][p].alone /\ \A t \in Pages : t # s => ~Changing(t, p)'
        BY <2>2, <3>3, <4>1, PostEffect DEF Changing
      <4>3. ASSUME NEW a \in Applied PROVE inforce[p][a] = stored[p][a]
        BY <3>1, <4>1 DEF ForceInv, InForceAtPeers, Changing
      <4>q. QED
        BY <2>1, <4>2, <4>3
    <3>q. QED
      BY <3>2, <3>3
  <2>3. CASE AskMd5(s) \/ Forgets(s)
    <3>1. UNCHANGED askew
      BY <2>3, ForgetsEffect DEF AskMd5
    <3>2. /\ \A t \in Pages : t # s \/ p # Peer(s) => req'[t][p] = req[t][p]
          /\ p = Peer(s) => ~(req'[s][p].pc \notin {"none", "md5"})
      BY <2>3, AskEffect, ForgetsEffect
    <3>3. ASSUME p = Peer(s) PROVE req[s][p].pc # "apply"
      <4>1. /\ pc[s] \in {"get", "md5", "wait"}
            /\ pc[s] = "wait" => req[s][p].pc # "apply"
        BY <2>3, <3>3 DEF AskMd5, Forgets, NoMd5, GetMd5, Success, Failure, Answered
      <4>2. p \notin failed[s]
        <5>1. at[s] \in DOMAIN Hosts /\ Hosts[at[s]] = p
          BY <3>3, <4>1 DEF TypeOK, Peer
        <5>2. \A q \in failed[s] : \E i \in DOMAIN Hosts : i < at[s] /\ Hosts[i] = q
          BY Zenon DEF PlaceInList
        <5>q. QED
          BY <5>1, <5>2, HostList
      <4>3. Left(s)
        BY Zenon DEF PushInv
      <4>q. QED
        BY <4>1, <4>2, <4>3 DEF Left, Pushing, Unanswered, Changing
    <3>4. \A t \in Pages : \/ req'[t][p] = req[t][p]
                           \/ ~Changing(t, p)' /\ req[t][p].pc # "apply"
      BY <3>2, <3>3 DEF Changing
    <3>q. QED
      BY <2>1, <3>1, <3>4, ForceKept
  <2>4. CASE Load(s) \/ Edit(s) \/ PostFails(s) \/ Finish(s)
    <3>1. UNCHANGED <<req, askew>>
      BY <2>4, Zenon DEF Load, Edit, PostFails, Finish
    <3>q. QED
      BY <2>1, <3>1, ForceKept
  <2>q. QED
    BY <1>1, <2>2, <2>3, <2>4 DEF PageStep, Forgets
<1>2. ASSUME NEW s \in Pages, NEW q \in Peers, ReqStep(s, q), q # p PROVE Goal
  <2>1. \A t \in Pages : req'[t][p] = req[t][p]
    <3>1. CASE ReqEnd(s, q)
      BY <1>2, <3>1, ForgetEffect DEF ReqEnd
    <3>q. QED
      BY <1>2, <3>1, ReqLoadEffect, ServedEffect DEF ReqStep
  <2>2. p \notin askew
    BY <1>2 DEF ReqStep, ReqLoad, ReqWrite, ReqApply, ReqFail, ReqEnd
  <2>3. stored'[p] = stored[p] /\ inforce'[p] = inforce[p]
    <3>1. UNCHANGED stored \/ \E c : stored' = [stored EXCEPT ![q] = c]
      BY <1>2, Zenon DEF ReqStep, ReqLoad, ReqWrite, ReqApply, ReqFail, ReqEnd
    <3>2. UNCHANGED inforce \/ \E c : inforce' = [inforce EXCEPT ![q] = c]
      BY <1>2, Zenon DEF ReqStep, ReqLoad, ReqWrite, ReqApply, ReqFail, ReqEnd
    <3>q. QED
      BY <1>2, <3>1, <3>2 DEF TypeOK
  <2>q. QED
    BY <2>1, <2>2, <2>3, ForceKept
<1>3. ASSUME NEW s \in Pages, ReqStep(s, p) PROVE Goal
  <2>1. p \notin askew
    BY <1>3 DEF ReqStep, ReqLoad, ReqWrite, ReqApply, ReqFail, ReqEnd
  <2>2. CASE ReqEnd(s, p)
    <3>1. UNCHANGED <<stored, inforce>> /\ req[s][p].pc # "apply"
      BY <2>2 DEF ReqEnd
    <3>2. \A t \in Pages : \/ req'[t][p] = req[t][p]
                           \/ ~Changing(t, p)' /\ req[t][p].pc # "apply"
      BY <2>2, <3>1, ForgetEffect DEF ReqEnd, Changing
    <3>q. QED
      BY <2>1, <3>1, <3>2, ForceKept
  <2>3. CASE ~ReqEnd(s, p)
    <3>1. /\ Changing(s, p)
          /\ req'[s][p].alone = req[s][p].alone
          /\ req'[s][p].area = req[s][p].area
          /\ \A t \in Pages : t # s => req'[t][p] = req[t][p]
      <4>1. CASE ReqLoad(s, p)
        BY <4>1, ReqLoadEffect DEF Changing
      <4>2. CASE ReqWrite(s, p) \/ ReqApply(s, p) \/ ReqFail(s, p)
        BY <4>2, ServedEffect DEF Changing
      <4>q. QED
        BY <1>3, <2>3, <4>1, <4>2 DEF ReqStep
    <3>2. /\ req[s][p].alone /\ Exact(s, p)
          /\ \A t \in Pages : t # s => ~Changing(t, p)
      BY <2>1, <3>1, UnmetIsOne
    <3>3. \A t \in Pages : t # s => ~Changing(t, p)' /\ req[t][p].pc # "apply"
      BY <3>1, <3>2 DEF Changing
    <3>4. \A t \in Pages : Changing(t, p)' => req'[t][p].alone
      <4> SUFFICES ASSUME NEW t \in Pages, Changing(t, p)' PROVE req'[t][p].alone
        OBVIOUS
      <4>1. t = s
        BY <3>3
      <4>q. QED
        BY <3>1, <3>2, <4>1, Zenon
    <3>5. \A a \in Applied : ~(req[s][p].pc = "apply" /\ req[s][p].area = a) =>
                               inforce[p][a] = stored[p][a]
      BY <2>1, <3>3 DEF ForceInv, InForceAtPeers
    <3>6. ASSUME NEW a \in Applied, ~Applying(p, a)' PROVE inforce'[p][a] = stored'[p][a]
      <4>1. CASE ReqLoad(s, p) \/ ReqFail(s, p)
        <5>1. UNCHANGED <<stored, inforce>> /\ req[s][p].pc # "apply"
          BY <4>1 DEF ReqLoad, ReqFail, Serve
        <5>q. QED
          BY <3>5, <5>1
      <4>2. CASE ReqWrite(s, p)
        <5>1. Serve(s, p, "write", "apply")
          BY <4>2 DEF ReqWrite
        <5>2. req'[s][p].pc = "apply" /\ req[s][p].pc = "write"
          BY <5>1, ServeEffect
        <5>3. a # req[s][p].area
          BY <3>1, <3>6, <5>2 DEF Applying
        <5>4. stored'[p][a] = stored[p][a]
          <6>1. PICK c : stored' = [stored EXCEPT ![p] =
                                      [req[s][p].view EXCEPT ![req[s][p].area] = c]]
            BY <4>2, Zenon DEF ReqWrite
          <6>2. PICK d : d = [req[s][p].view EXCEPT ![req[s][p].area] = c]
            OBVIOUS
          <6>3. stored' = [stored EXCEPT ![p] = d]
            BY <6>1, <6>2, Zenon
          <6>4. d[a] = req[s][p].view[a]
            BY <5>3, <6>2, SyncAssumption DEF TypeOK, Request, Config
          <6>5. req[s][p].view = stored[p]
            BY <3>2, <5>2, Zenon DEF Exact
          <6>q. QED
            BY <6>3, <6>4, <6>5 DEF TypeOK
        <5>5. UNCHANGED inforce
          BY <4>2 DEF ReqWrite
        <5>q. QED
          BY <3>5, <5>2, <5>4, <5>5
      <4>3. CASE ReqApply(s, p)
        <5>1. Serve(s, p, "apply", "reply") /\ UNCHANGED stored
          BY <4>3 DEF ReqApply
        <5>2. req[s][p].pc = "apply"
          BY <5>1 DEF Serve
        <5>3. PICK c : c = [value |-> req[s][p].value, up |-> req[s][p].area \in Lifted]
          OBVIOUS
        <5>4. stored[p][req[s][p].area] = c
          BY <3>2, <5>2, <5>3, Zenon DEF Exact, Pushes
        <5>5. CASE req[s][p].area \notin Applied
          <6>1. UNCHANGED inforce
            BY <4>3, <5>5, Zenon DEF ReqApply
          <6>q. QED
            BY <3>5, <5>1, <5>5, <6>1
        <5>6. CASE req[s][p].area \in Applied
          <6>1. PICK d : d = [inforce[p] EXCEPT ![req[s][p].area] = c]
            OBVIOUS
          <6>2. inforce' = [inforce EXCEPT ![p] = d] \/ p \in askew'
            BY <4>3, <5>3, <5>6, <6>1, Zenon DEF ReqApply
          <6>3. inforce'[p] = d
            BY <6>2 DEF TypeOK
          <6>4. d[a] = IF a = req[s][p].area THEN c ELSE inforce[p][a]
            BY <6>1, SyncAssumption DEF TypeOK, Config
          <6>q. QED
            BY <3>5, <5>1, <5>4, <6>3, <6>4
        <5>q. QED
          BY <5>5, <5>6
      <4>q. QED
        BY <1>3, <2>3, <4>1, <4>2, <4>3 DEF ReqStep
    <3>q. QED
      BY <3>4, <3>6
  <2>q. QED
    BY <2>2, <2>3
<1>4. ASSUME NEW q \in Peers, PeerReboot(q) PROVE Goal
  <2>1. CASE q = p
    <3>1. /\ \A t \in Pages : ~Changing(t, p)'
          /\ inforce'[p] = stored'[p]
      BY <1>4, <2>1, NoRequestType DEF PeerReboot, TypeOK, Changing
    <3>q. QED
      BY <3>1
  <2>2. CASE q # p
    <3>1. /\ \A t \in Pages : req'[t][p] = req[t][p]
          /\ p \notin askew
          /\ stored'[p] = stored[p] /\ inforce'[p] = inforce[p]
      BY <1>4, <2>2 DEF PeerReboot, TypeOK
    <3>q. QED
      BY <3>1, ForceKept
  <2>q. QED
    BY <2>1, <2>2
<1>5. CASE UNCHANGED vars
  <2>1. UNCHANGED <<stored, inforce, askew, req>>
    BY <1>5 DEF vars
  <2>q. QED
    BY <2>1, ForceKept
<1>q. QED
  BY <1>1, <1>2, <1>3, <1>4, <1>5 DEF Next

\* The invariant of the module, of which each theorem uses its part.
LEMMA SyncInvariant == Spec => []SyncInv
  BY SyncTypeInit, SyncTypeStep, PeerInit, PeerStep, PushInit, SoloStep, PlaceInit, PlaceStep,
     PushStep, ForceInit, ForceStep, PTL
  DEF Spec, SyncInv

\* When a push that nothing ran beside has gone through the list of hosts, every peer but
\* those it has logged as failed holds the primary's version of the area, unless the area
\* is one that config_sync.inc stores out of its place.
THEOREM LonePushReaches == Spec => []LonePushSyncs
<1>1. SyncInv => LonePushSyncs
  <2> SUFFICES ASSUME SyncInv, NEW s \in Pages, pc[s] = "end", solo[s], area[s] \notin Lifted,
                      NEW p \in Peers \ failed[s]
               PROVE  stored[p][area[s]] = stored[Primary][area[s]]
    BY DEF LonePushSyncs
  <2>1. Pushed(s)
    BY Zenon DEF SyncInv, PushInv
  <2>2. PICK i \in DOMAIN Hosts : Hosts[i] = p
    BY HostList
  <2>3. i < at[s]
    BY <2>2, HostList DEF SyncInv, PlaceInList
  <2>q. QED
    BY <2>1, <2>2, <2>3 DEF Pushed, Pushing
<1>q. QED
  BY <1>1, SyncInvariant, PTL

\* What a peer has stored is in force there once nothing is about to apply it, unless
\* requests have met there since it started or what should have applied an area has failed,
\* whose $retval nobody looks at (config_sync.inc:122, 135, 161).
THEOREM StoredIsInForce == Spec => []InForceAtPeers
  BY SyncInvariant, PTL DEF SyncInv, ForceInv
=============================================================================
