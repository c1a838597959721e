-------------------------- MODULE ConfigStoreProofs --------------------------
(***************************************************************************)
(* What ConfigStore guarantees for every set of processes, every set of    *)
(* configurations, every number of tries, either platform and any choice   *)
(* of operations.                                                          *)
(*                                                                         *)
(* The inductive invariant StoreIInv has three layers.  Shape says in      *)
(* which steps of which operations processes are, and holds whatever       *)
(* happens.  LockInv ties the sections to the lock file until a waiter     *)
(* breaks in.  Orderly says how the disk stands at each step of the one    *)
(* request at the store, and holds as long as no two ever were at once.    *)
(***************************************************************************)
EXTENDS ConfigStore, ConfigLockProofs

\* The store composes the lock: each of its steps is a step of ConfigLock or none.
LEMMA StoreUsesLock == [Next]_vars => [LockNext]_lockVars
<1> SUFFICES ASSUME [Next]_vars PROVE [LockNext]_lockVars
  OBVIOUS
<1>1. ASSUME NEW p \in Procs, Ask(p) \/ Step(p) PROVE [LockNext]_lockVars
  <2>1. Request(p) \/ Poll(p) \/ Unlock(p) \/ Die(p) \/ UNCHANGED lockVars
    BY <1>1 DEF Ask, Step, Boot, Load, Reset, Save, Install, Bare, Finish,
       PollLock, Release, ReadCache, MissingAtBoot, MissingLater, StartParse,
       Parse, CacheOpen, CacheWrite, Umount, MountRw, MountRo, Clear, Open,
       OpenFails, Write, Abort, Poll, diskVars, procVars
  <2>q. QED
    BY <2>1 DEF LockNext
<1>2. Tick => LockNext
  BY DEF Tick, LockNext
<1>3. PowerLoss => LockNext
  BY DEF PowerLoss, LockNext
<1>4. UNCHANGED vars => UNCHANGED lockVars
  BY DEF vars
<1>q. QED
  BY <1>1, <1>2, <1>3, <1>4 DEF Next

\* Each action keeps the types; CacheWrite does because Shape says it has a $config.
LEMMA TypeStep == TypeOK /\ Shape /\ LockTypeOK' /\ [Next]_vars => TypeOK'
<1> SUFFICES ASSUME TypeOK, Shape, LockTypeOK', [Next]_vars PROVE TypeOK'
  OBVIOUS
<1> USE StoreAssumption DEF Enter, Goto, diskVars, procVars, Content, Labels, OpNames, FaultNames
<1>1. ASSUME NEW p \in Procs, Abort(p) PROVE TypeOK'
  BY <1>1 DEF TypeOK, Abort
<1>2. ASSUME NEW p \in Procs, Boot(p) PROVE TypeOK'
  BY <1>2 DEF TypeOK, Boot
<1>3. ASSUME NEW p \in Procs, Load(p) PROVE TypeOK'
  BY <1>3 DEF TypeOK, Load
<1>4. ASSUME NEW p \in Procs, Reset(p) PROVE TypeOK'
  BY <1>4 DEF TypeOK, Reset
<1>5. ASSUME NEW p \in Procs, Save(p) PROVE TypeOK'
  BY <1>5 DEF TypeOK, Save
<1>6. ASSUME NEW p \in Procs, Install(p) PROVE TypeOK'
  BY <1>6 DEF TypeOK, Install
<1>7. ASSUME NEW p \in Procs, Bare(p) PROVE TypeOK'
  BY <1>7 DEF TypeOK, Bare
<1>8. ASSUME NEW p \in Procs, Finish(p) PROVE TypeOK'
  BY <1>8 DEF TypeOK, Finish
<1>9. ASSUME NEW p \in Procs, PollLock(p) PROVE TypeOK'
  BY <1>9 DEF TypeOK, PollLock, FaultsEntering
<1>10. ASSUME NEW p \in Procs, Release(p) PROVE TypeOK'
  BY <1>10 DEF TypeOK, Release, AfterUnlock
<1>11. ASSUME NEW p \in Procs, ReadCache(p) PROVE TypeOK'
  BY <1>11 DEF TypeOK, ReadCache, CacheUsable
<1>12. ASSUME NEW p \in Procs, MissingAtBoot(p) PROVE TypeOK'
  BY <1>1, <1>12 DEF TypeOK, MissingAtBoot
<1>13. ASSUME NEW p \in Procs, MissingLater(p) PROVE TypeOK'
  BY <1>13 DEF TypeOK, MissingLater
<1>14. ASSUME NEW p \in Procs, StartParse(p) PROVE TypeOK'
  BY <1>14 DEF TypeOK, StartParse
<1>15. ASSUME NEW p \in Procs, Parse(p) PROVE TypeOK'
  BY <1>1, <1>15 DEF TypeOK, Parse, Xml, Vol
<1>16. ASSUME NEW p \in Procs, CacheOpen(p) PROVE TypeOK'
  BY <1>16 DEF TypeOK, CacheOpen, Put
<1>17. ASSUME NEW p \in Procs, CacheWrite(p) PROVE TypeOK'
  BY <1>17 DEF TypeOK, CacheWrite, Put, Shape
<1>18. ASSUME NEW p \in Procs, Umount(p) PROVE TypeOK'
  BY <1>18 DEF TypeOK, Umount
<1>19. ASSUME NEW p \in Procs, MountRw(p) PROVE TypeOK'
  BY <1>19 DEF TypeOK, MountRw
<1>20. ASSUME NEW p \in Procs, MountRo(p) PROVE TypeOK'
  BY <1>20 DEF TypeOK, MountRo
<1>21. ASSUME NEW p \in Procs, Clear(p) PROVE TypeOK'
  BY <1>21 DEF TypeOK, Clear, Vol
<1>22. ASSUME NEW p \in Procs, Open(p) PROVE TypeOK'
  BY <1>22 DEF TypeOK, Open, Put, Vol
<1>23. ASSUME NEW p \in Procs, OpenFails(p) PROVE TypeOK'
  BY <1>1, <1>23 DEF TypeOK, OpenFails
<1>24. ASSUME NEW p \in Procs, Write(p) PROVE TypeOK'
  BY <1>24 DEF TypeOK, Write, Put
<1>25. ASSUME Tick PROVE TypeOK'
  BY <1>25 DEF TypeOK, Tick
<1>26. ASSUME PowerLoss PROVE TypeOK'
  <2>1. /\ handle' \in [Procs -> {"flash", "ram", NoFile}]
        /\ booting' \in [Procs -> BOOLEAN]
        /\ mem' \in [Procs -> Configs \cup {NoConfig}]
    BY <1>26 DEF TypeOK, PowerLoss
  <2>2. pc' \in [Procs -> Labels] /\ op' \in [Procs -> OpNames]
    BY <1>26 DEF TypeOK, PowerLoss
  <2>3. val' \in [Procs -> Configs]
    BY <1>26 DEF TypeOK, PowerLoss
  <2>4. file' \in [{"flash", "ram", "cache"} -> Content]
    BY <1>26 DEF TypeOK, PowerLoss
  <2>5. mtime' \in [{"flash", "ram", "cache"} -> 0..MaxClock]
    BY <1>26 DEF TypeOK, PowerLoss
  <2>q. QED
    BY <2>1, <2>2, <2>3, <2>4, <2>5, <1>26 DEF TypeOK, PowerLoss
<1>27. ASSUME UNCHANGED vars PROVE TypeOK'
  BY <1>27 DEF TypeOK, vars
<1>q. QED
  BY <1>1, <1>2, <1>3, <1>4, <1>5, <1>6, <1>7, <1>8, <1>9, <1>10, <1>11, <1>12,
     <1>13, <1>14, <1>15, <1>16, <1>17, <1>18, <1>19, <1>20, <1>21, <1>22, <1>23,
     <1>24, <1>25, <1>26, <1>27 DEF Next, Ask, Step

\* Each action takes a process to a step its operation has.
LEMMA ShapeStep == TypeOK /\ TypeOK' /\ LockInv /\ Shape /\ [Next]_vars => Shape'
<1> SUFFICES ASSUME TypeOK, TypeOK', LockInv, Shape, [Next]_vars PROVE Shape'
  OBVIOUS
<1> USE StoreAssumption DEF Enter, Goto, diskVars, procVars, lockVars
<1>1. ASSUME NEW p \in Procs, Abort(p) PROVE Shape'
  BY <1>1 DEF TypeOK, LockTypeOK, Shape, Abort, Die
<1>2. ASSUME NEW p \in Procs, Boot(p) PROVE Shape'
  BY <1>2 DEF TypeOK, LockTypeOK, Shape, Boot, Request
<1>3. ASSUME NEW p \in Procs, Load(p) PROVE Shape'
  BY <1>3 DEF TypeOK, LockTypeOK, Shape, Load, Request
<1>4. ASSUME NEW p \in Procs, Reset(p) PROVE Shape'
  BY <1>4 DEF TypeOK, LockTypeOK, Shape, Reset, Request
<1>5. ASSUME NEW p \in Procs, Save(p) PROVE Shape'
  BY <1>5 DEF TypeOK, LockTypeOK, Shape, Save, Request
<1>6. ASSUME NEW p \in Procs, Install(p) PROVE Shape'
  BY <1>6 DEF TypeOK, LockTypeOK, Shape, Install, Request
<1>7. ASSUME NEW p \in Procs, Bare(p) PROVE Shape'
  BY <1>7 DEF TypeOK, LockTypeOK, Shape, Bare
<1>8. ASSUME NEW p \in Procs, Finish(p) PROVE Shape'
  BY <1>8 DEF TypeOK, LockTypeOK, Shape, Finish
<1>9. ASSUME NEW p \in Procs, PollLock(p) PROVE Shape'
  BY <1>9 DEF TypeOK, LockTypeOK, Shape, PollLock, FaultsEntering, Create, Retry,
     FallThrough
<1>10. ASSUME NEW p \in Procs, Release(p) PROVE Shape'
  BY <1>10 DEF TypeOK, LockTypeOK, Shape, Release, AfterUnlock, Unlock
<1>11. ASSUME NEW p \in Procs, ReadCache(p) PROVE Shape'
  BY <1>11 DEF TypeOK, LockTypeOK, Shape, ReadCache, CacheUsable
<1>12. ASSUME NEW p \in Procs, MissingAtBoot(p) PROVE Shape'
  BY <1>1, <1>12 DEF TypeOK, LockTypeOK, Shape, MissingAtBoot, Request
<1>13. ASSUME NEW p \in Procs, MissingLater(p) PROVE Shape'
  BY <1>13 DEF TypeOK, LockTypeOK, Shape, MissingLater
<1>14. ASSUME NEW p \in Procs, StartParse(p) PROVE Shape'
  BY <1>14 DEF TypeOK, LockTypeOK, Shape, StartParse
<1>15. ASSUME NEW p \in Procs, Parse(p) PROVE Shape'
  BY <1>1, <1>15 DEF TypeOK, LockTypeOK, Shape, Parse, Xml, Vol
<1>16. ASSUME NEW p \in Procs, CacheOpen(p) PROVE Shape'
  BY <1>16 DEF TypeOK, LockTypeOK, Shape, CacheOpen, Put
<1>17. ASSUME NEW p \in Procs, CacheWrite(p) PROVE Shape'
  BY <1>17 DEF TypeOK, LockTypeOK, Shape, CacheWrite, Put
<1>18. ASSUME NEW p \in Procs, Umount(p) PROVE Shape'
  BY <1>18 DEF TypeOK, LockTypeOK, Shape, Umount
<1>19. ASSUME NEW p \in Procs, MountRw(p) PROVE Shape'
  BY <1>19 DEF TypeOK, LockTypeOK, Shape, MountRw
<1>20. ASSUME NEW p \in Procs, MountRo(p) PROVE Shape'
  BY <1>20 DEF TypeOK, LockTypeOK, Shape, MountRo
<1>21. ASSUME NEW p \in Procs, Clear(p) PROVE Shape'
  BY <1>21 DEF TypeOK, LockTypeOK, Shape, Clear, Vol
<1>22. ASSUME NEW p \in Procs, Open(p) PROVE Shape'
  BY <1>22 DEF TypeOK, LockTypeOK, Shape, Open, Put, Vol
<1>23. ASSUME NEW p \in Procs, OpenFails(p) PROVE Shape'
  BY <1>1, <1>23 DEF TypeOK, LockTypeOK, Shape, OpenFails
<1>24. ASSUME NEW p \in Procs, Write(p) PROVE Shape'
  BY <1>24 DEF TypeOK, LockTypeOK, Shape, Write, Put
<1>25. ASSUME Tick PROVE Shape'
  BY <1>25 DEF TypeOK, LockTypeOK, Shape, Tick, LockTick
<1>26. ASSUME PowerLoss PROVE Shape'
  BY <1>26 DEF TypeOK, LockTypeOK, Shape, PowerLoss, LockPowerLoss
<1>27. ASSUME UNCHANGED vars PROVE Shape'
  BY <1>27 DEF Shape, vars
<1>q. QED
  BY <1>1, <1>2, <1>3, <1>4, <1>5, <1>6, <1>7, <1>8, <1>9, <1>10, <1>11, <1>12,
     <1>13, <1>14, <1>15, <1>16, <1>17, <1>18, <1>19, <1>20, <1>21, <1>22, <1>23,
     <1>24, <1>25, <1>26, <1>27 DEF Next, Ask, Step

\* A process at the store, told by its step and operation instead of the lock's depth.
Busy(p) == op[p] # "none" /\ (pc[p] = "lock" => op[p] = "bootreset")

\* The processes at the store are the busy ones, now and after the step.
LEMMA ActiveBusy == ASSUME TypeOK, Shape PROVE Active = {p \in Procs : Busy(p)}
<1>1. ASSUME NEW p \in Procs PROVE depth[p] > 0 \/ op[p] = "bare" <=> Busy(p)
  BY DEF Shape, Busy, TypeOK, OpNames
<1>q. QED
  BY <1>1 DEF Active, Holders, Bares

\* The same after a step.
LEMMA ActiveBusyNext == ASSUME TypeOK', Shape' PROVE Active' = {p \in Procs : Busy(p)'}
<1>1. ASSUME NEW p \in Procs PROVE depth'[p] > 0 \/ op'[p] = "bare" <=> Busy(p)'
  BY DEF Shape, Busy, TypeOK, OpNames
<1>q. QED
  BY <1>1 DEF Active, Holders, Bares


\* As long as the store is undisturbed, each action keeps it in order.  A step that
\* would die contradicts the stage its process is at.
LEMMA OrderStep ==
    TypeOK /\ TypeOK' /\ Shape /\ Shape' /\ (Undisturbed => Orderly) /\ [Next]_vars
        => (Undisturbed => Orderly)'
<1> SUFFICES ASSUME TypeOK, TypeOK', Shape, Shape', Undisturbed => Orderly, [Next]_vars, Undisturbed'
             PROVE  Orderly'
  OBVIOUS
<1> USE StoreAssumption DEF Enter, Goto, diskVars, procVars, Undisturbed
<1>a. Active = {p \in Procs : Busy(p)} /\ Active' = {p \in Procs : Busy(p)'}
  BY ActiveBusy, ActiveBusyNext

<1>1. ASSUME NEW p \in Procs, Boot(p) PROVE Orderly'
  <2>0. Orderly
    BY <1>1 DEF Boot
  <2>1. Exclusive'
    BY <1>a, <1>1, <2>0 DEF TypeOK, Shape, Orderly, Exclusive, Busy, Boot
  <2>2. Active' = {} => AtRest'
    BY <1>a, <1>1, <2>0 DEF TypeOK, Shape, Orderly, Exclusive, AtRest, Stage,
       Busy, Boot
  <2>3. \A q \in Active' : Stage(q)'
    <3>1. \A q \in Active' : q # p /\ q \in Active
      BY <1>a, <1>1 DEF Boot, Busy, TypeOK
    <3>2. Active # {} => fstab
      BY <1>a DEF Busy, Shape
    <3>3. \A q \in Active' : mnt' = mnt
      BY <3>1, <3>2, <1>1 DEF Boot
    <3>q. QED
      BY <3>1, <3>3, <2>0, <1>1 DEF Orderly, Stage, Boot, TypeOK
  <2>4. \A q \in Procs : Memory(q)'
    BY <1>a, <1>1, <2>0 DEF TypeOK, Shape, Orderly, Exclusive, AtRest, Stage,
       Memory, Busy, Boot
  <2>5. Fresh'
    BY <1>a, <1>1, <2>0 DEF TypeOK, Shape, Orderly, Exclusive, AtRest, Stage,
       Memory, Busy, Fresh, Saving, Believed, Boot
  <2>q. QED
    BY <2>1, <2>2, <2>3, <2>4, <2>5 DEF Orderly
<1>2. ASSUME NEW p \in Procs, Load(p) PROVE Orderly'
  <2>0. Orderly
    BY <1>2 DEF Load
  <2>1. Exclusive'
    BY <1>a, <1>2, <2>0 DEF TypeOK, Shape, Orderly, Exclusive, Busy, Load
  <2>2. Active' = {} => AtRest'
    BY <1>a, <1>2, <2>0 DEF TypeOK, Shape, Orderly, Exclusive, AtRest, Stage,
       Busy, Load
  <2>3. \A q \in Active' : Stage(q)'
    BY <1>a, <1>2, <2>0, <2>1 DEF TypeOK, Shape, Orderly, Exclusive, AtRest,
       Stage, Memory, Busy, Load
  <2>4. \A q \in Procs : Memory(q)'
    BY <1>a, <1>2, <2>0 DEF TypeOK, Shape, Orderly, Exclusive, AtRest, Stage,
       Memory, Busy, Load
  <2>5. Fresh'
    BY <1>a, <1>2, <2>0 DEF TypeOK, Shape, Orderly, Exclusive, AtRest, Stage,
       Memory, Busy, Fresh, Saving, Believed, Load
  <2>q. QED
    BY <2>1, <2>2, <2>3, <2>4, <2>5 DEF Orderly
<1>3. ASSUME NEW p \in Procs, Reset(p) PROVE Orderly'
  <2>0. Orderly
    BY <1>3 DEF Reset
  <2>1. Exclusive'
    BY <1>a, <1>3, <2>0 DEF TypeOK, Shape, Orderly, Exclusive, Busy, Reset
  <2>2. Active' = {} => AtRest'
    BY <1>a, <1>3, <2>0 DEF TypeOK, Shape, Orderly, Exclusive, AtRest, Stage,
       Busy, Reset
  <2>3. \A q \in Active' : Stage(q)'
    BY <1>a, <1>3, <2>0, <2>1 DEF TypeOK, Shape, Orderly, Exclusive, AtRest,
       Stage, Memory, Busy, Reset
  <2>4. \A q \in Procs : Memory(q)'
    BY <1>a, <1>3, <2>0 DEF TypeOK, Shape, Orderly, Exclusive, AtRest, Stage,
       Memory, Busy, Reset
  <2>5. Fresh'
    BY <1>a, <1>3, <2>0 DEF TypeOK, Shape, Orderly, Exclusive, AtRest, Stage,
       Memory, Busy, Fresh, Saving, Believed, Reset
  <2>q. QED
    BY <2>1, <2>2, <2>3, <2>4, <2>5 DEF Orderly
<1>4. ASSUME NEW p \in Procs, Save(p) PROVE Orderly'
  <2>0. Orderly
    BY <1>4 DEF Save
  <2>1. Exclusive'
    BY <1>a, <1>4, <2>0 DEF TypeOK, Shape, Orderly, Exclusive, Busy, Save
  <2>2. Active' = {} => AtRest'
    BY <1>a, <1>4, <2>0 DEF TypeOK, Shape, Orderly, Exclusive, AtRest, Stage,
       Busy, Save
  <2>3. \A q \in Active' : Stage(q)'
    BY <1>a, <1>4, <2>0, <2>1 DEF TypeOK, Shape, Orderly, Exclusive, AtRest,
       Stage, Memory, Busy, Save
  <2>4. \A q \in Procs : Memory(q)'
    BY <1>a, <1>4, <2>0 DEF TypeOK, Shape, Orderly, Exclusive, AtRest, Stage,
       Memory, Busy, Save
  <2>5. Fresh'
    BY <1>a, <1>4, <2>0 DEF TypeOK, Shape, Orderly, Exclusive, AtRest, Stage,
       Memory, Busy, Fresh, Saving, Believed, Save
  <2>q. QED
    BY <2>1, <2>2, <2>3, <2>4, <2>5 DEF Orderly
<1>5. ASSUME NEW p \in Procs, Install(p) PROVE Orderly'
  <2>0. Orderly
    BY <1>5 DEF Install
  <2>1. Exclusive'
    BY <1>a, <1>5, <2>0 DEF TypeOK, Shape, Orderly, Exclusive, Busy, Install
  <2>2. Active' = {} => AtRest'
    BY <1>a, <1>5, <2>0 DEF TypeOK, Shape, Orderly, Exclusive, AtRest, Stage,
       Busy, Install
  <2>3. \A q \in Active' : Stage(q)'
    BY <1>a, <1>5, <2>0, <2>1 DEF TypeOK, Shape, Orderly, Exclusive, AtRest,
       Stage, Memory, Busy, Install
  <2>4. \A q \in Procs : Memory(q)'
    BY <1>a, <1>5, <2>0 DEF TypeOK, Shape, Orderly, Exclusive, AtRest, Stage,
       Memory, Busy, Install
  <2>5. Fresh'
    BY <1>a, <1>5, <2>0 DEF TypeOK, Shape, Orderly, Exclusive, AtRest, Stage,
       Memory, Busy, Fresh, Saving, Believed, Install
  <2>q. QED
    BY <2>1, <2>2, <2>3, <2>4, <2>5 DEF Orderly
<1>6. ASSUME NEW p \in Procs, Bare(p) PROVE Orderly'
  <2>0. Orderly
    BY <1>6 DEF Bare, Active, Holders, Bares
  <2>1. Exclusive'
    BY <1>a, <1>6, <2>0 DEF TypeOK, Shape, Orderly, Exclusive, Busy, Bare,
       Active, Holders, Bares
  <2>2. Active' = {} => AtRest'
    BY <1>a, <1>6, <2>0 DEF TypeOK, Shape, Orderly, Exclusive, AtRest, Stage,
       Busy, Bare, Active, Holders, Bares
  <2>3. \A q \in Active' : Stage(q)'
    BY <1>a, <1>6, <2>0, <2>1 DEF TypeOK, Shape, Orderly, Exclusive, AtRest,
       Stage, Memory, Busy, Bare, Active, Holders, Bares
  <2>4. \A q \in Procs : Memory(q)'
    BY <1>a, <1>6, <2>0 DEF TypeOK, Shape, Orderly, Exclusive, AtRest, Stage,
       Memory, Busy, Bare, Active, Holders, Bares
  <2>5. Fresh'
    BY <1>a, <1>6, <2>0 DEF TypeOK, Shape, Orderly, Exclusive, AtRest, Stage,
       Memory, Busy, Fresh, Saving, Believed, Bare, Active, Holders, Bares
  <2>q. QED
    BY <2>1, <2>2, <2>3, <2>4, <2>5 DEF Orderly
<1>7. ASSUME NEW p \in Procs, Finish(p) PROVE Orderly'
  <2>0. Orderly
    BY <1>7 DEF Finish
  <2>1. Exclusive'
    BY <1>a, <1>7, <2>0 DEF TypeOK, Shape, Orderly, Exclusive, Busy, Finish
  <2>2. Active' = {} => AtRest'
    BY <1>a, <1>7, <2>0 DEF TypeOK, Shape, Orderly, Exclusive, AtRest, Stage,
       Busy, Finish
  <2>3. \A q \in Active' : Stage(q)'
    BY <1>a, <1>7, <2>0, <2>1 DEF TypeOK, Shape, Orderly, Exclusive, AtRest,
       Stage, Memory, Busy, Finish
  <2>4. \A q \in Procs : Memory(q)'
    BY <1>a, <1>7, <2>0 DEF TypeOK, Shape, Orderly, Exclusive, AtRest, Stage,
       Memory, Busy, Finish
  <2>5. Fresh'
    BY <1>a, <1>7, <2>0 DEF TypeOK, Shape, Orderly, Exclusive, AtRest, Stage,
       Memory, Busy, Fresh, Saving, Believed, Finish
  <2>q. QED
    BY <2>1, <2>2, <2>3, <2>4, <2>5 DEF Orderly
<1>8. ASSUME NEW p \in Procs, PollLock(p) PROVE Orderly'
  <2>0. Orderly
    BY <1>8 DEF PollLock, FaultsEntering, Holders, Bares, Retry
  <2>1. Exclusive'
    BY <1>a, <1>8, <2>0 DEF TypeOK, Shape, Orderly, Exclusive, Busy, PollLock,
       FaultsEntering, Holders, Bares, Retry
  <2>2. Active' = {} => AtRest'
    BY <1>a, <1>8, <2>0 DEF TypeOK, Shape, Orderly, Exclusive, AtRest, Stage,
       Busy, PollLock, FaultsEntering, Holders, Bares, Retry
  <2>3. \A q \in Active' : Stage(q)'
    BY <1>a, <1>8, <2>0, <2>1 DEF TypeOK, Shape, Orderly, Exclusive, AtRest,
       Stage, Memory, Busy, PollLock, FaultsEntering, Holders, Bares, Retry
  <2>4. \A q \in Procs : Memory(q)'
    BY <1>a, <1>8, <2>0 DEF TypeOK, Shape, Orderly, Exclusive, AtRest, Stage,
       Memory, Busy, PollLock, FaultsEntering, Holders, Bares, Retry
  <2>5. Fresh'
    BY <1>a, <1>8, <2>0 DEF TypeOK, Shape, Orderly, Exclusive, AtRest, Stage,
       Memory, Busy, Fresh, Saving, Believed, PollLock, FaultsEntering, Holders,
       Bares, Retry
  <2>q. QED
    BY <2>1, <2>2, <2>3, <2>4, <2>5 DEF Orderly
<1>9. ASSUME NEW p \in Procs, Release(p) PROVE Orderly'
  <2>0. Orderly
    BY <1>9 DEF Release, AfterUnlock
  <2>1. Exclusive'
    BY <1>a, <1>9, <2>0 DEF TypeOK, Shape, Orderly, Exclusive, Busy, Release,
       AfterUnlock
  <2>2. Active' = {} => AtRest'
    BY <1>a, <1>9, <2>0 DEF TypeOK, Shape, Orderly, Exclusive, AtRest, Stage,
       Busy, Release, AfterUnlock
  <2>3. \A q \in Active' : Stage(q)'
    BY <1>a, <1>9, <2>0, <2>1 DEF TypeOK, Shape, Orderly, Exclusive, AtRest,
       Stage, Memory, Busy, Release, AfterUnlock
  <2>4. \A q \in Procs : Memory(q)'
    <3>1. p \in Active
      BY <1>a, <1>9 DEF Busy, Shape, Release
    <3>2. op[p] # "reset" => mem[p] \in Configs
      BY <3>1, <2>0, <1>9 DEF Orderly, Memory, Stage, Shape, TypeOK, Release, OpNames
    <3>3. Memory(p)'
      BY <3>2, <2>0, <1>9 DEF Orderly, Memory, Shape, TypeOK, Release, AfterUnlock
    <3>4. ASSUME NEW q \in Procs \ {p} PROVE Memory(q)'
      BY <3>4, <2>0, <1>9 DEF Orderly, Memory, TypeOK, Release, AfterUnlock
    <3>q. QED
      BY <3>3, <3>4
  <2>5. Fresh'
    BY <1>a, <1>9, <2>0 DEF TypeOK, Shape, Orderly, Exclusive, AtRest, Stage,
       Memory, Busy, Fresh, Saving, Believed, Release, AfterUnlock
  <2>q. QED
    BY <2>1, <2>2, <2>3, <2>4, <2>5 DEF Orderly
<1>10. ASSUME NEW p \in Procs, ReadCache(p) PROVE Orderly'
  <2>0. Orderly
    BY <1>10 DEF ReadCache, CacheUsable, Xml, Vol
  <2>1. Exclusive'
    BY <1>a, <1>10, <2>0 DEF TypeOK, Shape, Orderly, Exclusive, Busy, ReadCache,
       CacheUsable, Xml, Vol
  <2>2. Active' = {} => AtRest'
    BY <1>a, <1>10, <2>0 DEF TypeOK, Shape, Orderly, Exclusive, AtRest, Stage,
       Busy, ReadCache, CacheUsable, Xml, Vol
  <2>3. \A q \in Active' : Stage(q)'
    BY <1>a, <1>10, <2>0, <2>1 DEF TypeOK, Shape, Orderly, Exclusive, AtRest,
       Stage, Memory, Busy, ReadCache, CacheUsable, Xml, Vol
  <2>4. \A q \in Procs : Memory(q)'
    <3>1. p \in Active
      BY <1>a, <1>10 DEF Busy, Shape, ReadCache
    <3>2. file["cache"] \in Configs
      BY <3>1, <2>0, <1>10 DEF Orderly, Stage, TypeOK, Content, ReadCache, CacheUsable
    <3>q. QED
      BY <3>2, <2>0, <1>10 DEF Orderly, Memory, Shape, TypeOK, ReadCache
  <2>5. Fresh'
    BY <1>a, <1>10, <2>0 DEF TypeOK, Shape, Orderly, Exclusive, AtRest, Stage,
       Memory, Busy, Fresh, Saving, Believed, ReadCache, CacheUsable, Xml, Vol
  <2>q. QED
    BY <2>1, <2>2, <2>3, <2>4, <2>5 DEF Orderly
<1>11. ASSUME NEW p \in Procs, MissingAtBoot(p) PROVE Orderly'
  <2>0. Orderly
    BY <1>11 DEF MissingAtBoot, CacheUsable, Xml, Vol, Abort
  <2>1. p \in Active
    BY <1>a, <1>11 DEF Busy, Shape, MissingAtBoot
  <2>2. Stage(p)
    BY <2>0, <2>1 DEF Orderly
  <2>q. QED
    BY <1>11, <2>2, <2>1 DEF Stage, MissingAtBoot, CacheUsable, Xml, Vol
<1>12. ASSUME NEW p \in Procs, MissingLater(p) PROVE Orderly'
  <2>0. Orderly
    BY <1>12 DEF MissingLater, CacheUsable, Xml, Vol
  <2>1. Exclusive'
    BY <1>a, <1>12, <2>0 DEF TypeOK, Shape, Orderly, Exclusive, Busy,
       MissingLater, CacheUsable, Xml, Vol
  <2>2. Active' = {} => AtRest'
    BY <1>a, <1>12, <2>0 DEF TypeOK, Shape, Orderly, Exclusive, AtRest, Stage,
       Busy, MissingLater, CacheUsable, Xml, Vol
  <2>3. \A q \in Active' : Stage(q)'
    BY <1>a, <1>12, <2>0, <2>1 DEF TypeOK, Shape, Orderly, Exclusive, AtRest,
       Stage, Memory, Busy, MissingLater, CacheUsable, Xml, Vol
  <2>4. \A q \in Procs : Memory(q)'
    BY <1>a, <1>12, <2>0 DEF TypeOK, Shape, Orderly, Exclusive, AtRest, Stage,
       Memory, Busy, MissingLater, CacheUsable, Xml, Vol
  <2>5. Fresh'
    BY <1>a, <1>12, <2>0 DEF TypeOK, Shape, Orderly, Exclusive, AtRest, Stage,
       Memory, Busy, Fresh, Saving, Believed, MissingLater, CacheUsable, Xml,
       Vol
  <2>q. QED
    BY <2>1, <2>2, <2>3, <2>4, <2>5 DEF Orderly
<1>13. ASSUME NEW p \in Procs, StartParse(p) PROVE Orderly'
  <2>0. Orderly
    BY <1>13 DEF StartParse, CacheUsable, Xml, Vol
  <2>1. Exclusive'
    BY <1>a, <1>13, <2>0 DEF TypeOK, Shape, Orderly, Exclusive, Busy,
       StartParse, CacheUsable, Xml, Vol
  <2>2. Active' = {} => AtRest'
    BY <1>a, <1>13, <2>0 DEF TypeOK, Shape, Orderly, Exclusive, AtRest, Stage,
       Busy, StartParse, CacheUsable, Xml, Vol
  <2>3. \A q \in Active' : Stage(q)'
    BY <1>a, <1>13, <2>0, <2>1 DEF TypeOK, Shape, Orderly, Exclusive, AtRest,
       Stage, Memory, Busy, StartParse, CacheUsable, Xml, Vol
  <2>4. \A q \in Procs : Memory(q)'
    BY <1>a, <1>13, <2>0 DEF TypeOK, Shape, Orderly, Exclusive, AtRest, Stage,
       Memory, Busy, StartParse, CacheUsable, Xml, Vol
  <2>5. Fresh'
    BY <1>a, <1>13, <2>0 DEF TypeOK, Shape, Orderly, Exclusive, AtRest, Stage,
       Memory, Busy, Fresh, Saving, Believed, StartParse, CacheUsable, Xml, Vol
  <2>q. QED
    BY <2>1, <2>2, <2>3, <2>4, <2>5 DEF Orderly
<1>14. ASSUME NEW p \in Procs, Parse(p) PROVE Orderly'
  <2>0. Orderly
    BY <1>14 DEF Parse, Xml, Vol, Abort
  <2>a. p \in Active
    BY <1>a, <1>14 DEF Busy, Shape, Parse
  <2>b. Xml \in Configs
    BY <1>14, <2>0, <2>a DEF Orderly, Stage, Parse, Xml, Vol
  <2>1. Exclusive'
    BY <1>a, <1>14, <2>0, <2>b DEF TypeOK, Shape, Orderly, Exclusive, Busy,
       Parse, Xml, Vol
  <2>2. Active' = {} => AtRest'
    BY <1>a, <1>14, <2>0, <2>b DEF TypeOK, Shape, Orderly, Exclusive, AtRest,
       Stage, Busy, Parse, Xml, Vol
  <2>3. \A q \in Active' : Stage(q)'
    BY <1>a, <1>14, <2>0, <2>1, <2>b DEF TypeOK, Shape, Orderly, Exclusive,
       AtRest, Stage, Memory, Busy, Parse, Xml, Vol
  <2>4. \A q \in Procs : Memory(q)'
    BY <1>a, <1>14, <2>0, <2>b DEF TypeOK, Shape, Orderly, Exclusive, AtRest,
       Stage, Memory, Busy, Parse, Xml, Vol
  <2>5. Fresh'
    BY <1>a, <1>14, <2>0, <2>b DEF TypeOK, Shape, Orderly, Exclusive, AtRest,
       Stage, Memory, Busy, Fresh, Saving, Believed, Parse, Xml, Vol
  <2>q. QED
    BY <2>1, <2>2, <2>3, <2>4, <2>5 DEF Orderly
<1>15. ASSUME NEW p \in Procs, CacheOpen(p) PROVE Orderly'
  <2>0. Orderly
    BY <1>15 DEF CacheOpen, Put
  <2>1. Exclusive'
    BY <1>a, <1>15, <2>0 DEF TypeOK, Shape, Orderly, Exclusive, Busy, CacheOpen, Put
  <2>2. Active' = {} => AtRest'
    BY <1>a, <1>15, <2>0 DEF TypeOK, Shape, Orderly, Exclusive, AtRest, Stage,
       Busy, CacheOpen, Put
  <2>3. \A q \in Active' : Stage(q)'
    BY <1>a, <1>15, <2>0, <2>1 DEF TypeOK, Shape, Orderly, Exclusive, AtRest,
       Stage, Memory, Busy, CacheOpen, Put
  <2>4. \A q \in Procs : Memory(q)'
    BY <1>a, <1>15, <2>0 DEF TypeOK, Shape, Orderly, Exclusive, AtRest, Stage,
       Memory, Busy, CacheOpen, Put
  <2>5. Fresh'
    BY <1>a, <1>15, <2>0 DEF TypeOK, Shape, Orderly, Exclusive, AtRest, Stage,
       Memory, Busy, Fresh, Saving, Believed, CacheOpen, Put
  <2>q. QED
    BY <2>1, <2>2, <2>3, <2>4, <2>5 DEF Orderly
<1>16. ASSUME NEW p \in Procs, CacheWrite(p) PROVE Orderly'
  <2>0. Orderly
    BY <1>16 DEF CacheWrite, Put
  <2>1. Exclusive'
    BY <1>a, <1>16, <2>0 DEF TypeOK, Shape, Orderly, Exclusive, Busy, CacheWrite, Put
  <2>2. Active' = {} => AtRest'
    BY <1>a, <1>16, <2>0 DEF TypeOK, Shape, Orderly, Exclusive, AtRest, Stage,
       Busy, CacheWrite, Put
  <2>3. \A q \in Active' : Stage(q)'
    BY <1>a, <1>16, <2>0, <2>1 DEF TypeOK, Shape, Orderly, Exclusive, AtRest,
       Stage, Memory, Busy, CacheWrite, Put
  <2>4. \A q \in Procs : Memory(q)'
    BY <1>a, <1>16, <2>0 DEF TypeOK, Shape, Orderly, Exclusive, AtRest, Stage,
       Memory, Busy, CacheWrite, Put
  <2>5. Fresh'
    BY <1>a, <1>16, <2>0 DEF TypeOK, Shape, Orderly, Exclusive, AtRest, Stage,
       Memory, Busy, Fresh, Saving, Believed, CacheWrite, Put
  <2>q. QED
    BY <2>1, <2>2, <2>3, <2>4, <2>5 DEF Orderly
<1>17. ASSUME NEW p \in Procs, Umount(p) PROVE Orderly'
  <2>0. Orderly
    BY <1>17 DEF Umount
  <2>1. Exclusive'
    BY <1>a, <1>17, <2>0 DEF TypeOK, Shape, Orderly, Exclusive, Busy, Umount
  <2>2. Active' = {} => AtRest'
    BY <1>a, <1>17, <2>0 DEF TypeOK, Shape, Orderly, Exclusive, AtRest, Stage,
       Busy, Umount
  <2>3. \A q \in Active' : Stage(q)'
    BY <1>a, <1>17, <2>0, <2>1 DEF TypeOK, Shape, Orderly, Exclusive, AtRest,
       Stage, Memory, Busy, Umount
  <2>4. \A q \in Procs : Memory(q)'
    BY <1>a, <1>17, <2>0 DEF TypeOK, Shape, Orderly, Exclusive, AtRest, Stage,
       Memory, Busy, Umount
  <2>5. Fresh'
    BY <1>a, <1>17, <2>0 DEF TypeOK, Shape, Orderly, Exclusive, AtRest, Stage,
       Memory, Busy, Fresh, Saving, Believed, Umount
  <2>q. QED
    BY <2>1, <2>2, <2>3, <2>4, <2>5 DEF Orderly
<1>18. ASSUME NEW p \in Procs, MountRw(p) PROVE Orderly'
  <2>0. Orderly
    BY <1>18 DEF MountRw
  <2>1. Exclusive'
    BY <1>a, <1>18, <2>0 DEF TypeOK, Shape, Orderly, Exclusive, Busy, MountRw
  <2>2. Active' = {} => AtRest'
    BY <1>a, <1>18, <2>0 DEF TypeOK, Shape, Orderly, Exclusive, AtRest, Stage,
       Busy, MountRw
  <2>3. \A q \in Active' : Stage(q)'
    BY <1>a, <1>18, <2>0, <2>1 DEF TypeOK, Shape, Orderly, Exclusive, AtRest,
       Stage, Memory, Busy, MountRw
  <2>4. \A q \in Procs : Memory(q)'
    BY <1>a, <1>18, <2>0 DEF TypeOK, Shape, Orderly, Exclusive, AtRest, Stage,
       Memory, Busy, MountRw
  <2>5. Fresh'
    BY <1>a, <1>18, <2>0 DEF TypeOK, Shape, Orderly, Exclusive, AtRest, Stage,
       Memory, Busy, Fresh, Saving, Believed, MountRw
  <2>q. QED
    BY <2>1, <2>2, <2>3, <2>4, <2>5 DEF Orderly
<1>19. ASSUME NEW p \in Procs, MountRo(p) PROVE Orderly'
  <2>0. Orderly
    BY <1>19 DEF MountRo
  <2>1. Exclusive'
    BY <1>a, <1>19, <2>0 DEF TypeOK, Shape, Orderly, Exclusive, Busy, MountRo
  <2>2. Active' = {} => AtRest'
    BY <1>a, <1>19, <2>0 DEF TypeOK, Shape, Orderly, Exclusive, AtRest, Stage,
       Busy, MountRo
  <2>3. \A q \in Active' : Stage(q)'
    BY <1>a, <1>19, <2>0, <2>1 DEF TypeOK, Shape, Orderly, Exclusive, AtRest,
       Stage, Memory, Busy, MountRo
  <2>4. \A q \in Procs : Memory(q)'
    BY <1>a, <1>19, <2>0 DEF TypeOK, Shape, Orderly, Exclusive, AtRest, Stage,
       Memory, Busy, MountRo
  <2>5. Fresh'
    BY <1>a, <1>19, <2>0 DEF TypeOK, Shape, Orderly, Exclusive, AtRest, Stage,
       Memory, Busy, Fresh, Saving, Believed, MountRo
  <2>q. QED
    BY <2>1, <2>2, <2>3, <2>4, <2>5 DEF Orderly
<1>20. ASSUME NEW p \in Procs, Clear(p) PROVE Orderly'
  <2>0. Orderly
    BY <1>20 DEF Clear, Vol
  <2>1. Exclusive'
    BY <1>a, <1>20, <2>0 DEF TypeOK, Shape, Orderly, Exclusive, Busy, Clear, Vol
  <2>2. Active' = {} => AtRest'
    BY <1>a, <1>20, <2>0 DEF TypeOK, Shape, Orderly, Exclusive, AtRest, Stage,
       Busy, Clear, Vol
  <2>3. \A q \in Active' : Stage(q)'
    BY <1>a, <1>20, <2>0, <2>1 DEF TypeOK, Shape, Orderly, Exclusive, AtRest,
       Stage, Memory, Busy, Clear, Vol
  <2>4. \A q \in Procs : Memory(q)'
    BY <1>a, <1>20, <2>0 DEF TypeOK, Shape, Orderly, Exclusive, AtRest, Stage,
       Memory, Busy, Clear, Vol
  <2>5. Fresh'
    BY <1>a, <1>20, <2>0 DEF TypeOK, Shape, Orderly, Exclusive, AtRest, Stage,
       Memory, Busy, Fresh, Saving, Believed, Clear, Vol
  <2>q. QED
    BY <2>1, <2>2, <2>3, <2>4, <2>5 DEF Orderly
<1>21. ASSUME NEW p \in Procs, Open(p) PROVE Orderly'
  <2>0. Orderly
    BY <1>21 DEF Open, Put, Vol
  <2>1. Exclusive'
    BY <1>a, <1>21, <2>0 DEF TypeOK, Shape, Orderly, Exclusive, Busy, Open, Put, Vol
  <2>2. Active' = {} => AtRest'
    BY <1>a, <1>21, <2>0 DEF TypeOK, Shape, Orderly, Exclusive, AtRest, Stage,
       Busy, Open, Put, Vol
  <2>3. \A q \in Active' : Stage(q)'
    <3>1. p \in Active /\ Active' \subseteq {p}
      BY <1>a, <2>0, <2>1, <1>21 DEF Orderly, Exclusive, Busy, Shape, TypeOK, Open
    <3>2. mnt = "rw" /\ file["cache"] # Torn
      BY <3>1, <2>0, <1>21 DEF Orderly, Stage, Open
    <3>3. op[p] # "save" /\ faults' = {} /\ file["cache"] # Missing => mtime["cache"] < now
      BY <1>21 DEF Open, TypeOK, Shape
    <3>4. Stage(p)'
      BY <3>2, <3>3, <1>21 DEF Stage, TypeOK, Open, Put, Vol
    <3>q. QED
      BY <3>1, <3>4
  <2>4. \A q \in Procs : Memory(q)'
    BY <1>a, <1>21, <2>0 DEF TypeOK, Shape, Orderly, Exclusive, AtRest, Stage,
       Memory, Busy, Open, Put, Vol
  <2>5. Fresh'
    BY <1>a, <1>21, <2>0 DEF TypeOK, Shape, Orderly, Exclusive, AtRest, Stage,
       Memory, Busy, Fresh, Saving, Believed, Open, Put, Vol
  <2>q. QED
    BY <2>1, <2>2, <2>3, <2>4, <2>5 DEF Orderly
<1>22. ASSUME NEW p \in Procs, OpenFails(p) PROVE Orderly'
  <2>0. Orderly
    BY <1>22 DEF OpenFails, Abort
  <2>1. p \in Active
    BY <1>a, <1>22 DEF Busy, Shape, OpenFails
  <2>2. Stage(p)
    BY <2>0, <2>1 DEF Orderly
  <2>q. QED
    BY <1>22, <2>2, <2>1 DEF Stage, OpenFails
<1>23. ASSUME NEW p \in Procs, Write(p) PROVE Orderly'
  <2>0. Orderly
    BY <1>23 DEF Write, Put
  <2>1. Exclusive'
    BY <1>a, <1>23, <2>0 DEF TypeOK, Shape, Orderly, Exclusive, Busy, Write, Put
  <2>2. Active' = {} => AtRest'
    BY <1>a, <1>23, <2>0 DEF TypeOK, Shape, Orderly, Exclusive, AtRest, Stage,
       Busy, Write, Put
  <2>3. \A q \in Active' : Stage(q)'
    BY <1>a, <1>23, <2>0, <2>1 DEF TypeOK, Shape, Orderly, Exclusive, AtRest,
       Stage, Memory, Busy, Write, Put
  <2>4. \A q \in Procs : Memory(q)'
    BY <1>a, <1>23, <2>0 DEF TypeOK, Shape, Orderly, Exclusive, AtRest, Stage,
       Memory, Busy, Write, Put
  <2>5. Fresh'
    BY <1>a, <1>23, <2>0 DEF TypeOK, Shape, Orderly, Exclusive, AtRest, Stage,
       Memory, Busy, Fresh, Saving, Believed, Write, Put
  <2>q. QED
    BY <2>1, <2>2, <2>3, <2>4, <2>5 DEF Orderly
<1>24. ASSUME Tick PROVE Orderly'
  <2>0. Orderly
    BY <1>24 DEF Tick
  <2>1. Exclusive'
    BY <1>a, <1>24, <2>0 DEF TypeOK, Shape, Orderly, Exclusive, Busy, Tick
  <2>2. Active' = {} => AtRest'
    BY <1>a, <1>24, <2>0 DEF TypeOK, Shape, Orderly, Exclusive, AtRest, Stage,
       Busy, Tick
  <2>3. \A q \in Active' : Stage(q)'
    BY <1>a, <1>24, <2>0, <2>1 DEF TypeOK, Shape, Orderly, Exclusive, AtRest,
       Stage, Memory, Busy, Tick
  <2>4. \A q \in Procs : Memory(q)'
    BY <1>a, <1>24, <2>0 DEF TypeOK, Shape, Orderly, Exclusive, AtRest, Stage,
       Memory, Busy, Tick
  <2>5. Fresh'
    BY <1>a, <1>24, <2>0 DEF TypeOK, Shape, Orderly, Exclusive, AtRest, Stage,
       Memory, Busy, Fresh, Saving, Believed, Tick
  <2>q. QED
    BY <2>1, <2>2, <2>3, <2>4, <2>5 DEF Orderly
<1>25. ASSUME PowerLoss PROVE Orderly'
  <2>1. Exclusive'
    BY <1>a, <1>25 DEF Exclusive, Busy, PowerLoss
  <2>2. AtRest'
    BY <1>25 DEF TypeOK, AtRest, PowerLoss
  <2>3. \A q \in Active' : Stage(q)'
    BY <1>a, <1>25 DEF Busy, PowerLoss
  <2>4. \A q \in Procs : Memory(q)'
    BY <1>25 DEF Memory, PowerLoss
  <2>5. Fresh'
    BY <1>25 DEF TypeOK, Fresh, Content, PowerLoss
  <2>q. QED
    BY <2>1, <2>2, <2>3, <2>4, <2>5 DEF Orderly
<1>26. ASSUME UNCHANGED vars PROVE Orderly'
  BY <1>26 DEF vars, lockVars, Orderly, Exclusive, Active, Holders, Bares, AtRest,
     Stage, Memory, Fresh, Saving, Believed
<1>q. QED
  BY <1>1, <1>2, <1>3, <1>4, <1>5, <1>6, <1>7, <1>8, <1>9, <1>10, <1>11, <1>12,
     <1>13, <1>14, <1>15, <1>16, <1>17, <1>18, <1>19, <1>20, <1>21, <1>22, <1>23,
     <1>24, <1>25, <1>26 DEF Next, Ask, Step

\* The inductive invariant.
StoreIInv == TypeOK /\ LockInv /\ StoreInv

\* It holds of the box switched on.
LEMMA StoreInitInv == Init => StoreIInv
<1> SUFFICES ASSUME Init PROVE StoreIInv
  OBVIOUS
<1> USE StoreAssumption, LockAssumption DEF Init
<1>1. LockInv
  BY LockInitInv
<1>2. /\ handle \in [Procs -> {"flash", "ram", NoFile}]
      /\ pc \in [Procs -> Labels] /\ op \in [Procs -> OpNames]
  BY DEF Labels, OpNames
<1>3. booting \in [Procs -> BOOLEAN]
  OBVIOUS
<1>4. val \in [Procs -> Configs] /\ mem \in [Procs -> Configs \cup {NoConfig}]
  OBVIOUS
<1>5. file \in [{"flash", "ram", "cache"} -> Content]
  BY DEF Content
<1>m. mtime \in [{"flash", "ram", "cache"} -> 0..MaxClock]
  OBVIOUS
<1>6. TypeOK
  BY <1>1, <1>m, <1>2, <1>3, <1>4, <1>5 DEF TypeOK, LockInv, FaultNames
<1>7. Shape
  BY DEF LockInit, Shape
<1>8. Active = {}
  BY <1>6, <1>7, ActiveBusy DEF Busy
<1>9. Orderly
  BY <1>8 DEF Orderly, Exclusive, AtRest, Memory, Fresh
<1>q. QED
  BY <1>1, <1>6, <1>7, <1>9 DEF StoreIInv, StoreInv

\* Every step keeps it.
LEMMA StoreStepInv == StoreIInv /\ [Next]_vars => StoreIInv'
<1> SUFFICES ASSUME StoreIInv, [Next]_vars PROVE StoreIInv'
  OBVIOUS
<1> USE DEF StoreIInv, StoreInv
<1>1. LockInv'
  BY StoreUsesLock, LockStepInv
<1>2. TypeOK'
  BY <1>1, TypeStep DEF LockInv
<1>3. Shape'
  BY <1>2, ShapeStep
<1>4. (Undisturbed => Orderly)'
  BY <1>2, <1>3, OrderStep
<1>q. QED
  BY <1>1, <1>2, <1>3, <1>4

\* It holds for ever.
LEMMA StoreInvariant == Spec => []StoreIInv
  BY StoreInitInv, StoreStepInv, PTL DEF Spec

\* Every variable keeps its type, whoever dies, breaks in or remounts.
THEOREM TypeCorrect == Spec => []TypeOK
<1>1. StoreIInv => TypeOK
  BY DEF StoreIInv
<1>q. QED
  BY <1>1, StoreInvariant, PTL

\* The invariant the runs check is one of the specification.
THEOREM StoreStaysOrderly == Spec => []StoreInv
<1>1. StoreIInv => StoreInv
  BY DEF StoreIInv
<1>q. QED
  BY <1>1, StoreInvariant, PTL

\* config.inc uses config_lock() and config_unlock() as ConfigLock lets processes use
\* them, so what is proved of the lock holds of the store.
THEOREM UsesLock == Spec => LockSpec
<1>1. Init => LockInit
  BY DEF Init
<1>q. QED
  BY <1>1, StoreUsesLock, PTL DEF Spec, LockSpec

\* Undisturbed, config.xml is whole and /conf read-only between sections.
THEOREM StoreWholeAtRest == Spec => []WholeAtRest
<1>1. StoreIInv => WholeAtRest
  BY DEF StoreIInv, StoreInv, Orderly, AtRest, WholeAtRest
<1>q. QED
  BY <1>1, StoreInvariant, PTL

\* Undisturbed, write_config() unlocks with config.xml, config.cache and $config all
\* holding what it was asked to save.
THEOREM StoreSaves == Spec => []SaveStored
<1>1. StoreIInv => SaveStored
  <2> SUFFICES ASSUME StoreIInv, NEW p \in Procs, Undisturbed, pc[p] = "unlock", op[p] = "save"
               PROVE  file["flash"] = val[p] /\ file["cache"] = val[p] /\ mem[p] = val[p]
    BY DEF SaveStored
  <2>1. p \in Active
    BY ActiveBusy DEF StoreIInv, StoreInv, Busy
  <2>q. QED
    BY <2>1 DEF StoreIInv, StoreInv, Orderly, Stage
<1>q. QED
  BY <1>1, StoreInvariant, PTL

\* Undisturbed, no request goes on without a configuration.
THEOREM StoreLoadsWhole == Spec => []LoadedWhole
<1>1. StoreIInv => LoadedWhole
  BY DEF StoreIInv, StoreInv, Orderly, Memory, LoadedWhole
<1>q. QED
  BY <1>1, StoreInvariant, PTL

\* Undisturbed, no request dies in its section and leaves the lock file behind.
THEOREM StoreNoDeath == Spec => []NoDeath
<1>1. StoreIInv => NoDeath
  <2> SUFFICES ASSUME StoreIInv, NEW p \in Procs, Undisturbed, Dying(p) PROVE FALSE
    BY DEF NoDeath
  <2>1. p \in Active
    BY ActiveBusy DEF StoreIInv, StoreInv, Shape, Busy, Dying
  <2>2. Stage(p)
    BY <2>1 DEF StoreIInv, StoreInv, Orderly
  <2>q. QED
    BY <2>2, StoreAssumption DEF Stage, Dying, Xml, Vol
<1>q. QED
  BY <1>1, StoreInvariant, PTL

\* Undisturbed, a cache newer than config.xml holds the same configuration.
THEOREM StoreCacheMatches == Spec => []NewerCacheMatches
<1>1. StoreIInv => NewerCacheMatches
  <2> SUFFICES ASSUME StoreIInv, Undisturbed, Active = {}, mtime["cache"] > mtime["flash"]
               PROVE  file["cache"] = file["flash"]
    BY DEF NewerCacheMatches
  <2>1. Orderly /\ TypeOK /\ Shape
    BY DEF StoreIInv, StoreInv
  <2>2. file["flash"] \in Configs /\ file["cache"] \in Configs
    BY <2>1 DEF Orderly, AtRest, TypeOK, Shape, Content
  <2>3. Believed /\ ~Saving
    BY <2>1 DEF TypeOK, Believed, Saving
  <2>q. QED
    BY <2>1, <2>2, <2>3 DEF Orderly, Fresh
<1>q. QED
  BY <1>1, StoreInvariant, PTL


\* The stored configuration is that of the file, or of whoever is writing it.
LEMMA CurrentSame ==
    ASSUME file'["flash"] = file["flash"], Writing' = Writing,
           \A q \in Writing : val'[q] = val[q]
    PROVE  Current' = Current
<1>1. ASSUME Writing # {}
      PROVE  val'[CHOOSE q \in Writing' : TRUE] = val[CHOOSE q \in Writing : TRUE]
  <2>1. (CHOOSE q \in Writing : TRUE) \in Writing
    BY <1>1
  <2>q. QED
    BY <2>1
<1>q. QED
  BY <1>1 DEF Current

\* One process's part of Pending.
PendingOf(p) == IF Unstored(p) THEN val[p] ELSE NoConfig

\* Pending, component by component.
LEMMA PendingSame ==
    ASSUME \A q \in Procs : PendingOf(q)' = PendingOf(q)
    PROVE  Pending' = Pending
  BY DEF Pending, PendingOf

\* What one process asks or has stored changes its own component.
LEMMA PendingChange ==
    ASSUME NEW p \in Procs, NEW c, PendingOf(p)' = c,
           \A q \in Procs \ {p} : PendingOf(q)' = PendingOf(q)
    PROVE  Pending' = [Pending EXCEPT ![p] = c]
  BY DEF Pending, PendingOf

\* The box switched on is a register at its start.
LEMMA RegisterInit == TypeOK /\ Init => Register!RegInit
<1> SUFFICES ASSUME TypeOK, Init PROVE Register!RegInit
  OBVIOUS
<1>0. PICK c \in Configs : file = [flash |-> c, ram |-> Missing, cache |-> Missing]
  BY DEF Init
<1>1. Current \in Configs
  <2>1. file["flash"] = c
    BY <1>0
  <2>q. QED
    BY <2>1, StoreAssumption DEF Current
<1>2. Pending = [p \in Procs |-> NoConfig]
  BY DEF Init, Pending, Unstored
<1>q. QED
  BY <1>1, <1>2 DEF Init, Register!RegInit


\* With no fault, every step of the store is a step of the register or none.
LEMMA RegisterStep ==
    StoreIInv /\ StoreIInv' /\ faults = {} /\ faults' = {} /\ [Next]_vars
        => [Register!RegNext]_Register!regVars
<1> SUFFICES ASSUME StoreIInv, StoreIInv', faults = {}, faults' = {}, [Next]_vars
             PROVE  Register!RegNext \/ UNCHANGED <<Current, mem, Pending>>
  BY DEF Register!regVars
<1> USE StoreAssumption DEF Enter, Goto, diskVars, procVars
<1>a. TypeOK /\ TypeOK' /\ Shape /\ Shape' /\ Orderly
  BY DEF StoreIInv, StoreInv, Undisturbed
<1>b. Active = {p \in Procs : Busy(p)}
  BY <1>a, ActiveBusy
<1>c. \A p \in Procs : Undisturbed /\ p \in Active => Stage(p)
  BY <1>a DEF Orderly
<1>d. Undisturbed
  BY DEF Undisturbed
<1>1. ASSUME NEW p \in Procs, Boot(p)
      PROVE  Register!RegNext \/ UNCHANGED <<Current, mem, Pending>>
  <2>1. Writing' = Writing /\ \A q \in Writing : val'[q] = val[q]
    BY <1>a, <1>1 DEF TypeOK, Writing, Boot
  <2>2. file'["flash"] = file["flash"]
    BY <1>a, <1>1 DEF TypeOK, Boot
  <2>3. Current' = Current
    BY <2>1, <2>2, CurrentSame
  <2>4. \A q \in Procs : PendingOf(q)' = PendingOf(q)
    BY <1>a, <1>1 DEF TypeOK, Shape, PendingOf, Unstored, Boot
  <2>5. Pending' = Pending
    BY <2>4, PendingSame
  <2>q. QED
    BY <2>3, <2>5, <1>1 DEF Boot
<1>2. ASSUME NEW p \in Procs, Load(p)
      PROVE  Register!RegNext \/ UNCHANGED <<Current, mem, Pending>>
  <2>1. Writing' = Writing /\ \A q \in Writing : val'[q] = val[q]
    BY <1>a, <1>2 DEF TypeOK, Writing, Load
  <2>2. file'["flash"] = file["flash"]
    BY <1>a, <1>2 DEF TypeOK, Load
  <2>3. Current' = Current
    BY <2>1, <2>2, CurrentSame
  <2>4. \A q \in Procs : PendingOf(q)' = PendingOf(q)
    BY <1>a, <1>2 DEF TypeOK, Shape, PendingOf, Unstored, Load
  <2>5. Pending' = Pending
    BY <2>4, PendingSame
  <2>q. QED
    BY <2>3, <2>5, <1>2 DEF Load
<1>3. ASSUME NEW p \in Procs, Reset(p)
      PROVE  Register!RegNext \/ UNCHANGED <<Current, mem, Pending>>
  <2>1. Writing' = Writing /\ \A q \in Writing : val'[q] = val[q]
    BY <1>a, <1>3 DEF TypeOK, Writing, Reset
  <2>2. file'["flash"] = file["flash"]
    BY <1>a, <1>3 DEF TypeOK, Reset
  <2>3. Current' = Current
    BY <2>1, <2>2, CurrentSame
  <2>4. PICK c \in Configs : PendingOf(p)' = c
    BY <1>a, <1>3 DEF TypeOK, PendingOf, Unstored, Reset
  <2>5. \A q \in Procs \ {p} : PendingOf(q)' = PendingOf(q)
    BY <1>a, <1>3 DEF TypeOK, PendingOf, Unstored, Reset
  <2>6. Pending' = [Pending EXCEPT ![p] = c] /\ Pending[p] = NoConfig
    BY <1>a, <2>4, <2>5, <1>3, PendingChange DEF Pending, Unstored, Shape, Reset
  <2>q. QED
    BY <2>3, <2>6, <1>3 DEF Register!RegNext, Register!RegAsk, Register!RegAskFor, Reset
<1>4. ASSUME NEW p \in Procs, Save(p)
      PROVE  Register!RegNext \/ UNCHANGED <<Current, mem, Pending>>
  <2>1. Writing' = Writing /\ \A q \in Writing : val'[q] = val[q]
    BY <1>a, <1>4 DEF TypeOK, Writing, Save
  <2>2. file'["flash"] = file["flash"]
    BY <1>a, <1>4 DEF TypeOK, Save
  <2>3. Current' = Current
    BY <2>1, <2>2, CurrentSame
  <2>4. PICK c \in Configs : PendingOf(p)' = c
    BY <1>a, <1>4 DEF TypeOK, PendingOf, Unstored, Save
  <2>5. \A q \in Procs \ {p} : PendingOf(q)' = PendingOf(q)
    BY <1>a, <1>4 DEF TypeOK, PendingOf, Unstored, Save
  <2>6. Pending' = [Pending EXCEPT ![p] = c] /\ Pending[p] = NoConfig
    BY <1>a, <2>4, <2>5, <1>4, PendingChange DEF Pending, Unstored, Shape, Save
  <2>q. QED
    BY <2>3, <2>6, <1>4 DEF Register!RegNext, Register!RegAsk, Register!RegAskFor, Save
<1>5. ASSUME NEW p \in Procs, Install(p)
      PROVE  Register!RegNext \/ UNCHANGED <<Current, mem, Pending>>
  <2>1. Writing' = Writing /\ \A q \in Writing : val'[q] = val[q]
    BY <1>a, <1>5 DEF TypeOK, Writing, Install
  <2>2. file'["flash"] = file["flash"]
    BY <1>a, <1>5 DEF TypeOK, Install
  <2>3. Current' = Current
    BY <2>1, <2>2, CurrentSame
  <2>4. PICK c \in Configs : PendingOf(p)' = c
    BY <1>a, <1>5 DEF TypeOK, PendingOf, Unstored, Install
  <2>5. \A q \in Procs \ {p} : PendingOf(q)' = PendingOf(q)
    BY <1>a, <1>5 DEF TypeOK, PendingOf, Unstored, Install
  <2>6. Pending' = [Pending EXCEPT ![p] = c] /\ Pending[p] = NoConfig
    BY <1>a, <2>4, <2>5, <1>5, PendingChange DEF Pending, Unstored, Shape, Install
  <2>q. QED
    BY <2>3, <2>6, <1>5 DEF Register!RegNext, Register!RegAsk, Register!RegAskFor, Install
<1>6. ASSUME NEW p \in Procs, Bare(p)
      PROVE  Register!RegNext \/ UNCHANGED <<Current, mem, Pending>>
  <2>1. Writing' = Writing /\ \A q \in Writing : val'[q] = val[q]
    BY <1>a, <1>6 DEF TypeOK, Writing, Bare
  <2>2. file'["flash"] = file["flash"]
    BY <1>a, <1>6 DEF TypeOK, Bare, Active, Holders, Bares
  <2>3. Current' = Current
    BY <2>1, <2>2, CurrentSame
  <2>4. \A q \in Procs : PendingOf(q)' = PendingOf(q)
    BY <1>a, <1>6 DEF TypeOK, Shape, PendingOf, Unstored, Bare, Active, Holders, Bares
  <2>5. Pending' = Pending
    BY <2>4, PendingSame
  <2>q. QED
    BY <2>3, <2>5, <1>6 DEF Bare
<1>7. ASSUME NEW p \in Procs, Finish(p)
      PROVE  Register!RegNext \/ UNCHANGED <<Current, mem, Pending>>
  <2>1. Writing' = Writing /\ \A q \in Writing : val'[q] = val[q]
    BY <1>a, <1>7 DEF TypeOK, Writing, Finish
  <2>2. file'["flash"] = file["flash"]
    BY <1>a, <1>7 DEF TypeOK, Finish
  <2>3. Current' = Current
    BY <2>1, <2>2, CurrentSame
  <2>4. \A q \in Procs : PendingOf(q)' = PendingOf(q)
    BY <1>a, <1>7 DEF TypeOK, Shape, PendingOf, Unstored, Finish
  <2>5. Pending' = Pending
    BY <2>4, PendingSame
  <2>q. QED
    BY <2>3, <2>5, <1>7 DEF Register!RegNext, Register!RegForget, Finish
<1>8. ASSUME NEW p \in Procs, PollLock(p)
      PROVE  Register!RegNext \/ UNCHANGED <<Current, mem, Pending>>
  <2>1. Writing' = Writing /\ \A q \in Writing : val'[q] = val[q]
    BY <1>a, <1>8 DEF TypeOK, Writing, PollLock
  <2>2. file'["flash"] = file["flash"]
    BY <1>a, <1>8 DEF TypeOK, PollLock, FaultsEntering, Holders, Bares, Retry
  <2>3. Current' = Current
    BY <2>1, <2>2, CurrentSame
  <2>4. \A q \in Procs : PendingOf(q)' = PendingOf(q)
    BY <1>a, <1>8 DEF TypeOK, Shape, PendingOf, Unstored, PollLock,
       FaultsEntering, Holders, Bares, Retry
  <2>5. Pending' = Pending
    BY <2>4, PendingSame
  <2>q. QED
    BY <2>3, <2>5, <1>8 DEF PollLock
<1>9. ASSUME NEW p \in Procs, Release(p)
      PROVE  Register!RegNext \/ UNCHANGED <<Current, mem, Pending>>
  <2>1. Writing' = Writing /\ \A q \in Writing : val'[q] = val[q]
    BY <1>a, <1>9 DEF TypeOK, Writing, Release, AfterUnlock
  <2>2. file'["flash"] = file["flash"]
    BY <1>a, <1>9 DEF TypeOK, Release, AfterUnlock
  <2>3. Current' = Current
    BY <2>1, <2>2, CurrentSame
  <2>4. \A q \in Procs : PendingOf(q)' = PendingOf(q)
    BY <1>a, <1>9 DEF TypeOK, Shape, PendingOf, Unstored, Release, AfterUnlock
  <2>5. Pending' = Pending
    BY <2>4, PendingSame
  <2>q. QED
    BY <2>3, <2>5, <1>9 DEF Release
<1>10. ASSUME NEW p \in Procs, ReadCache(p)
      PROVE  Register!RegNext \/ UNCHANGED <<Current, mem, Pending>>
  <2>x. p \in Active
    BY <1>a, <1>b, <1>10 DEF Busy, Shape, ReadCache
  <2>y. /\ file["flash"] \in Configs /\ file["cache"] \in Configs
        /\ mtime["cache"] >= mtime["flash"]
    BY <1>a, <1>c, <1>d, <1>10, <2>x DEF Stage, TypeOK, Content, ReadCache,
       CacheUsable, Xml, Vol
  <2>u. ~Saving
    BY <1>a, <1>10, <2>x DEF Orderly, Exclusive, Saving, ReadCache
  <2>v. file["cache"] = file["flash"]
    BY <1>a, <2>y, <2>u DEF Orderly, Fresh, Believed
  <2>z. mem' = [mem EXCEPT ![p] = Current]
    BY <1>10, <2>v, <2>y DEF ReadCache, Current
  <2>1. Writing' = Writing /\ \A q \in Writing : val'[q] = val[q]
    BY <1>a, <1>10 DEF TypeOK, Writing, ReadCache
  <2>2. file'["flash"] = file["flash"]
    BY <1>a, <1>10 DEF TypeOK, ReadCache, CacheUsable, Xml, Vol
  <2>3. Current' = Current
    BY <2>1, <2>2, CurrentSame
  <2>4. \A q \in Procs : PendingOf(q)' = PendingOf(q)
    BY <1>a, <1>10 DEF TypeOK, Shape, PendingOf, Unstored, ReadCache,
       CacheUsable, Xml, Vol
  <2>5. Pending' = Pending
    BY <2>4, PendingSame
  <2>q. QED
    BY <2>3, <2>5, <2>z DEF Register!RegNext, Register!RegLoad
<1>11. ASSUME NEW p \in Procs, MissingAtBoot(p)
      PROVE  Register!RegNext \/ UNCHANGED <<Current, mem, Pending>>
  <2>1. p \in Active
    BY <1>a, <1>b, <1>11 DEF Busy, Shape, MissingAtBoot
  <2>q. QED
    BY <1>a, <1>c, <1>d, <1>11, <2>1 DEF Stage, MissingAtBoot, CacheUsable, Xml, Vol
<1>12. ASSUME NEW p \in Procs, MissingLater(p)
      PROVE  Register!RegNext \/ UNCHANGED <<Current, mem, Pending>>
  <2>1. Writing' = Writing /\ \A q \in Writing : val'[q] = val[q]
    BY <1>a, <1>12 DEF TypeOK, Writing, MissingLater
  <2>2. file'["flash"] = file["flash"]
    BY <1>a, <1>12 DEF TypeOK, MissingLater, CacheUsable, Xml, Vol
  <2>3. Current' = Current
    BY <2>1, <2>2, CurrentSame
  <2>4. \A q \in Procs : PendingOf(q)' = PendingOf(q)
    BY <1>a, <1>12 DEF TypeOK, Shape, PendingOf, Unstored, MissingLater,
       CacheUsable, Xml, Vol
  <2>5. Pending' = Pending
    BY <2>4, PendingSame
  <2>q. QED
    BY <2>3, <2>5, <1>12 DEF MissingLater
<1>13. ASSUME NEW p \in Procs, StartParse(p)
      PROVE  Register!RegNext \/ UNCHANGED <<Current, mem, Pending>>
  <2>1. Writing' = Writing /\ \A q \in Writing : val'[q] = val[q]
    BY <1>a, <1>13 DEF TypeOK, Writing, StartParse
  <2>2. file'["flash"] = file["flash"]
    BY <1>a, <1>13 DEF TypeOK, StartParse, CacheUsable, Xml, Vol
  <2>3. Current' = Current
    BY <2>1, <2>2, CurrentSame
  <2>4. \A q \in Procs : PendingOf(q)' = PendingOf(q)
    BY <1>a, <1>13 DEF TypeOK, Shape, PendingOf, Unstored, StartParse,
       CacheUsable, Xml, Vol
  <2>5. Pending' = Pending
    BY <2>4, PendingSame
  <2>q. QED
    BY <2>3, <2>5, <1>13 DEF StartParse
<1>14. ASSUME NEW p \in Procs, Parse(p)
      PROVE  Register!RegNext \/ UNCHANGED <<Current, mem, Pending>>
  <2>x. p \in Active
    BY <1>a, <1>b, <1>14 DEF Busy, Shape, Parse
  <2>y. Xml = file["flash"] /\ Xml \in Configs
    BY <1>c, <1>d, <1>14, <2>x DEF Stage, Parse, Xml, Vol
  <2>z. mem' = [mem EXCEPT ![p] = Current]
    BY <1>14, <2>y DEF Parse, Current
  <2>1. Writing' = Writing /\ \A q \in Writing : val'[q] = val[q]
    BY <2>y, <1>a, <1>14 DEF TypeOK, Writing, Parse
  <2>2. file'["flash"] = file["flash"]
    BY <2>y, <1>a, <1>14 DEF TypeOK, Parse, Xml, Vol
  <2>3. Current' = Current
    BY <2>1, <2>2, CurrentSame
  <2>4. \A q \in Procs : PendingOf(q)' = PendingOf(q)
    BY <2>y, <1>a, <1>14 DEF TypeOK, Shape, PendingOf, Unstored, Parse, Xml, Vol
  <2>5. Pending' = Pending
    BY <2>4, PendingSame
  <2>q. QED
    BY <2>3, <2>5, <2>z DEF Register!RegNext, Register!RegLoad
<1>15. ASSUME NEW p \in Procs, CacheOpen(p)
      PROVE  Register!RegNext \/ UNCHANGED <<Current, mem, Pending>>
  <2>1. Writing' = Writing /\ \A q \in Writing : val'[q] = val[q]
    BY <1>a, <1>15 DEF TypeOK, Writing, CacheOpen
  <2>2. file'["flash"] = file["flash"]
    BY <1>a, <1>15 DEF TypeOK, CacheOpen, Put
  <2>3. Current' = Current
    BY <2>1, <2>2, CurrentSame
  <2>4. \A q \in Procs : PendingOf(q)' = PendingOf(q)
    BY <1>a, <1>15 DEF TypeOK, Shape, PendingOf, Unstored, CacheOpen, Put
  <2>5. Pending' = Pending
    BY <2>4, PendingSame
  <2>q. QED
    BY <2>3, <2>5, <1>15 DEF CacheOpen
<1>16. ASSUME NEW p \in Procs, CacheWrite(p)
      PROVE  Register!RegNext \/ UNCHANGED <<Current, mem, Pending>>
  <2>1. Writing' = Writing /\ \A q \in Writing : val'[q] = val[q]
    BY <1>a, <1>16 DEF TypeOK, Writing, CacheWrite
  <2>2. file'["flash"] = file["flash"]
    BY <1>a, <1>16 DEF TypeOK, CacheWrite, Put
  <2>3. Current' = Current
    BY <2>1, <2>2, CurrentSame
  <2>4. \A q \in Procs : PendingOf(q)' = PendingOf(q)
    BY <1>a, <1>16 DEF TypeOK, Shape, PendingOf, Unstored, CacheWrite, Put
  <2>5. Pending' = Pending
    BY <2>4, PendingSame
  <2>q. QED
    BY <2>3, <2>5, <1>16 DEF CacheWrite
<1>17. ASSUME NEW p \in Procs, Umount(p)
      PROVE  Register!RegNext \/ UNCHANGED <<Current, mem, Pending>>
  <2>1. Writing' = Writing /\ \A q \in Writing : val'[q] = val[q]
    BY <1>a, <1>17 DEF TypeOK, Writing, Umount
  <2>2. file'["flash"] = file["flash"]
    BY <1>a, <1>17 DEF TypeOK, Umount
  <2>3. Current' = Current
    BY <2>1, <2>2, CurrentSame
  <2>4. \A q \in Procs : PendingOf(q)' = PendingOf(q)
    BY <1>a, <1>17 DEF TypeOK, Shape, PendingOf, Unstored, Umount
  <2>5. Pending' = Pending
    BY <2>4, PendingSame
  <2>q. QED
    BY <2>3, <2>5, <1>17 DEF Umount
<1>18. ASSUME NEW p \in Procs, MountRw(p)
      PROVE  Register!RegNext \/ UNCHANGED <<Current, mem, Pending>>
  <2>1. Writing' = Writing /\ \A q \in Writing : val'[q] = val[q]
    BY <1>a, <1>18 DEF TypeOK, Writing, MountRw
  <2>2. file'["flash"] = file["flash"]
    BY <1>a, <1>18 DEF TypeOK, MountRw
  <2>3. Current' = Current
    BY <2>1, <2>2, CurrentSame
  <2>4. \A q \in Procs : PendingOf(q)' = PendingOf(q)
    BY <1>a, <1>18 DEF TypeOK, Shape, PendingOf, Unstored, MountRw
  <2>5. Pending' = Pending
    BY <2>4, PendingSame
  <2>q. QED
    BY <2>3, <2>5, <1>18 DEF MountRw
<1>19. ASSUME NEW p \in Procs, MountRo(p)
      PROVE  Register!RegNext \/ UNCHANGED <<Current, mem, Pending>>
  <2>1. Writing' = Writing /\ \A q \in Writing : val'[q] = val[q]
    BY <1>a, <1>19 DEF TypeOK, Writing, MountRo
  <2>2. file'["flash"] = file["flash"]
    BY <1>a, <1>19 DEF TypeOK, MountRo
  <2>3. Current' = Current
    BY <2>1, <2>2, CurrentSame
  <2>4. \A q \in Procs : PendingOf(q)' = PendingOf(q)
    BY <1>a, <1>19 DEF TypeOK, Shape, PendingOf, Unstored, MountRo
  <2>5. Pending' = Pending
    BY <2>4, PendingSame
  <2>q. QED
    BY <2>3, <2>5, <1>19 DEF MountRo
<1>20. ASSUME NEW p \in Procs, OpenFails(p)
      PROVE  Register!RegNext \/ UNCHANGED <<Current, mem, Pending>>
  <2>1. p \in Active
    BY <1>a, <1>b, <1>20 DEF Busy, Shape, OpenFails
  <2>q. QED
    BY <1>a, <1>c, <1>d, <1>20, <2>1 DEF Stage, OpenFails
<1>21. ASSUME NEW p \in Procs, Clear(p)
      PROVE  Register!RegNext \/ UNCHANGED <<Current, mem, Pending>>
  <2>1. p \in Active
    BY <1>a, <1>b, <1>21 DEF Busy, Shape, Clear
  <2>2. Stage(p) /\ Memory(p) /\ \A q \in Procs : Busy(q) => q = p
    BY <1>a, <1>b, <1>c, <1>d, <2>1 DEF Orderly, Exclusive
  <2>3. op[p] = "reset" /\ mnt = "rw" /\ file'["flash"] = Missing /\ val[p] = Default
    BY <1>a, <1>21, <2>2 DEF Stage, Memory, Shape, TypeOK, Clear, Vol
  <2>4. Current' = Default
    BY <2>3 DEF Current
  <2>5. Pending[p] = Default /\ PendingOf(p)' = NoConfig
    BY <1>a, <1>21, <2>3 DEF TypeOK, Pending, PendingOf, Unstored, Clear
  <2>6. \A q \in Procs \ {p} : PendingOf(q)' = PendingOf(q)
    BY <1>a, <1>21 DEF TypeOK, PendingOf, Unstored, Clear
  <2>7. Pending' = [Pending EXCEPT ![p] = NoConfig]
    BY <2>5, <2>6, PendingChange
  <2>q. QED
    BY <2>4, <2>5, <2>7, <1>21 DEF Register!RegNext, Register!RegStore, Clear
<1>22. ASSUME NEW p \in Procs, Open(p)
      PROVE  Register!RegNext \/ UNCHANGED <<Current, mem, Pending>>
  <2>1. p \in Active
    BY <1>a, <1>b, <1>22 DEF Busy, Shape, Open
  <2>2. Stage(p) /\ Memory(p) /\ \A q \in Procs : Busy(q) => q = p
    BY <1>a, <1>b, <1>c, <1>d, <2>1 DEF Orderly, Exclusive
  <2>3. file'["flash"] = Torn
    BY <1>a, <1>22, <2>2 DEF Stage, TypeOK, Open, Put, Vol
  <2>4. Writing' = {p}
    BY <1>a, <1>22, <2>2 DEF TypeOK, Busy, Shape, Writing, Open
  <2>5. Current' = val[p]
    <3>1. (CHOOSE q \in Writing' : TRUE) = p
      BY <2>4
    <3>q. QED
      BY <2>3, <2>4, <3>1, <1>22 DEF Current, Open
  <2>6. CASE op[p] = "reset"
    <3>1. Current = Default /\ val[p] = Default
      BY <2>2, <2>6, <1>22 DEF Stage, Memory, Current, Open
    <3>2. \A q \in Procs : PendingOf(q)' = PendingOf(q)
      BY <1>a, <1>22, <2>6 DEF TypeOK, PendingOf, Unstored, Open
    <3>q. QED
      BY <3>1, <3>2, <2>5, PendingSame, <1>22 DEF Open
  <2>7. CASE op[p] # "reset"
    <3>1. op[p] \in {"save", "install"}
      BY <1>a, <2>2, <2>7, <1>22 DEF Shape, Memory, TypeOK, OpNames, Open
    <3>2. Pending[p] = val[p] /\ PendingOf(p)' = NoConfig /\ val[p] \in Configs
      BY <1>a, <1>22, <3>1 DEF TypeOK, Pending, PendingOf, Unstored, Open
    <3>3. \A q \in Procs \ {p} : PendingOf(q)' = PendingOf(q)
      BY <1>a, <1>22 DEF TypeOK, PendingOf, Unstored, Open
    <3>4. Pending' = [Pending EXCEPT ![p] = NoConfig]
      BY <3>2, <3>3, PendingChange
    <3>q. QED
      BY <2>5, <3>2, <3>4, <1>22 DEF Register!RegNext, Register!RegStore, Open
  <2>q. QED
    BY <2>6, <2>7
<1>23. ASSUME NEW p \in Procs, Write(p)
      PROVE  Register!RegNext \/ UNCHANGED <<Current, mem, Pending>>
  <2>1. p \in Active
    BY <1>a, <1>b, <1>23 DEF Busy, Shape, Write
  <2>2. Stage(p) /\ \A q \in Procs : Busy(q) => q = p
    BY <1>a, <1>b, <1>c, <1>d, <2>1 DEF Orderly, Exclusive
  <2>3. Writing = {p}
    BY <1>a, <1>23, <2>2 DEF TypeOK, Busy, Shape, Writing, Write
  <2>4. Current = val[p]
    <3>1. (CHOOSE q \in Writing : TRUE) = p
      BY <2>3
    <3>q. QED
      BY <2>2, <2>3, <3>1, <1>23 DEF Current, Stage, Write
  <2>5. Current' = val[p]
    BY <1>a, <2>2, <1>23 DEF TypeOK, Current, Stage, Write, Put
  <2>6. \A q \in Procs : PendingOf(q)' = PendingOf(q)
    BY <1>a, <1>23 DEF TypeOK, PendingOf, Unstored, Write
  <2>q. QED
    BY <2>4, <2>5, <2>6, PendingSame, <1>23 DEF Write
<1>24. ASSUME Tick PROVE Register!RegNext \/ UNCHANGED <<Current, mem, Pending>>
  BY <1>24 DEF Tick, Current, Writing, Pending, Unstored
<1>25. ASSUME PowerLoss PROVE Register!RegNext \/ UNCHANGED <<Current, mem, Pending>>
  <2>1. Current' = Current
    BY <1>a, <1>25 DEF PowerLoss, TypeOK, Current
  <2>2. Pending' = [p \in Procs |-> NoConfig]
    BY <1>25 DEF PowerLoss, Pending, Unstored
  <2>q. QED
    BY <2>1, <2>2, <1>25 DEF Register!RegNext, Register!RegPowerLoss, PowerLoss
<1>26. ASSUME UNCHANGED vars PROVE UNCHANGED <<Current, mem, Pending>>
  BY <1>26 DEF vars, Current, Writing, Pending, Unstored
<1>q. QED
  BY <1>1, <1>2, <1>3, <1>4, <1>5, <1>6, <1>7, <1>8, <1>9, <1>10, <1>11, <1>12,
     <1>13, <1>14, <1>15, <1>16, <1>17, <1>18, <1>19, <1>20, <1>21, <1>22, <1>23,
     <1>24, <1>25, <1>26 DEF Next, Ask, Step

\* As long as nothing disturbs it, the store implements the atomic register: loads
\* read the configuration as it is, and each store takes effect once, as a whole.
THEOREM StoreIsRegister == QuietSpec => ImplementsRegister
<1> DEFINE QuietInv == StoreIInv /\ faults = {}
           QuietNext == [Next /\ faults' = {}]_vars
           RegisterNext == [Register!RegNext]_Register!regVars
<1>1. Init => QuietInv
  BY StoreInitInv DEF Init
<1>2. QuietInv /\ QuietNext => QuietInv'
  BY StoreStepInv DEF vars
<1>3. QuietInv /\ QuietInv' /\ QuietNext => RegisterNext
  BY RegisterStep DEF vars
<1>4. Init => Register!RegInit
  BY StoreInitInv, RegisterInit DEF StoreIInv
<1> HIDE DEF QuietInv
<1>q. QED
  BY <1>1, <1>2, <1>3, <1>4, PTL DEF QuietSpec, ImplementsRegister, Register!RegSpec
=============================================================================
