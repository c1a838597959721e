-------------------------- MODULE ConfigLockProofs --------------------------
(***************************************************************************)
(* For every set of processes and every number of tries: the types of      *)
(* ConfigLock, and mutual exclusion until somebody goes past the lock.     *)
(* LockInv is the inductive invariant: in the absence of a break-in, a     *)
(* process between config_lock() and config_unlock() owns the lock file.   *)
(***************************************************************************)
EXTENDS ConfigLock, TLAPS

\* The inductive invariant of the lock holds when nobody has called config_lock().
LEMMA LockInitInv == LockInit => LockInv
<1> SUFFICES ASSUME LockInit PROVE LockInv
  OBVIOUS
<1> USE LockAssumption DEF LockInit
<1>1. LockTypeOK
  <2>1. depth \in [Procs -> 0..MaxDepth] /\ tries \in [Procs -> 0..Tries]
    BY DEF MaxDepth
  <2>q. QED
    BY <2>1 DEF LockTypeOK
<1>2. WaitersInv
  BY DEF WaitersInv
<1>3. HolderOwnsFile
  <2>1. Holders = {}
    BY DEF Holders
  <2>q. QED
    BY <2>1 DEF HolderOwnsFile
<1>q. QED
  BY <1>1, <1>2, <1>3 DEF LockInv

\* A power cycle clears the /var/run ramdisk, and the invariant holds again.
LEMMA LockResetInv == LockPowerLoss => LockInv'
<1> SUFFICES ASSUME LockPowerLoss PROVE LockInv'
  OBVIOUS
<1> USE LockAssumption DEF LockPowerLoss
<1>1. LockTypeOK'
  <2>1. depth' \in [Procs -> 0..MaxDepth] /\ tries' \in [Procs -> 0..Tries]
    BY DEF MaxDepth
  <2>q. QED
    BY <2>1 DEF LockTypeOK
<1>2. WaitersInv'
  BY DEF WaitersInv
<1>3. HolderOwnsFile'
  <2>1. Holders' = {}
    BY DEF Holders
  <2>q. QED
    BY <2>1 DEF HolderOwnsFile
<1>q. QED
  BY <1>1, <1>2, <1>3 DEF LockInv

\* Every step of config_lock() and config_unlock() keeps it.
LEMMA LockStepInv == LockInv /\ [LockNext]_lockVars => LockInv'
<1> SUFFICES ASSUME LockInv, [LockNext]_lockVars PROVE LockInv'
  OBVIOUS
<1> USE LockAssumption DEF LockInv
<1>1. ASSUME NEW p \in Procs, Request(p) PROVE LockInv'
  <2>1. LockTypeOK'
    BY <1>1 DEF Request, LockTypeOK, WaitersInv, MaxDepth
  <2>2. WaitersInv'
    BY <1>1 DEF Request, LockTypeOK, WaitersInv, MaxDepth
  <2>3. HolderOwnsFile'
    BY <1>1 DEF Request, LockTypeOK, HolderOwnsFile, Holders, MaxDepth
  <2>q. QED
    BY <2>1, <2>2, <2>3
<1>2. ASSUME NEW p \in Procs, Create(p) PROVE LockInv'
  <2>1. LockTypeOK'
    BY <1>2 DEF Create, LockTypeOK, WaitersInv, MaxDepth
  <2>2. WaitersInv'
    BY <1>2 DEF Create, LockTypeOK, WaitersInv, MaxDepth
  <2>3. HolderOwnsFile'
    BY <1>2 DEF Create, LockTypeOK, HolderOwnsFile, Holders, MaxDepth
  <2>q. QED
    BY <2>1, <2>2, <2>3
<1>3. ASSUME NEW p \in Procs, Retry(p) PROVE LockInv'
  <2>1. LockTypeOK'
    BY <1>3 DEF Retry, LockTypeOK, WaitersInv, MaxDepth
  <2>2. WaitersInv'
    BY <1>3 DEF Retry, LockTypeOK, WaitersInv, MaxDepth
  <2>3. HolderOwnsFile'
    BY <1>3 DEF Retry, LockTypeOK, HolderOwnsFile, Holders, MaxDepth
  <2>q. QED
    BY <2>1, <2>2, <2>3
<1>4. ASSUME NEW p \in Procs, FallThrough(p) PROVE LockInv'
  <2>1. LockTypeOK'
    BY <1>4 DEF FallThrough, LockTypeOK, WaitersInv, MaxDepth
  <2>2. WaitersInv'
    BY <1>4 DEF FallThrough, LockTypeOK, WaitersInv, MaxDepth
  <2>3. HolderOwnsFile'
    BY <1>4 DEF FallThrough, LockTypeOK, HolderOwnsFile, Holders, MaxDepth
  <2>q. QED
    BY <2>1, <2>2, <2>3
<1>5. ASSUME NEW p \in Procs, Unlock(p) PROVE LockInv'
  <2>1. LockTypeOK'
    BY <1>5 DEF Unlock, LockTypeOK, WaitersInv, MaxDepth
  <2>2. WaitersInv'
    BY <1>5 DEF Unlock, LockTypeOK, WaitersInv, MaxDepth
  <2>3. HolderOwnsFile'
    BY <1>5 DEF Unlock, LockTypeOK, HolderOwnsFile, Holders, MaxDepth
  <2>q. QED
    BY <2>1, <2>2, <2>3
<1>6. ASSUME NEW p \in Procs, Die(p) PROVE LockInv'
  <2>1. LockTypeOK'
    BY <1>6 DEF Die, LockTypeOK, WaitersInv, MaxDepth
  <2>2. WaitersInv'
    BY <1>6 DEF Die, LockTypeOK, WaitersInv, MaxDepth
  <2>3. HolderOwnsFile'
    BY <1>6 DEF Die, LockTypeOK, HolderOwnsFile, Holders, MaxDepth
  <2>q. QED
    BY <2>1, <2>2, <2>3
<1>7. ASSUME LockTick PROVE LockInv'
  <2>1. LockTypeOK'
    BY <1>7 DEF LockTick, LockTypeOK, WaitersInv, MaxDepth
  <2>2. WaitersInv'
    BY <1>7 DEF LockTick, LockTypeOK, WaitersInv, MaxDepth
  <2>3. HolderOwnsFile'
    BY <1>7 DEF LockTick, LockTypeOK, HolderOwnsFile, Holders, MaxDepth
  <2>q. QED
    BY <2>1, <2>2, <2>3
<1>8. ASSUME LockPowerLoss PROVE LockInv'
  BY <1>8, LockResetInv
<1>9. CASE UNCHANGED lockVars
  BY <1>9 DEF lockVars, LockTypeOK, WaitersInv, HolderOwnsFile, Holders
<1>q. QED
  BY <1>1, <1>2, <1>3, <1>4, <1>5, <1>6, <1>7, <1>8, <1>9 DEF LockNext, Poll

\* The counters of the lock stay in their ranges, whoever dies, breaks in or loses power.
THEOREM LockTypeCorrect == LockSpec => []LockTypeOK
<1>1. LockInv => LockTypeOK
  BY DEF LockInv
<1>q. QED
  BY <1>1, LockInitInv, LockStepInv, PTL DEF LockSpec

\* Until somebody has waited out all its tries, at most one process is between
\* config_lock() and config_unlock().
THEOREM LockExcludes == LockSpec => []OneHolder
<1>1. LockInv => OneHolder
  BY DEF LockInv, HolderOwnsFile, OneHolder
<1>q. QED
  BY <1>1, LockInitInv, LockStepInv, PTL DEF LockSpec
=============================================================================
