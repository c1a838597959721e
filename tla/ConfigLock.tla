----------------------------- MODULE ConfigLock -----------------------------
(***************************************************************************)
(* The lock file that serialises access to the configuration.              *)
(*                                                                         *)
(* config_lock() polls: it tries to create the lock file (fopen mode "x"), *)
(* sleeps a second when the file exists, and after Tries failures simply   *)
(* returns, without the lock and without removing the file.                *)
(* config_unlock() unlinks whatever lock file there is.  A process that    *)
(* dies inside its section leaves the file behind.                         *)
(***************************************************************************)
EXTENDS Integers

CONSTANTS Procs,     \* the PHP processes that use the configuration
          NoProc,    \* no process: the lock file does not exist
          Tries      \* the literal 10 of config_lock()

ASSUME LockAssumption == /\ NoProc \notin Procs
                         /\ Tries \in Nat \ {0}

VARIABLES lockFile,  \* who created the lock file that exists, NoProc if none does
          depth,     \* sections each process has entered and not left
          waiting,   \* the processes inside config_lock()
          tries,     \* $n of each of them
          asleep,    \* those in sleep(1)
          brokenIn   \* history: since boot, somebody returned without the lock

lockVars == <<lockFile, depth, waiting, tries, asleep, brokenIn>>

\* config_lock() nests at most once: reset_factory_defaults() under the parser.
MaxDepth == 2

LockTypeOK == /\ lockFile \in Procs \cup {NoProc}
              /\ depth \in [Procs -> 0..MaxDepth]
              /\ waiting \in SUBSET Procs
              /\ tries \in [Procs -> 0..Tries]
              /\ asleep \in SUBSET Procs
              /\ brokenIn \in BOOLEAN

LockInit == /\ lockFile = NoProc
            /\ depth = [p \in Procs |-> 0]
            /\ waiting = {}
            /\ tries = [p \in Procs |-> 0]
            /\ asleep = {}
            /\ brokenIn = FALSE

Holders == {p \in Procs : depth[p] > 0}
-----------------------------------------------------------------------------
\* A process calls config_lock().
Request(p) == /\ p \notin waiting
              /\ depth[p] < MaxDepth
              /\ waiting' = waiting \cup {p}
              /\ tries' = [tries EXCEPT ![p] = 0]
              /\ UNCHANGED <<lockFile, depth, asleep, brokenIn>>

\* Mode "a" in place of "x": the open succeeds on an existing file.
CreateAppending(p) == /\ p \in waiting \ asleep
                      /\ tries[p] < Tries
                      /\ lockFile' = p
                      /\ depth' = [depth EXCEPT ![p] = @ + 1]
                      /\ waiting' = waiting \ {p}
                      /\ tries' = [tries EXCEPT ![p] = 0]
                      /\ UNCHANGED <<asleep, brokenIn>>

\* fopen(.., "x") creates the file and config_lock() returns.
Create(p) == /\ p \in waiting \ asleep
             /\ tries[p] < Tries
             /\ lockFile = NoProc
             /\ lockFile' = p
             /\ depth' = [depth EXCEPT ![p] = @ + 1]
             /\ waiting' = waiting \ {p}
             /\ tries' = [tries EXCEPT ![p] = 0]
             /\ UNCHANGED <<asleep, brokenIn>>

\* The $n++ forgotten.
RetryUncounted(p) == /\ p \in waiting \ asleep
                     /\ tries[p] < Tries
                     /\ lockFile # NoProc
                     /\ asleep' = asleep \cup {p}
                     /\ UNCHANGED <<lockFile, depth, waiting, tries, brokenIn>>

\* The file exists: sleep(1) and count the try.
Retry(p) == /\ p \in waiting \ asleep
            /\ tries[p] < Tries
            /\ lockFile # NoProc
            /\ asleep' = asleep \cup {p}
            /\ tries' = [tries EXCEPT ![p] = @ + 1]
            /\ UNCHANGED <<lockFile, depth, waiting, brokenIn>>

\* The loop ends after Tries tries: the caller goes on without the lock.
FallThrough(p) == /\ p \in waiting \ asleep
                  /\ tries[p] = Tries
                  /\ depth' = [depth EXCEPT ![p] = @ + 1]
                  /\ waiting' = waiting \ {p}
                  /\ tries' = [tries EXCEPT ![p] = 0]
                  /\ brokenIn' = TRUE
                  /\ UNCHANGED <<lockFile, asleep>>

\* config_unlock(): whoever created the file, it is unlinked.
Unlock(p) == /\ p \notin waiting
             /\ depth[p] > 0
             /\ lockFile' = NoProc
             /\ depth' = [depth EXCEPT ![p] = @ - 1]
             /\ UNCHANGED <<waiting, tries, asleep, brokenIn>>

\* die() or exit inside a section: no unlock.
Die(p) == /\ p \notin waiting
          /\ depth[p] > 0
          /\ depth' = [depth EXCEPT ![p] = 0]
          /\ UNCHANGED <<lockFile, waiting, tries, asleep, brokenIn>>

\* A second passes: every sleep(1) begun before it ends.
LockTick == /\ asleep' = {}
            /\ UNCHANGED <<lockFile, depth, waiting, tries, brokenIn>>

\* /var/run is a ramdisk: nothing of the lock survives a power cycle.
LockPowerLoss == /\ lockFile' = NoProc
                 /\ depth' = [p \in Procs |-> 0]
                 /\ waiting' = {}
                 /\ tries' = [p \in Procs |-> 0]
                 /\ asleep' = {}
                 /\ brokenIn' = FALSE

Poll(p) == Create(p) \/ Retry(p) \/ FallThrough(p)

LockNext == \/ \E p \in Procs : Request(p) \/ Poll(p) \/ Unlock(p) \/ Die(p)
            \/ LockTick
            \/ LockPowerLoss

LockSpec == LockInit /\ [][LockNext]_lockVars
-----------------------------------------------------------------------------
\* As long as nobody has waited out all its tries, the lock excludes: at most
\* one process is between config_lock() and config_unlock(), and the lock file
\* that exists is the one it created.
OneHolder == ~brokenIn => \A p, q \in Holders : p = q

\* The strengthening: a process in its section owns the file, and is not nested.
HolderOwnsFile == ~brokenIn => \A p \in Holders : lockFile = p /\ depth[p] = 1

\* Only a waiter sleeps, and a waiter has room for one more section.
WaitersInv == asleep \subseteq waiting /\ \A p \in waiting : depth[p] < MaxDepth

LockInv == LockTypeOK /\ WaitersInv /\ HolderOwnsFile
=============================================================================
