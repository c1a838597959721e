--------------------------- MODULE ConfigRegister ---------------------------
(***************************************************************************)
(* What config.inc promises its callers: one configuration, of which every *)
(* request works on a private copy, and which each save, install or reset  *)
(* that is asked for replaces as a whole, once.                            *)
(***************************************************************************)
CONSTANTS Procs, Configs, NoConfig

VARIABLES current,   \* the stored configuration
          view,      \* each request's copy of it, NoConfig before it has loaded
          pending    \* what each request has asked to store and is not stored yet

regVars == <<current, view, pending>>

RegInit == /\ current \in Configs
           /\ view = [p \in Procs |-> NoConfig]
           /\ pending = [p \in Procs |-> NoConfig]

\* A copy is taken of the configuration as it is now, never of an older or a torn one.
RegLoad(p) == /\ view' = [view EXCEPT ![p] = current]
              /\ UNCHANGED <<current, pending>>

RegForget(p) == /\ view' = [view EXCEPT ![p] = NoConfig]
                /\ UNCHANGED <<current, pending>>

RegAskFor(p, c) == /\ pending[p] = NoConfig
                   /\ pending' = [pending EXCEPT ![p] = c]
                   /\ UNCHANGED <<current, view>>
RegAsk(p) == \E c \in Configs : RegAskFor(p, c)

\* No copy follows the store: that of a request that has saved is loaded again.
RegStore(p) == /\ pending[p] # NoConfig
               /\ current' = pending[p]
               /\ pending' = [pending EXCEPT ![p] = NoConfig]
               /\ UNCHANGED view

RegPowerLoss == /\ view' = [p \in Procs |-> NoConfig]
                /\ pending' = [p \in Procs |-> NoConfig]
                /\ UNCHANGED current

RegNext == \/ \E p \in Procs : RegLoad(p) \/ RegForget(p) \/ RegAsk(p) \/ RegStore(p)
           \/ RegPowerLoss

RegSpec == RegInit /\ [][RegNext]_regVars
=============================================================================
