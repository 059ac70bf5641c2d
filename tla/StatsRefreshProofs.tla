------------------------- MODULE StatsRefreshProofs -------------------------
(***************************************************************************)
(* Proofs about the worker's signalling, for any set of files, any drift   *)
(* threshold and any number of versions, events and TEST_Refresh calls.    *)
(***************************************************************************)
EXTENDS StatsRefresh, TLAPS

\* The actions of Next, by who takes them.
LEMMA NextCases ==
  [Next]_vars <=> \/ InstallVersion \/ Arm \/ Disarm \/ DeliverEvent \/ NotifyAll
                  \/ WorkerWait \/ WorkerPaced \/ ReconcileRead \/ ReconcileRebuild
                  \/ WorkerFinish \/ Destructor \/ RefreshCall \/ RefreshWait
                  \/ RefreshReturn \/ Finished \/ UNCHANGED vars
BY DEF Next, Worker, Client

------------------------------------------------------------------------------
(* No lost wakeup.                                                         *)

\* With the generations and the threads that owe a notify_all as numbers, and a caller
\* asleep only inside its wait, it is inductive.
WakeupInv ==
  /\ owed \in Nat /\ signal_gen \in Nat /\ processed_gen \in Nat
  /\ target \in Nat /\ clientTarget \in Nat
  /\ "client" \in asleep => client = "wait"
  /\ NoLostWakeup

\* No step loses a wakeup: a thread sleeps only after it found its predicate false,
\* and whoever makes it true owes a notify_all.
LEMMA WakeupStep == WakeupInv /\ [Next]_vars => WakeupInv'
<1> SUFFICES ASSUME WakeupInv, [Next]_vars
             PROVE  WakeupInv'
  OBVIOUS
<1> USE DEF WakeupInv, NoLostWakeup, versionVars, signalVars, workerVars, clientVars
<1>1. CASE InstallVersion
  BY <1>1 DEF InstallVersion
<1>2. CASE Arm \/ Disarm
  BY <1>2 DEF Arm, Disarm
<1>3. CASE DeliverEvent
  BY <1>3 DEF DeliverEvent
<1>4. CASE NotifyAll
  BY <1>4 DEF NotifyAll
<1>5. CASE WorkerWait
  <2>1. UNCHANGED <<stop, signal_gen, processed_gen, owed, target, clientTarget, client>>
    BY <1>5 DEF WorkerWait
  <2>2. \/ asleep' = asleep
        \/ ~stop /\ signal_gen <= processed_gen /\ asleep' = asleep \cup {"worker"}
    BY <1>5 DEF WorkerWait
  <2>3. "client" # "worker"
    OBVIOUS
  <2> QED
    BY <2>1, <2>2, <2>3
<1>6. CASE WorkerPaced
  BY <1>6 DEF WorkerPaced
<1>7. CASE ReconcileRead \/ ReconcileRebuild
  BY <1>7 DEF ReconcileRead, ReconcileRebuild
<1>8. CASE WorkerFinish
  BY <1>8 DEF WorkerFinish
<1>9. CASE Destructor
  BY <1>9 DEF Destructor
<1>10. CASE RefreshCall
  BY <1>10 DEF RefreshCall
<1>11. CASE RefreshWait
  <2>1. UNCHANGED <<stop, signal_gen, processed_gen, owed, target, clientTarget>>
    BY <1>11 DEF RefreshWait
  <2>2. \/ asleep' = asleep /\ "client" \notin asleep
        \/ /\ ~stop /\ processed_gen < clientTarget /\ asleep' = asleep \cup {"client"}
           /\ client' = "wait"
    BY <1>11 DEF RefreshWait
  <2>3. "client" # "worker"
    OBVIOUS
  <2> QED
    BY <2>1, <2>2, <2>3
<1>12. CASE RefreshReturn
  BY <1>12 DEF RefreshReturn
<1>13. CASE Finished \/ UNCHANGED vars
  BY <1>13 DEF Finished, vars
<1> QED
  BY <1>1, <1>2, <1>3, <1>4, <1>5, <1>6, <1>7, <1>8, <1>9, <1>10, <1>11, <1>12, <1>13,
     NextCases

\* The worker never sleeps through a signal or a stop request, and TEST_Refresh never
\* through the end of its pass, however the threads interleave.
THEOREM WakeupsKept == Spec => []NoLostWakeup
<1>1. Init => WakeupInv
  BY DEF Init, WakeupInv, NoLostWakeup
<1>2. WakeupInv => NoLostWakeup
  BY DEF WakeupInv
<1> QED
  BY <1>1, <1>2, WakeupStep, PTL DEF Spec

------------------------------------------------------------------------------
(* TEST_Refresh waits for a pass that began after the call.                *)

\* Generations are numbers, and no pass is ahead of the signals.
CountersOK ==
  /\ signal_gen \in Nat /\ processed_gen \in Nat /\ target \in Nat /\ clientTarget \in Nat
  /\ target <= signal_gen
  /\ processed_gen <= signal_gen

\* A pass whose target covers the caller's generation has read the file set after the
\* call, from the moment it has read it until it is recorded, and afterwards.
PassCoversCall ==
  (client # "idle" /\ missed) =>
    /\ processed_gen < clientTarget
    /\ worker \in {"rebuild", "finish"} => target < clientTarget

RefreshInv == CountersOK /\ PassCoversCall /\ RefreshSawCall

\* Every step keeps the invariant.
LEMMA RefreshStep == RefreshInv /\ [Next]_vars => RefreshInv'
<1> SUFFICES ASSUME RefreshInv, [Next]_vars
             PROVE  RefreshInv'
  OBVIOUS
<1> USE DEF RefreshInv, CountersOK, PassCoversCall, RefreshSawCall,
            versionVars, signalVars, workerVars, clientVars
<1>1. CASE InstallVersion
  BY <1>1 DEF InstallVersion
<1>2. CASE Arm \/ Disarm
  BY <1>2 DEF Arm, Disarm
<1>3. CASE DeliverEvent
  BY <1>3 DEF DeliverEvent
<1>4. CASE NotifyAll
  BY <1>4 DEF NotifyAll
<1>5. CASE WorkerWait
  BY <1>5 DEF WorkerWait
<1>6. CASE WorkerPaced
  BY <1>6 DEF WorkerPaced
<1>7. CASE ReconcileRead
  BY <1>7 DEF ReconcileRead
<1>8. CASE ReconcileRebuild
  BY <1>8 DEF ReconcileRebuild
<1>9. CASE WorkerFinish
  BY <1>9 DEF WorkerFinish
<1>10. CASE Destructor
  BY <1>10 DEF Destructor
<1>11. CASE RefreshCall
  BY <1>11 DEF RefreshCall
<1>12. CASE RefreshWait
  BY <1>12 DEF RefreshWait
<1>13. CASE RefreshReturn
  BY <1>13 DEF RefreshReturn
<1>14. CASE Finished \/ UNCHANGED vars
  BY <1>14 DEF Finished, vars
<1> QED
  BY <1>1, <1>2, <1>3, <1>4, <1>5, <1>6, <1>7, <1>8, <1>9, <1>10, <1>11, <1>12, <1>13,
     <1>14, NextCases

\* When TEST_Refresh returns, a pass has read what was installed before the call,
\* although the worker coalesces signals and other signals arrive at any time; only the
\* destructor's stop_ ends the wait without one.
THEOREM RefreshSeesCall == Spec => []RefreshSawCall
<1>1. Init => RefreshInv
  BY DEF Init, RefreshInv, CountersOK, PassCoversCall, RefreshSawCall
<1>2. RefreshInv => RefreshSawCall
  BY DEF RefreshInv
<1> QED
  BY <1>1, <1>2, RefreshStep, PTL DEF Spec

------------------------------------------------------------------------------
(* What the statistics are built from.                                     *)

\* A pass about to be recorded has rebuilt, or found the built set fresh enough.
BuiltInv ==
  /\ BuiltFromLastPass
  /\ worker = "finish" => (built_files = seen \/ FreshEnough(built_files, seen))

\* Every step keeps the invariant: only Reconcile changes what is built and published,
\* and it records the set it read, whatever the live set is by then.
LEMMA BuiltStep == BuiltInv /\ [Next]_vars => BuiltInv'
<1> SUFFICES ASSUME BuiltInv, [Next]_vars
             PROVE  BuiltInv'
  OBVIOUS
<1> USE DEF BuiltInv, BuiltFromLastPass
<1>1. CASE /\ UNCHANGED <<cached, built_files, seen, processed_gen>>
           /\ worker' = worker \/ worker' \notin {"wait", "finish"}
  BY <1>1 DEF FreshEnough
<1>2. CASE ReconcileRead
  BY <1>2
  DEF ReconcileRead, signalVars, FreshEnough
<1>3. CASE ReconcileRebuild
  <2>1. cached' \subseteq built_files' /\ built_files' = seen' /\ worker' = "finish"
    BY <1>3 DEF ReconcileRebuild, Rebuild
  <2> QED
    BY <2>1
<1>4. CASE WorkerFinish
  BY <1>4 DEF WorkerFinish, FreshEnough
<1>5. CASE WorkerWait \/ WorkerPaced
  BY <1>1, <1>5 DEF WorkerWait, WorkerPaced, signalVars
<1>6. CASE \/ InstallVersion \/ Arm \/ Disarm \/ DeliverEvent \/ NotifyAll
           \/ Destructor \/ RefreshCall \/ RefreshWait \/ RefreshReturn
           \/ Finished \/ UNCHANGED vars
  BY <1>1, <1>6, Zenon
  DEF InstallVersion, Arm, Disarm, DeliverEvent, NotifyAll, Destructor, RefreshCall,
      RefreshWait, RefreshReturn, Finished, vars, signalVars, workerVars
<1> QED
  BY <1>2, <1>3, <1>4, <1>5, <1>6, NextCases

\* The published statistics count only files of the set they are recorded to be built
\* from, and an idle worker's built set is within the drift threshold of the file set its
\* last pass read, although versions are installed during Reconcile.
THEOREM StatsBuiltRight == Spec => []BuiltFromLastPass
<1>1. Init => BuiltInv
  BY DEF Init, BuiltInv, BuiltFromLastPass
<1>2. BuiltInv => BuiltFromLastPass
  BY DEF BuiltInv
<1> QED
  BY <1>1, <1>2, BuiltStep, PTL DEF Spec
==============================================================================
