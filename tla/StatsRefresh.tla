---------------------------- MODULE StatsRefresh ----------------------------
(***************************************************************************)
(* The background refresh of one column family's cardinality statistics    *)
(* (CardinalityEstimator's worker and StatsRefreshListener in              *)
(* bit_lsm_estimator.{h,cpp}, armed by BitLSM::RegisterColumnFamily).      *)
(*                                                                         *)
(* RocksDB threads install versions (flush, compaction) and afterwards     *)
(* deliver an event to the listener; an armed listener signals the worker; *)
(* the worker coalesces signals, diffs the live file set against the one   *)
(* it last built from and rebuilds when enough rows moved.  A client may   *)
(* wait for a pass (TEST_Refresh), and the destructor stops the worker,    *)
(* also while such a caller waits.                                         *)
(* The condition variable is modelled: a thread that finds its predicate   *)
(* false sleeps, and only a notify_all issued afterwards wakes it.         *)
(***************************************************************************)
EXTENDS Integers, FiniteSets, FiniteSetsExt

CONSTANTS
  Files,          \* file numbers
  EntriesOf,      \* file number -> num_entries
  StalePct,       \* kStaleRowFraction in percent (10)
  MaxInstalls,    \* versions installed (bound)
  MaxRefreshes,   \* calls of TEST_Refresh (bound)
  ArmedFirst      \* no version is installed before the listener is armed

ASSUME StatsAssumption ==
  /\ IsFiniteSet(Files)
  /\ EntriesOf \in [Files -> Nat]
  /\ StalePct \in Nat
  /\ MaxInstalls \in Nat
  /\ MaxRefreshes \in Nat
  /\ ArmedFirst \in BOOLEAN

VARIABLES
  live,           \* files of the current version
  installs,       \* versions installed so far
  inflight,       \* versions installed whose event is not yet delivered
  armed,          \* "no", "yes" or, once disarmed, "never"
  signal_gen,
  processed_gen,
  stop,
  owed,           \* threads between unlocking worker_mu_ and notify_all
  asleep,         \* threads blocked on worker_cv_
  worker,         \* the worker's program counter
  target,         \* WorkerLoop's target
  seen,           \* the live set Reconcile reads from its SuperVersion
  unread,         \* the live files are not those the last pass read (history)
  built_files,
  cached,         \* the published statistics: files whose rows they count
  client,         \* program counter of the TEST_Refresh caller
  clientTarget,
  missed,         \* no pass has read what was unread when it called (history)
  refreshes       \* calls of TEST_Refresh so far

vars == <<live, installs, inflight, armed, signal_gen, processed_gen, stop, owed,
          asleep, worker, target, seen, unread, built_files, cached, client,
          clientTarget, missed, refreshes>>

versionVars == <<live, installs, inflight, unread>>
signalVars  == <<signal_gen, processed_gen, stop, owed>>
workerVars  == <<worker, target, seen, built_files, cached>>
clientVars  == <<client, clientTarget, missed, refreshes>>

Threads == {"worker", "client"}

Entries(F) == MapThenSumSet(LAMBDA f : EntriesOf[f], F)

\* Rows in files born or dead between the file sets A and B.
Changed(A, B) == Entries((A \ B) \cup (B \ A))

\* The drift test of Reconcile.
FreshEnough(built, now) ==
  /\ Entries(built) > 0
  /\ Changed(built, now) * 100 < StalePct * Entries(built)

\* The constructor has started the worker and called NotifyChange; the listener
\* is armed afterwards.
Init ==
  /\ live \in SUBSET Files
  /\ installs = 0
  /\ inflight = 0
  /\ armed = "no"
  /\ signal_gen = 1
  /\ processed_gen = 0
  /\ stop = FALSE
  /\ owed = 1
  /\ asleep = {}
  /\ worker = "wait"
  /\ target = 0
  /\ seen = {}
  /\ unread = TRUE
  /\ built_files = {}
  /\ cached = {}
  /\ client = "idle"
  /\ clientTarget = 0
  /\ missed = FALSE
  /\ refreshes = 0

------------------------------------------------------------------------------
(* RocksDB's threads and the listener.                                     *)

\* A flush or a compaction installs a new version.
InstallVersion ==
  /\ installs < MaxInstalls
  /\ ArmedFirst => armed # "no"
  /\ \E F \in SUBSET Files : F # live /\ live' = F
  /\ installs' = installs + 1
  /\ inflight' = inflight + 1
  /\ unread' = TRUE
  /\ UNCHANGED <<armed, signalVars, asleep, workerVars, clientVars>>

\* StatsRefreshListener::Arm, at the end of RegisterColumnFamily.
Arm ==
  /\ armed = "no"
  /\ armed' = "yes"
  /\ UNCHANGED <<versionVars, signalVars, asleep, workerVars, clientVars>>

\* StatsRefreshListener::Disarm or DisarmAll, before the estimator goes away.
Disarm ==
  /\ armed = "yes"
  /\ armed' = "never"
  /\ UNCHANGED <<versionVars, signalVars, asleep, workerVars, clientVars>>

\* Mutant: the notify_all comes before the generation is raised, and none after.
DeliverEvent_NotifyFirst ==
  /\ inflight > 0
  /\ inflight' = inflight - 1
  /\ signal_gen' = IF armed = "yes" THEN signal_gen + 1 ELSE signal_gen
  /\ UNCHANGED <<live, installs, unread, armed, processed_gen, stop, owed, asleep,
                 workerVars, clientVars>>

\* OnFlushCompleted or OnCompactionCompleted: events for an unarmed column
\* family are dropped, others raise the generation under worker_mu_.
DeliverEvent ==
  /\ inflight > 0
  /\ inflight' = inflight - 1
  /\ \/ /\ armed = "yes"
        /\ signal_gen' = signal_gen + 1
        /\ owed' = owed + 1
     \/ /\ armed # "yes"
        /\ UNCHANGED <<signal_gen, owed>>
  /\ UNCHANGED <<live, installs, unread, armed, processed_gen, stop, asleep, workerVars,
                 clientVars>>

\* The notify_all a thread issues after unlocking.
NotifyAll ==
  /\ owed > 0
  /\ owed' = owed - 1
  /\ asleep' = {}
  /\ UNCHANGED <<versionVars, armed, signal_gen, processed_gen, stop, workerVars,
                 clientVars>>

------------------------------------------------------------------------------
(* WorkerLoop and Reconcile.                                               *)

\* Mutant: the wait's predicate forgets stop_.
WorkerWait_NoStop ==
  /\ worker = "wait"
  /\ "worker" \notin asleep
  /\ \/ /\ signal_gen > processed_gen
        /\ worker' = "pace"
        /\ UNCHANGED asleep
     \/ /\ signal_gen <= processed_gen
        /\ asleep' = asleep \cup {"worker"}
        /\ UNCHANGED worker
  /\ UNCHANGED <<versionVars, armed, signalVars, target, seen, built_files, cached,
                 clientVars>>

\* The wait on worker_cv_: the predicate is evaluated under the lock and the
\* thread sleeps while it is false.
WorkerWait ==
  /\ worker = "wait"
  /\ "worker" \notin asleep
  /\ \/ /\ stop
        /\ worker' = "exit"
        /\ UNCHANGED asleep
     \/ /\ ~stop /\ signal_gen > processed_gen
        /\ worker' = "pace"
        /\ UNCHANGED asleep
     \/ /\ ~stop /\ signal_gen <= processed_gen
        /\ asleep' = asleep \cup {"worker"}
        /\ UNCHANGED worker
  /\ UNCHANGED <<versionVars, armed, signalVars, target, seen, built_files, cached,
                 clientVars>>

\* The pacing wait ends when the interval has passed, or at once on stop.
WorkerPaced ==
  /\ worker = "pace"
  /\ \/ stop /\ worker' = "exit" /\ UNCHANGED target
     \/ ~stop /\ worker' = "read" /\ target' = signal_gen
  /\ UNCHANGED <<versionVars, armed, signalVars, asleep, seen, built_files, cached,
                 clientVars>>

\* Reconcile pins the current SuperVersion and decides whether to rebuild.
ReconcileRead ==
  /\ worker = "read"
  /\ seen' = live
  /\ unread' = FALSE
  /\ missed' = FALSE
  /\ worker' = IF FreshEnough(built_files, live) THEN "finish" ELSE "rebuild"
  /\ UNCHANGED <<live, installs, inflight, armed, signalVars, asleep, target,
                 built_files, cached, client, clientTarget, refreshes>>

\* Rebuild sums up the files of F it can open; any others contribute nothing.
Rebuild(F) == {F \ unreadable : unreadable \in SUBSET F}

\* Mutant: the version current after the harvest is recorded as the one built.
ReconcileRebuild_Live ==
  /\ worker = "rebuild"
  /\ cached' \in Rebuild(seen)
  /\ built_files' = live
  /\ worker' = "finish"
  /\ UNCHANGED <<versionVars, armed, signalVars, asleep, target, seen, clientVars>>

\* The statistics are rebuilt and published, and the whole set is recorded as built.
ReconcileRebuild ==
  /\ worker = "rebuild"
  /\ cached' \in Rebuild(seen)
  /\ built_files' = seen
  /\ worker' = "finish"
  /\ UNCHANGED <<versionVars, armed, signalVars, asleep, target, seen, clientVars>>

\* Mutant: signals that arrived during the pass count as processed.
WorkerFinish_Latest ==
  /\ worker = "finish"
  /\ processed_gen' = signal_gen
  /\ asleep' = {}
  /\ worker' = "wait"
  /\ UNCHANGED <<versionVars, armed, signal_gen, stop, owed, target, seen,
                 built_files, cached, clientVars>>

\* Back under the lock: the pass is recorded and waiters are woken.
WorkerFinish ==
  /\ worker = "finish"
  /\ processed_gen' = target
  /\ asleep' = {}
  /\ worker' = "wait"
  /\ UNCHANGED <<versionVars, armed, signal_gen, stop, owed, target, seen,
                 built_files, cached, clientVars>>

\* ~CardinalityEstimator sets stop_ under the lock; its notify_all is owed.  A caller
\* of TEST_Refresh may be waiting.
Destructor ==
  /\ armed = "never"
  /\ ~stop
  /\ stop' = TRUE
  /\ owed' = owed + 1
  /\ UNCHANGED <<versionVars, armed, signal_gen, processed_gen, asleep,
                 workerVars, clientVars>>

------------------------------------------------------------------------------
(* TEST_Refresh.                                                           *)

\* A call raises the generation and owes a notify_all.  It may come while the
\* destructor waits for the worker; after the join there is no estimator to call.
RefreshCall ==
  /\ client = "idle"
  /\ refreshes < MaxRefreshes
  /\ worker # "exit"
  /\ client' = "wait"
  /\ refreshes' = refreshes + 1
  /\ missed' = unread
  /\ clientTarget' = signal_gen + 1
  /\ signal_gen' = signal_gen + 1
  /\ owed' = owed + 1
  /\ UNCHANGED <<versionVars, armed, processed_gen, stop, asleep, workerVars>>

\* Mutant: the wait's predicate forgets stop_.
RefreshWait_NoStop ==
  /\ client = "wait"
  /\ "client" \notin asleep
  /\ \/ /\ processed_gen >= clientTarget
        /\ client' = "returned"
        /\ UNCHANGED asleep
     \/ /\ processed_gen < clientTarget
        /\ asleep' = asleep \cup {"client"}
        /\ UNCHANGED client
  /\ UNCHANGED <<versionVars, armed, signalVars, workerVars, clientTarget,
                 missed, refreshes>>

\* The wait for a pass that covers the call, or for stop_.
RefreshWait ==
  /\ client = "wait"
  /\ "client" \notin asleep
  /\ \/ /\ stop \/ processed_gen >= clientTarget
        /\ client' = "returned"
        /\ UNCHANGED asleep
     \/ /\ ~stop /\ processed_gen < clientTarget
        /\ asleep' = asleep \cup {"client"}
        /\ UNCHANGED client
  /\ UNCHANGED <<versionVars, armed, signalVars, workerVars, clientTarget,
                 missed, refreshes>>

\* Back in the caller, the call's locals are gone.
RefreshReturn ==
  /\ client = "returned"
  /\ client' = "idle"
  /\ clientTarget' = 0
  /\ missed' = FALSE
  /\ UNCHANGED <<versionVars, armed, signalVars, asleep, workerVars, refreshes>>

------------------------------------------------------------------------------
(* Specification.                                                          *)

Worker == WorkerWait \/ WorkerPaced \/ ReconcileRead \/ ReconcileRebuild
            \/ WorkerFinish

Client == RefreshCall \/ RefreshWait \/ RefreshReturn

\* The estimator is gone and no event is left.
Finished ==
  /\ worker = "exit" /\ inflight = 0 /\ owed = 0 /\ installs = MaxInstalls
  /\ UNCHANGED vars

Next ==
  \/ InstallVersion
  \/ Arm
  \/ Disarm
  \/ DeliverEvent
  \/ NotifyAll
  \/ Worker
  \/ Destructor
  \/ Client
  \/ Finished

\* Threads that can run do run: RocksDB delivers its events, a thread that
\* unlocked worker_mu_ reaches its notify_all, RegisterColumnFamily reaches Arm,
\* the worker is scheduled and the clock passes the pacing interval.
Fairness ==
  /\ WF_vars(DeliverEvent)
  /\ WF_vars(NotifyAll)
  /\ WF_vars(Arm)
  /\ WF_vars(Worker)
  /\ WF_vars(RefreshWait)

Spec == Init /\ [][Next]_vars /\ Fairness

------------------------------------------------------------------------------
(* Properties.                                                             *)

\* Every variable has its type.
TypeOK ==
  /\ live \in SUBSET Files
  /\ {installs, inflight, signal_gen, processed_gen, owed, target,
      clientTarget, refreshes} \subseteq Nat
  /\ armed \in {"no", "yes", "never"}
  /\ {stop, unread, missed} \subseteq BOOLEAN
  /\ asleep \in SUBSET Threads
  /\ worker \in {"wait", "pace", "read", "rebuild", "finish", "exit"}
  /\ {seen, built_files, cached} \subseteq SUBSET Files
  /\ client \in {"idle", "wait", "returned"}

\* The worker never sleeps on work or on a stop request, and a TEST_Refresh
\* caller never sleeps on a finished pass, unless the notify_all that wakes it
\* is still to come (no wakeup of worker_cv_ is lost).
NoLostWakeup ==
  /\ ("worker" \in asleep /\ (stop \/ signal_gen > processed_gen)) => owed > 0
  /\ ("client" \in asleep /\ (stop \/ processed_gen >= clientTarget)) => owed > 0

\* When TEST_Refresh returns, a pass has read every change of the live set made
\* before the call ("force one reconcile pass and wait for it"), unless stop_ ended
\* the wait before such a pass was recorded.
RefreshSawCall ==
  client = "returned" => ~missed \/ (stop /\ processed_gen < clientTarget)

\* The published statistics never count a file outside the set they were built
\* from, and an idle worker's built set is within the drift threshold of the
\* live set of its last pass.
BuiltFromLastPass ==
  /\ cached \subseteq built_files
  /\ (worker = "wait" /\ processed_gen > 0) =>
       (built_files = seen \/ FreshEnough(built_files, seen))

\* Once versions stop changing, the statistics are built from a file set within
\* the drift threshold of the live one ("rebuilds when at least
\* kStaleRowFraction of the rows changed", bit_lsm_estimator.h:161).
StatsCatchUp ==
  <>[](armed = "never" \/ built_files = live \/ FreshEnough(built_files, live))

\* The destructor's join returns.
DestructorReturns == stop ~> (worker = "exit")

\* TEST_Refresh returns, also when the destructor stops the worker that would have
\* made the pass it waits for.
RefreshReturns == (client = "wait") ~> (client = "returned")

==============================================================================
