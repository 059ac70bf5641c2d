--------------------------- MODULE ColumnFamilies ---------------------------
(***************************************************************************)
(* BitLSM's column family registry and the lifetime of what hangs off it:  *)
(* the constructor, CreateColumnFamily, DropColumnFamily and ~BitLSM of    *)
(* bit_lsm.cpp, and StatsRefreshListener of bit_lsm_estimator.h.           *)
(*                                                                         *)
(* Client threads create and drop column families while RocksDB's          *)
(* background threads deliver flush and compaction events to the listener, *)
(* which calls the estimator of the column family.  RocksDB never reuses a *)
(* column family id, so an id names one handle, its estimator and its      *)
(* worker thread; a name may be created again once it was dropped.         *)
(***************************************************************************)
EXTENDS Integers, FiniteSets

CONSTANTS
  Names,         \* names of the column families clients create
  Default,       \* kDefaultColumnFamilyName
  Clients,       \* application threads
  Nobody,        \* holder of a free mutex
  DropMayFail,   \* may DB::DropColumnFamily return an error?
  MaxIds,        \* bound: column families ever created
  MaxEvents      \* bound: flush and compaction events delivered

ASSUME FamiliesAssumption ==
  /\ Default \notin Names
  /\ Nobody \notin Clients
  /\ DropMayFail \in BOOLEAN
  /\ MaxIds \in Nat
  /\ MaxEvents \in Nat

VARIABLES
  cf_registry,  \* cf_registry_: the pairs <<name, id>> it owns
  rocks,        \* RocksDB's own column families, as pairs <<name, id>>
  nameOf,       \* the name of every id handed out so far
  estimator,    \* id -> "none", "running" (its worker thread runs), "destroyed"
  handle,       \* id -> "open" or "destroyed": the rocksdb handle
  cf_mu,        \* holder of cf_mu_
  targets,      \* the listener's targets_: the armed ids
  notifying,    \* ids whose NotifyChange runs under the listener's mutex
  events,       \* events delivered so far
  pc,           \* client -> where its call is
  cf,           \* client -> the id its call is about
  owned,        \* client -> the id DropColumnFamily moved out of the registry
  want,         \* client -> the name its CreateColumnFamily asks for
  closing       \* ~BitLSM has begun

vars == <<cf_registry, rocks, nameOf, estimator, handle, cf_mu, targets, notifying,
          events, pc, cf, owned, want, closing>>
clientVars == <<pc, cf, owned, want>>
familyVars == <<cf_registry, rocks, nameOf, estimator, handle>>
listenerVars == <<targets, notifying, events>>

Ids == DOMAIN nameOf
DefaultId == 0
NextId == Cardinality(Ids)
Registered(n) == \E i \in Ids : <<n, i>> \in cf_registry
InRocks(n) == \E i \in Ids : <<n, i>> \in rocks

\* The constructor has opened the default column family, the only one it is given
\* here, and registered it, with an estimator or without.
Init ==
  /\ cf_registry = {<<Default, DefaultId>>}
  /\ rocks = {<<Default, DefaultId>>}
  /\ nameOf = [i \in {DefaultId} |-> Default]
  /\ estimator \in [{DefaultId} -> {"none", "running"}]
  /\ handle = [i \in {DefaultId} |-> "open"]
  /\ cf_mu = Nobody
  /\ targets = {i \in {DefaultId} : estimator[i] = "running"}
  /\ notifying = {}
  /\ events = 0
  /\ pc = [c \in Clients |-> "idle"]
  /\ cf = [c \in Clients |-> DefaultId]
  /\ owned = [c \in Clients |-> DefaultId]
  /\ want = [c \in Clients |-> Default]
  /\ closing = FALSE

At(c, here, there) == pc[c] = here /\ pc' = [pc EXCEPT ![c] = there]

------------------------------------------------------------------------------
(* CreateColumnFamily.                                                     *)

CreateCall(c, n) ==
  /\ At(c, "idle", "create") /\ ~closing
  /\ NextId + Cardinality({d \in Clients : pc[d] = "create"}) <= MaxIds
  /\ want' = [want EXCEPT ![c] = n]
  /\ UNCHANGED <<familyVars, listenerVars, cf_mu, cf, owned, closing>>

\* Mutant: the early return of the duplicate check leaves cf_mu_ locked.
CreateRefused_KeepsLock(c) ==
  /\ At(c, "create", "idle") /\ cf_mu = Nobody
  /\ cf_mu' = c
  /\ UNCHANGED <<familyVars, listenerVars, cf, owned, want, closing>>

\* The name is registered, ValidateAttrSpecs refuses the options, or RocksDB refuses
\* the create, because it still has the name or for a reason of its own.
CreateRefused(c) ==
  /\ At(c, "create", "idle") /\ cf_mu = Nobody
  /\ UNCHANGED <<familyVars, listenerVars, cf_mu, cf, owned, want, closing>>

\* cf_mu_ is taken, RocksDB creates the column family, and the estimator, if the
\* options ask for one, is constructed with its worker running.
CreateInRocks(c) ==
  /\ At(c, "create", "register") /\ cf_mu = Nobody
  /\ ~Registered(want[c]) /\ ~InRocks(want[c])
  /\ cf_mu' = c
  /\ rocks' = rocks \cup {<<want[c], NextId>>}
  /\ nameOf' = [i \in Ids \cup {NextId} |-> IF i = NextId THEN want[c] ELSE nameOf[i]]
  /\ handle' = [i \in Ids \cup {NextId} |-> IF i = NextId THEN "open" ELSE handle[i]]
  /\ \E e \in {"none", "running"} :
       estimator' = [i \in Ids \cup {NextId} |-> IF i = NextId THEN e ELSE estimator[i]]
  /\ cf' = [cf EXCEPT ![c] = NextId]
  /\ UNCHANGED <<cf_registry, listenerVars, owned, want, closing>>

\* RegisterColumnFamily: emplace in the registry, arm the listener, unlock.
RegisterColumnFamily(c) ==
  /\ At(c, "register", "idle")
  /\ cf_registry' = cf_registry \cup {<<want[c], cf[c]>>}
  /\ \/ estimator[cf[c]] = "none" /\ UNCHANGED targets
     \/ /\ estimator[cf[c]] = "running" /\ notifying = {}
        /\ targets' = targets \cup {cf[c]}
  /\ cf_mu' = Nobody
  /\ UNCHANGED <<rocks, nameOf, estimator, handle, notifying, events, cf, owned, want,
                 closing>>

------------------------------------------------------------------------------
(* DropColumnFamily.                                                       *)

\* A client drops only handles that are alive: a drop that returned has freed its
\* handle.  The default column family is refused before anything else.
Droppable(c, i) ==
  /\ pc[c] = "idle" /\ ~closing /\ cf_mu = Nobody
  /\ i # DefaultId /\ handle[i] = "open"

\* Mutant: the entry found under the name is taken for the handle's own.
DropFind_ByName(c, i) ==
  /\ Droppable(c, i)
  /\ \E j \in Ids : /\ <<nameOf[i], j>> \in cf_registry
                    /\ cf_registry' = cf_registry \ {<<nameOf[i], j>>}
                    /\ owned' = [owned EXCEPT ![c] = j]
  /\ cf' = [cf EXCEPT ![c] = i]
  /\ pc' = [pc EXCEPT ![c] = "disarm"]
  /\ UNCHANGED <<rocks, nameOf, estimator, handle, listenerVars, cf_mu, want, closing>>

\* Mutant: the entry is moved from and not erased.
DropFind_NotErased(c, i) ==
  /\ Droppable(c, i)
  /\ <<nameOf[i], i>> \in cf_registry
  /\ owned' = [owned EXCEPT ![c] = i]
  /\ cf' = [cf EXCEPT ![c] = i]
  /\ pc' = [pc EXCEPT ![c] = "disarm"]
  /\ UNCHANGED <<familyVars, listenerVars, cf_mu, want, closing>>

\* Under cf_mu_: the entry under the handle's name, if it is this handle, leaves
\* the registry.
DropFind(c, i) ==
  /\ Droppable(c, i)
  /\ <<nameOf[i], i>> \in cf_registry
  /\ cf_registry' = cf_registry \ {<<nameOf[i], i>>}
  /\ owned' = [owned EXCEPT ![c] = i]
  /\ cf' = [cf EXCEPT ![c] = i]
  /\ pc' = [pc EXCEPT ![c] = "disarm"]
  /\ UNCHANGED <<rocks, nameOf, estimator, handle, listenerVars, cf_mu, want, closing>>

\* "unknown column family handle": another thread is dropping it.
DropUnknown(c, i) ==
  /\ Droppable(c, i)
  /\ <<nameOf[i], i>> \notin cf_registry
  /\ UNCHANGED vars

\* Mutant: Disarm does not take the listener's mutex.
Disarm_Unlocked(c) ==
  /\ At(c, "disarm", "drop")
  /\ targets' = targets \ {cf[c]}
  /\ UNCHANGED <<familyVars, notifying, events, cf_mu, cf, owned, want, closing>>

Disarm(c) ==
  /\ At(c, "disarm", "drop")
  /\ notifying = {}
  /\ targets' = targets \ {cf[c]}
  /\ UNCHANGED <<familyVars, notifying, events, cf_mu, cf, owned, want, closing>>

\* DB::DropColumnFamily; its status is only returned to the caller.
DropInRocks(c) ==
  /\ At(c, "drop", "reset")
  /\ \/ rocks' = rocks \ {<<nameOf[cf[c]], cf[c]>>}
     \/ DropMayFail /\ UNCHANGED rocks
  /\ UNCHANGED <<cf_registry, nameOf, estimator, handle, listenerVars, cf_mu, cf, owned,
                 want, closing>>

Stopped(e) == IF e = "running" THEN "destroyed" ELSE e

\* owned->estimator_.reset() joins the worker.
ResetEstimator(c) ==
  /\ At(c, "reset", "destroy")
  /\ estimator' = [estimator EXCEPT ![owned[c]] = Stopped(@)]
  /\ UNCHANGED <<cf_registry, rocks, nameOf, handle, listenerVars, cf_mu, cf, owned, want,
                 closing>>

DestroyHandle(c) ==
  /\ At(c, "destroy", "idle")
  /\ handle' = [handle EXCEPT ![cf[c]] = "destroyed"]
  /\ UNCHANGED <<cf_registry, rocks, nameOf, estimator, listenerVars, cf_mu, cf, owned,
                 want, closing>>

------------------------------------------------------------------------------
(* StatsRefreshListener::Notify, from OnFlushCompleted and                 *)
(* OnCompactionCompleted.                                                  *)

\* Events for an unarmed id are dropped.
NotifyUnarmed(i) ==
  /\ notifying = {} /\ events < MaxEvents
  /\ i \notin targets
  /\ events' = events + 1
  /\ UNCHANGED <<familyVars, clientVars, targets, notifying, cf_mu, closing>>

\* The mutex is taken and the armed estimator called.
NotifyBegin(i) ==
  /\ notifying = {} /\ events < MaxEvents
  /\ i \in targets
  /\ notifying' = {i}
  /\ events' = events + 1
  /\ UNCHANGED <<familyVars, clientVars, targets, cf_mu, closing>>

\* NotifyChange returned; the mutex is released.
NotifyEnd ==
  /\ notifying # {}
  /\ notifying' = {}
  /\ UNCHANGED <<familyVars, clientVars, targets, events, cf_mu, closing>>

------------------------------------------------------------------------------
(* ~BitLSM, which no other call overlaps.  RocksDB's flushes and           *)
(* compactions, and their events, go on until it closes.  The loop over    *)
(* the registry is taken in any order, for each handle estimator first.    *)

DisarmAll ==
  /\ ~closing /\ \A c \in Clients : pc[c] = "idle"
  /\ notifying = {}
  /\ closing' = TRUE
  /\ targets' = {}
  /\ UNCHANGED <<familyVars, clientVars, notifying, events, cf_mu>>

\* Mutant: the handle is destroyed before the estimator's worker is joined.
CloseEstimator_HandleFirst(i) ==
  /\ closing /\ <<nameOf[i], i>> \in cf_registry /\ handle[i] = "open"
  /\ handle' = [handle EXCEPT ![i] = "destroyed"]
  /\ UNCHANGED <<cf_registry, rocks, nameOf, estimator, listenerVars, clientVars, cf_mu,
                 closing>>

CloseEstimator(i) ==
  /\ closing /\ <<nameOf[i], i>> \in cf_registry /\ estimator[i] = "running"
  /\ estimator' = [estimator EXCEPT ![i] = Stopped(@)]
  /\ UNCHANGED <<cf_registry, rocks, nameOf, handle, listenerVars, clientVars, cf_mu,
                 closing>>

CloseHandle(i) ==
  /\ closing /\ <<nameOf[i], i>> \in cf_registry /\ handle[i] = "open"
  /\ estimator[i] # "running"
  /\ handle' = [handle EXCEPT ![i] = "destroyed"]
  /\ UNCHANGED <<cf_registry, rocks, nameOf, estimator, listenerVars, clientVars, cf_mu,
                 closing>>

\* The database is closed: nothing is left to do.
Closed ==
  /\ closing /\ \A r \in cf_registry : handle[r[2]] = "destroyed"
  /\ UNCHANGED vars

------------------------------------------------------------------------------

Working(c) ==
  \/ CreateRefused(c) \/ CreateInRocks(c) \/ RegisterColumnFamily(c)
  \/ Disarm(c) \/ DropInRocks(c) \/ ResetEstimator(c) \/ DestroyHandle(c)

Calls(c) ==
  \/ \E n \in Names : CreateCall(c, n)
  \/ \E i \in Ids : DropFind(c, i) \/ DropUnknown(c, i)

Notify(i) == NotifyUnarmed(i) \/ NotifyBegin(i)

Close == DisarmAll \/ \E i \in Ids : CloseEstimator(i) \/ CloseHandle(i)

Next ==
  \/ \E c \in Clients : Working(c) \/ Calls(c)
  \/ \E i \in Ids : Notify(i)
  \/ NotifyEnd
  \/ Close
  \/ Closed

\* A thread inside a call, and one inside NotifyChange, keep running.
Fairness == WF_vars(NotifyEnd) /\ \A c \in Clients : WF_vars(Working(c))

Spec == Init /\ [][Next]_vars /\ Fairness

------------------------------------------------------------------------------

Dropping == {"disarm", "drop", "reset", "destroy"}

\* Every variable has its type; ids are handed out in order, and the pairs of the
\* registry and of RocksDB carry the name of their id.
TypeOK ==
  /\ IsFiniteSet(Ids) /\ Ids = 0 .. NextId - 1 /\ DefaultId \in Ids
  /\ nameOf \in [Ids -> Names \cup {Default}]
  /\ cf_registry \cup rocks \subseteq {<<nameOf[i], i>> : i \in Ids}
  /\ estimator \in [Ids -> {"none", "running", "destroyed"}]
  /\ handle \in [Ids -> {"open", "destroyed"}]
  /\ cf_mu \in Clients \cup {Nobody}
  /\ targets \subseteq Ids /\ notifying \subseteq targets
  /\ pc \in [Clients -> {"idle", "create", "register"} \cup Dropping]
  /\ cf \in [Clients -> Ids] /\ owned \in [Clients -> Ids]
  /\ want \in [Clients -> Names \cup {Default}]
  /\ closing \in BOOLEAN

\* The listener never calls, and never holds, a destroyed estimator: Disarm and
\* DisarmAll wait for a running NotifyChange, and no estimator is destroyed armed.
ListenerCallsLive ==
  \A i \in targets \cup notifying : estimator[i] = "running"

\* An estimator's worker reads its column family, so the rocksdb handle outlives it.
WorkerHasHandle ==
  \A i \in Ids : estimator[i] = "running" => handle[i] = "open"

\* What GetColumnFamily can hand out is usable: RocksDB has the column family, its
\* handle is open, its estimator if any runs, and no other entry has its name.
RegisteredUsable ==
  ~closing => \A r \in cf_registry :
                /\ r \in rocks
                /\ handle[r[2]] = "open"
                /\ estimator[r[2]] # "destroyed"
                /\ \A q \in cf_registry : q[1] = r[1] => q = r

\* Two threads that drop the same handle at once: one of them tears it down.
TornDownOnce ==
  \A c, d \in Clients :
    c # d /\ {pc[c], pc[d]} \subseteq Dropping
      => cf[c] # cf[d] /\ owned[c] # owned[d]

\* Whenever no call is in progress the registry and RocksDB's set of column families
\* agree ("cannot diverge", bit_lsm.cpp:158), but for the families whose drop RocksDB
\* refused: those only RocksDB still lists, and their handles are gone.
RegistryMatchesRocksDB ==
  ~closing /\ (\A c \in Clients : pc[c] \in {"idle", "create"}) =>
    /\ cf_registry \subseteq rocks
    /\ \A r \in rocks \ cf_registry : DropMayFail /\ handle[r[2]] = "destroyed"

\* Nobody waits for ever on cf_mu_ or on the listener: a create or drop that has
\* begun returns, whatever other clients and the background threads do.
CallsReturn ==
  \A c \in Clients : pc[c] # "idle" ~> pc[c] = "idle"

==============================================================================
