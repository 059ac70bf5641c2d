------------------------ MODULE ColumnFamiliesProofs -------------------------
(***************************************************************************)
(* The safety of the column family registry, for every number of client    *)
(* threads, names and events.                                              *)
(*                                                                         *)
(* The invariant follows one id through its life: registered (in the       *)
(* registry and RocksDB, handle open), being registered under cf_mu_,      *)
(* moved out by one drop, disarmed, dropped, its estimator joined, its     *)
(* handle destroyed.                                                       *)
(***************************************************************************)
EXTENDS ColumnFamilies, FiniteSetTheorems, TLAPS

Pair(i) == <<nameOf[i], i>>

\* cf_mu_ is held across the two halves of CreateColumnFamily and nowhere else.
LockHeld == \A c \in Clients : pc[c] = "register" <=> cf_mu = c

\* A family RocksDB has created and the registry does not know yet.
Created(c) ==
  /\ want[c] = nameOf[cf[c]]
  /\ Pair(cf[c]) \in rocks
  /\ \A r \in cf_registry : r[1] # want[c]
  /\ handle[cf[c]] = "open" /\ estimator[cf[c]] \in {"none", "running"}
  /\ \A d \in Clients : pc[d] \in Dropping => cf[d] # cf[c]
Registering == \A c \in Clients : pc[c] = "register" => Created(c)

\* A family one drop has moved out of the registry.
Taken(c) ==
  /\ owned[c] = cf[c]
  /\ Pair(cf[c]) \notin cf_registry
  /\ pc[c] # "disarm" => cf[c] \notin targets
  /\ pc[c] = "destroy" => estimator[cf[c]] # "running"
  /\ \A d \in Clients : d # c /\ pc[d] \in Dropping => cf[d] # cf[c]
Owning == \A c \in Clients : pc[c] \in Dropping => Taken(c)

\* Why RocksDB may have a family that the registry has not.
Unregistered(r) ==
  \/ \E c \in Clients : pc[c] \in {"register", "disarm", "drop"} /\ cf[c] = r[2]
  \/ /\ DropMayFail
     /\ handle[r[2]] = "destroyed" \/ \E c \in Clients : pc[c] \in Dropping /\ cf[c] = r[2]

Accounted == ~closing => \A r \in rocks \ cf_registry : Unregistered(r)

Quiet == closing => targets = {} /\ \A c \in Clients : pc[c] = "idle"

IInv ==
  /\ TypeOK /\ LockHeld /\ Registering /\ Owning /\ Accounted /\ Quiet
  /\ ListenerCallsLive /\ WorkerHasHandle /\ RegisteredUsable

------------------------------------------------------------------------------

\* A store just opened: the default family is registered and nobody is in a call.
LEMMA InitHolds == Init => IInv
<1> SUFFICES ASSUME Init PROVE IInv
  OBVIOUS
<1>1. Ids = {0} /\ nameOf[0] = Default
  BY DEF Init, Ids, DefaultId
<1>2. IsFiniteSet(Ids) /\ NextId = 1
  BY <1>1, FS_Singleton DEF NextId
<1>3. \A c \in Clients : pc[c] = "idle"
  BY DEF Init
<1>4. TypeOK
  <2>1. IsFiniteSet(Ids) /\ Ids = 0 .. NextId - 1 /\ DefaultId \in Ids
    BY <1>1, <1>2 DEF DefaultId
  <2>2. nameOf \in [Ids -> Names \cup {Default}] /\ handle \in [Ids -> {"open", "destroyed"}]
    BY <1>1 DEF Init, DefaultId
  <2>3. estimator \in [Ids -> {"none", "running", "destroyed"}]
    BY <1>1 DEF Init, DefaultId
  <2>4. cf_registry \cup rocks \subseteq {<<nameOf[i], i>> : i \in Ids}
    BY <1>1 DEF Init, DefaultId
  <2>5. targets \subseteq Ids /\ notifying \subseteq targets
    BY <1>1 DEF Init, DefaultId
  <2>6. /\ cf_mu \in Clients \cup {Nobody} /\ closing \in BOOLEAN
        /\ pc \in [Clients -> {"idle", "create", "register"} \cup Dropping]
        /\ cf \in [Clients -> Ids] /\ owned \in [Clients -> Ids]
        /\ want \in [Clients -> Names \cup {Default}]
    BY <2>1 DEF Init
  <2> QED
    BY <2>1, <2>2, <2>3, <2>4, <2>5, <2>6 DEF TypeOK
<1>5. LockHeld /\ Registering /\ Owning /\ Quiet
  BY <1>3, FamiliesAssumption DEF Init, LockHeld, Registering, Owning, Quiet, Dropping
<1>6. Accounted
  BY DEF Init, Accounted
<1>7. ListenerCallsLive /\ WorkerHasHandle /\ RegisteredUsable
  BY <1>1 DEF Init, ListenerCallsLive, WorkerHasHandle, RegisteredUsable, DefaultId
<1> QED
  BY <1>4, <1>5, <1>6, <1>7 DEF IInv

\* A pair of the registry or of RocksDB is that of its id.
LEMMA PairOf ==
  ASSUME TypeOK, NEW r \in cf_registry \cup rocks
  PROVE  r[2] \in Ids /\ r = Pair(r[2])
BY DEF TypeOK, Pair

\* The next id is a new one.
LEMMA NextIdFresh ==
  ASSUME TypeOK
  PROVE  NextId \in Nat /\ NextId \notin Ids
BY FS_CardinalityType DEF TypeOK, NextId

\* Steps that only move a client between "idle" and "create".
LEMMA CallStep ==
  ASSUME IInv, NEW c \in Clients,
         CreateRefused(c) \/ \E n \in Names : CreateCall(c, n)
  PROVE  IInv'
<1>1. /\ UNCHANGED <<cf_registry, rocks, nameOf, estimator, handle, targets, notifying, cf_mu,
                     cf, owned, closing>>
      /\ pc[c] \in {"idle", "create"}
      /\ \/ pc' = [pc EXCEPT ![c] = "idle"] /\ want' = want
         \/ ~closing /\ \E n \in Names : pc' = [pc EXCEPT ![c] = "create"] /\ want' = [want EXCEPT ![c] = n]
  BY DEF CreateRefused, CreateCall, At, familyVars, listenerVars
<1>2. pc \in [Clients -> {"idle", "create", "register"} \cup Dropping] /\ want \in [Clients -> Names \cup {Default}]
  BY DEF IInv, TypeOK
<1>3. /\ pc'[c] \in {"idle", "create"}
      /\ \A d \in Clients : d # c => pc'[d] = pc[d] /\ want'[d] = want[d]
      /\ pc' \in [Clients -> {"idle", "create", "register"} \cup Dropping]
      /\ want' \in [Clients -> Names \cup {Default}]
  BY <1>1, <1>2
<1>4. \A d \in Clients : pc'[d] \in {"register"} \cup Dropping => d # c
  BY <1>3 DEF Dropping
<1>5. TypeOK'
  BY <1>1, <1>3 DEF IInv, TypeOK, Ids, NextId
<1>6. LockHeld'
  BY <1>1, <1>3 DEF IInv, LockHeld
<1>7. Registering'
  <2> SUFFICES ASSUME NEW d \in Clients, pc'[d] = "register" PROVE Created(d)'
    BY DEF Registering
  <2>1. pc[d] = "register" /\ want'[d] = want[d] /\ Created(d)
    BY <1>3, <1>4 DEF IInv, Registering
  <2> QED
    BY <1>1, <1>3, <1>4, <2>1 DEF Created, Pair
<1>8. Owning'
  <2> SUFFICES ASSUME NEW d \in Clients, pc'[d] \in Dropping PROVE Taken(d)'
    BY DEF Owning
  <2>1. pc'[d] = pc[d] /\ Taken(d)
    BY <1>3, <1>4 DEF IInv, Owning
  <2> QED
    BY <1>1, <1>3, <1>4, <2>1 DEF Taken, Pair
<1>9. Accounted'
  BY <1>1, <1>3 DEF IInv, Accounted, Unregistered, Dropping
<1>10. Quiet'
  BY <1>1, <1>3 DEF IInv, Quiet
<1> QED
  BY <1>1, <1>5, <1>6, <1>7, <1>8, <1>9, <1>10
     DEF IInv, ListenerCallsLive, WorkerHasHandle, RegisteredUsable, Ids

\* RocksDB creates a family under a new id.
LEMMA CreateStep ==
  ASSUME IInv, NEW c \in Clients, CreateInRocks(c)
  PROVE  IInv'
<1> DEFINE i == NextId
<1>0. /\ TypeOK /\ i \in Nat /\ i \notin Ids /\ cf_mu = Nobody
  BY NextIdFresh DEF IInv, CreateInRocks
<1>1. /\ UNCHANGED <<cf_registry, targets, notifying, owned, want, closing>>
      /\ pc[c] = "create" /\ pc' = [pc EXCEPT ![c] = "register"]
      /\ cf_mu' = c /\ cf' = [cf EXCEPT ![c] = i]
      /\ rocks' = rocks \cup {<<want[c], i>>}
      /\ ~Registered(want[c])
  BY DEF CreateInRocks, At, listenerVars
<1>2. /\ nameOf' = [j \in Ids \cup {i} |-> IF j = i THEN want[c] ELSE nameOf[j]]
      /\ handle' = [j \in Ids \cup {i} |-> IF j = i THEN "open" ELSE handle[j]]
  BY DEF CreateInRocks
<1>3. PICK e \in {"none", "running"} :
        estimator' = [j \in Ids \cup {i} |-> IF j = i THEN e ELSE estimator[j]]
  BY DEF CreateInRocks
<1>4. Ids' = Ids \cup {i}
  BY <1>2 DEF Ids
<1>5. /\ \A j \in Ids : nameOf'[j] = nameOf[j] /\ handle'[j] = handle[j] /\ estimator'[j] = estimator[j]
      /\ nameOf'[i] = want[c] /\ handle'[i] = "open" /\ estimator'[i] = e
  BY <1>0, <1>2, <1>3
<1>6. /\ \A d \in Clients : cf[d] \in Ids /\ (d # c => pc'[d] = pc[d] /\ cf'[d] = cf[d])
      /\ pc'[c] = "register" /\ cf'[c] = i
  BY <1>0, <1>1 DEF TypeOK
<1>7. \A d \in Clients : pc[d] # "register"
  BY <1>0, FamiliesAssumption DEF IInv, LockHeld
<1>8. \A r \in cf_registry \cup rocks : r[2] \in Ids /\ r[2] # i /\ r = Pair(r[2])
  BY <1>0, PairOf
<1>9. TypeOK'
  <2>1. IsFiniteSet(Ids') /\ Cardinality(Ids') = i + 1
    BY <1>0, <1>4, FS_AddElement DEF TypeOK, NextId
  <2>2. IsFiniteSet(Ids') /\ Ids' = 0 .. NextId' - 1 /\ DefaultId' \in Ids'
    <3>1. NextId' = i + 1
      BY <2>1 DEF NextId
    <3>2. Ids = 0 .. i - 1 /\ 0 \in Ids
      BY <1>0 DEF TypeOK, DefaultId
    <3> HIDE DEF i
    <3>3. Ids \cup {i} = 0 .. (i + 1) - 1
      BY <1>0, <3>2
    <3> QED
      BY <1>4, <2>1, <3>1, <3>2, <3>3 DEF DefaultId
  <2>3. want[c] \in Names \cup {Default}
    BY <1>0 DEF TypeOK
  <2>4. nameOf' \in [Ids' -> Names \cup {Default}]
    BY <1>0, <1>2, <1>4, <2>3 DEF TypeOK
  <2>5. handle' \in [Ids' -> {"open", "destroyed"}]
    BY <1>0, <1>2, <1>4 DEF TypeOK
  <2>6. estimator' \in [Ids' -> {"none", "running", "destroyed"}]
    BY <1>0, <1>3, <1>4 DEF TypeOK
  <2>7. cf_registry' \cup rocks' \subseteq {<<nameOf'[j], j>> : j \in Ids'}
    BY <1>1, <1>4, <1>5, <1>8 DEF Pair
  <2>8. targets' \subseteq Ids' /\ notifying' \subseteq targets' /\ closing' \in BOOLEAN
    BY <1>0, <1>1, <1>4 DEF TypeOK
  <2>9. /\ cf_mu' \in Clients \cup {Nobody}
        /\ pc' \in [Clients -> {"idle", "create", "register"} \cup Dropping]
        /\ cf' \in [Clients -> Ids'] /\ owned' \in [Clients -> Ids']
        /\ want' \in [Clients -> Names \cup {Default}]
    BY <1>0, <1>1, <1>4 DEF TypeOK
  <2> QED
    BY <2>2, <2>4, <2>5, <2>6, <2>7, <2>8, <2>9 DEF TypeOK
<1>10. LockHeld'
  BY <1>1, <1>6, <1>7 DEF LockHeld
<1>11. Registering'
  <2>1. Created(c)'
    <3>1. /\ want'[c] = nameOf'[cf'[c]] /\ handle'[cf'[c]] = "open"
          /\ estimator'[cf'[c]] \in {"none", "running"}
          /\ <<nameOf'[cf'[c]], cf'[c]>> \in rocks'
      BY <1>1, <1>5, <1>6
    <3>2. \A r \in cf_registry' : r[1] # want'[c]
      BY <1>1, <1>8 DEF Registered, Pair
    <3>3. \A d \in Clients : pc'[d] \in Dropping => cf'[d] # cf'[c]
      BY <1>0, <1>6 DEF Dropping
    <3> QED
      BY <3>1, <3>2, <3>3 DEF Created, Pair
  <2> QED
    BY <1>6, <1>7, <2>1 DEF Registering
<1>12. Owning'
  <2> SUFFICES ASSUME NEW d \in Clients, pc'[d] \in Dropping PROVE Taken(d)'
    BY DEF Owning
  <2>1. d # c /\ pc'[d] = pc[d] /\ cf'[d] = cf[d] /\ cf[d] \in Ids /\ Taken(d)
    BY <1>6 DEF IInv, Owning, Dropping
  <2>2. \A x \in Clients : pc'[x] \in Dropping => pc'[x] = pc[x] /\ cf'[x] = cf[x]
    BY <1>6 DEF Dropping
  <2> QED
    BY <1>1, <1>5, <2>1, <2>2 DEF Taken, Pair
<1>13. Accounted'
  <2> SUFFICES ASSUME ~closing, NEW r \in rocks' \ cf_registry' PROVE Unregistered(r)'
    BY <1>1 DEF Accounted
  <2>1. CASE r = <<want[c], i>>
    BY <1>6, <2>1 DEF Unregistered
  <2>2. CASE r # <<want[c], i>>
    <3>1. r \in rocks \ cf_registry /\ r[2] \in Ids
      BY <1>1, <1>8, <2>2
    <3>2. Unregistered(r)
      BY <3>1 DEF IInv, Accounted
    <3>3. \A d \in Clients : pc[d] \in {"register", "disarm", "drop"} \cup Dropping
                                => pc'[d] = pc[d] /\ cf'[d] = cf[d]
      BY <1>1, <1>6 DEF Dropping
    <3> QED
      BY <1>5, <3>1, <3>2, <3>3 DEF Unregistered
  <2> QED
    BY <2>1, <2>2
<1>14. Quiet'
  BY <1>1 DEF IInv, Quiet
<1>15. ListenerCallsLive' /\ WorkerHasHandle'
  BY <1>0, <1>1, <1>4, <1>5 DEF IInv, TypeOK, ListenerCallsLive, WorkerHasHandle
<1>16. RegisteredUsable'
  BY <1>1, <1>5, <1>8 DEF IInv, RegisteredUsable
<1> QED
  BY <1>9, <1>10, <1>11, <1>12, <1>13, <1>14, <1>15, <1>16 DEF IInv

\* The new family enters the registry; the listener is armed if it has an estimator.
LEMMA RegisterStep ==
  ASSUME IInv, NEW c \in Clients, RegisterColumnFamily(c)
  PROVE  IInv'
<1> DEFINE i == cf[c]
<1>0. TypeOK /\ i \in Ids /\ pc[c] = "register" /\ Created(c) /\ cf_mu = c
  BY DEF IInv, TypeOK, RegisterColumnFamily, At, Registering, LockHeld
<1>1. /\ UNCHANGED <<rocks, nameOf, estimator, handle, notifying, cf, owned, want, closing>>
      /\ pc' = [pc EXCEPT ![c] = "idle"] /\ cf_mu' = Nobody
      /\ cf_registry' = cf_registry \cup {<<want[c], i>>}
  BY DEF RegisterColumnFamily, At
<1>2. \/ targets' = targets
      \/ targets' = targets \cup {i} /\ estimator[i] = "running"
  BY DEF RegisterColumnFamily
<1>3. <<want[c], i>> = Pair(i) /\ Pair(i) \in rocks
  BY <1>0 DEF Created, Pair
<1>4. pc'[c] = "idle" /\ \A d \in Clients : d # c => pc'[d] = pc[d]
  BY <1>0, <1>1 DEF TypeOK
<1>5. \A d \in Clients : pc'[d] # "register"
  BY <1>0, <1>4 DEF IInv, LockHeld
<1>6. TypeOK'
  <2>1. cf_registry' \cup rocks' \subseteq {<<nameOf'[j], j>> : j \in Ids'}
    BY <1>0, <1>1, <1>3 DEF TypeOK, Ids, Pair
  <2>2. targets' \subseteq Ids' /\ notifying' \subseteq targets'
    BY <1>0, <1>1, <1>2 DEF TypeOK, Ids
  <2>3. pc' \in [Clients -> {"idle", "create", "register"} \cup Dropping]
    BY <1>0, <1>1 DEF TypeOK
  <2> QED
    BY <1>0, <1>1, <2>1, <2>2, <2>3 DEF TypeOK, Ids, NextId
<1>7. LockHeld' /\ Registering'
  BY <1>1, <1>5, FamiliesAssumption DEF LockHeld, Registering
<1>8. Owning'
  <2> SUFFICES ASSUME NEW d \in Clients, pc'[d] \in Dropping PROVE Taken(d)'
    BY DEF Owning
  <2>1. pc'[d] = pc[d] /\ pc[d] \in Dropping /\ Taken(d)
    BY <1>4 DEF IInv, Owning, Dropping
  <2>2. cf[d] # i
    BY <1>0, <2>1 DEF Created
  <2>3. \A x \in Clients : pc'[x] \in Dropping => pc'[x] = pc[x]
    BY <1>4 DEF Dropping
  <2> QED
    BY <1>1, <1>2, <1>3, <2>1, <2>2, <2>3 DEF Taken, Pair
<1>9. Accounted'
  <2> SUFFICES ASSUME ~closing, NEW r \in rocks \ cf_registry' PROVE Unregistered(r)'
    BY <1>1 DEF Accounted
  <2>1. r \in rocks \ cf_registry /\ r # Pair(i)
    BY <1>1, <1>3
  <2>2. Unregistered(r) /\ r[2] # i
    BY <1>0, <2>1, PairOf DEF IInv, Accounted
  <2> QED
    BY <1>1, <1>4, <2>2 DEF Unregistered
<1>10. Quiet'
  BY <1>0, <1>1 DEF IInv, Quiet
<1>11. ListenerCallsLive' /\ WorkerHasHandle'
  BY <1>0, <1>1, <1>2 DEF IInv, TypeOK, ListenerCallsLive, WorkerHasHandle, Ids
<1>12. RegisteredUsable'
  <2> SUFFICES ASSUME ~closing, NEW r \in cf_registry'
               PROVE  /\ r \in rocks /\ handle[r[2]] = "open" /\ estimator[r[2]] # "destroyed"
                      /\ \A q \in cf_registry' : q[1] = r[1] => q = r
    BY <1>1 DEF RegisteredUsable
  <2>1. CASE r = Pair(i)
    BY <1>0, <1>1, <1>3, <2>1 DEF Created, Pair
  <2>2. CASE r \in cf_registry
    BY <1>0, <1>1, <1>3, <2>2 DEF IInv, RegisteredUsable, Created, Pair
  <2> QED
    BY <1>1, <1>3, <2>1, <2>2
<1> QED
  BY <1>6, <1>7, <1>8, <1>9, <1>10, <1>11, <1>12 DEF IInv

\* A drop moves a registered family out of the registry.
LEMMA DropFindStep ==
  ASSUME IInv, NEW c \in Clients, NEW i \in Ids, DropFind(c, i)
  PROVE  IInv'
<1>0. TypeOK /\ pc[c] = "idle" /\ Pair(i) \in cf_registry /\ cf_mu = Nobody /\ ~closing
  BY DEF IInv, DropFind, Droppable, Pair
<1>1. /\ UNCHANGED <<rocks, nameOf, estimator, handle, targets, notifying, cf_mu, want, closing>>
      /\ pc' = [pc EXCEPT ![c] = "disarm"]
      /\ cf' = [cf EXCEPT ![c] = i] /\ owned' = [owned EXCEPT ![c] = i]
      /\ cf_registry' = cf_registry \ {Pair(i)}
  BY DEF DropFind, listenerVars, Pair
<1>2. /\ pc'[c] = "disarm" /\ cf'[c] = i /\ owned'[c] = i
      /\ \A d \in Clients : d # c => pc'[d] = pc[d] /\ cf'[d] = cf[d] /\ owned'[d] = owned[d]
  BY <1>0, <1>1 DEF TypeOK
<1>3. \A d \in Clients : pc[d] # "register" /\ (pc[d] \in Dropping => cf[d] # i)
  BY <1>0, FamiliesAssumption DEF IInv, LockHeld, Owning, Taken
<1>4. TypeOK'
  <2>1. /\ pc' \in [Clients -> {"idle", "create", "register"} \cup Dropping]
        /\ cf' \in [Clients -> Ids] /\ owned' \in [Clients -> Ids]
    BY <1>0, <1>1 DEF TypeOK, Dropping
  <2> QED
    BY <1>0, <1>1, <2>1 DEF TypeOK, Ids, NextId
<1>5. LockHeld' /\ Registering'
  BY <1>0, <1>1, <1>2, <1>3, FamiliesAssumption DEF LockHeld, Registering
<1>6. Owning'
  <2> SUFFICES ASSUME NEW d \in Clients, pc'[d] \in Dropping PROVE Taken(d)'
    BY DEF Owning
  <2>1. CASE d = c
    BY <1>1, <1>2, <1>3, <2>1 DEF Taken, Pair
  <2>2. CASE d # c
    <3>1. pc'[d] = pc[d] /\ cf'[d] = cf[d] /\ owned'[d] = owned[d] /\ Taken(d) /\ cf[d] # i
      BY <1>2, <1>3, <2>2 DEF IInv, Owning
    <3> QED
      BY <1>1, <1>2, <3>1 DEF Taken, Pair
  <2> QED
    BY <2>1, <2>2
<1>7. Accounted'
  <2> SUFFICES ASSUME NEW r \in rocks \ cf_registry' PROVE Unregistered(r)'
    BY <1>1 DEF Accounted
  <2>1. CASE r = Pair(i)
    BY <1>2, <2>1 DEF Unregistered, Pair
  <2>2. CASE r # Pair(i)
    <3>1. Unregistered(r)
      BY <1>0, <1>1, <2>2 DEF IInv, Accounted
    <3> QED
      BY <1>0, <1>1, <1>2, <3>1 DEF Unregistered, Dropping
  <2> QED
    BY <2>1, <2>2
<1>8. Quiet' /\ ListenerCallsLive' /\ WorkerHasHandle' /\ RegisteredUsable'
  BY <1>0, <1>1 DEF IInv, Quiet, ListenerCallsLive, WorkerHasHandle, RegisteredUsable, Ids
<1> QED
  BY <1>4, <1>5, <1>6, <1>7, <1>8 DEF IInv

\* The four steps of a drop after that.  They change the family the drop has taken, which
\* neither the registry nor another client knows.
LEMMA TearDownStep ==
  ASSUME IInv, NEW c \in Clients,
         Disarm(c) \/ DropInRocks(c) \/ ResetEstimator(c) \/ DestroyHandle(c)
  PROVE  IInv'
<1> DEFINE i == cf[c]
<1>0. TypeOK /\ i \in Ids /\ pc[c] \in Dropping /\ Taken(c) /\ owned[c] = i /\ ~closing
  <2>1. pc[c] \in Dropping /\ pc[c] # "idle"
    BY DEF Disarm, DropInRocks, ResetEstimator, DestroyHandle, At, Dropping
  <2> QED
    BY <2>1 DEF IInv, TypeOK, Owning, Taken, Quiet
<1>1. UNCHANGED <<cf_registry, nameOf, notifying, cf_mu, cf, owned, want, closing>>
  BY DEF Disarm, DropInRocks, ResetEstimator, DestroyHandle, familyVars, listenerVars
<1>2. /\ pc'[c] \in {"drop", "reset", "destroy", "idle"}
      /\ \A d \in Clients : d # c => pc'[d] = pc[d]
      /\ pc' \in [Clients -> {"idle", "create", "register"} \cup Dropping]
  BY <1>0 DEF Disarm, DropInRocks, ResetEstimator, DestroyHandle, At, TypeOK, Dropping
<1>3. /\ targets' = targets \/ (targets' = targets \ {i} /\ notifying = {})
      /\ rocks' = rocks \/ rocks' = rocks \ {Pair(i)}
      /\ estimator' = estimator \/ estimator' = [estimator EXCEPT ![i] = Stopped(@)]
      /\ handle' = handle \/ (handle' = [handle EXCEPT ![i] = "destroyed"] /\ estimator[i] # "running")
  <2>1. CASE Disarm(c)
    BY <1>0, <2>1 DEF Disarm, familyVars
  <2>2. CASE DropInRocks(c)
    BY <1>0, <2>2 DEF DropInRocks, listenerVars, Pair
  <2>3. CASE ResetEstimator(c)
    BY <1>0, <2>3 DEF ResetEstimator, listenerVars
  <2>4. CASE DestroyHandle(c)
    BY <1>0, <2>4 DEF DestroyHandle, At, listenerVars, Taken
  <2> QED
    BY <2>1, <2>2, <2>3, <2>4
<1>4. /\ estimator' \in [Ids -> {"none", "running", "destroyed"}]
      /\ \A j \in Ids : j # i => estimator'[j] = estimator[j]
      /\ estimator'[i] = "running" => estimator' = estimator
  <2>1. Stopped(estimator[i]) \in {"none", "destroyed"}
    BY <1>0 DEF TypeOK, Stopped
  <2>2. estimator \in [Ids -> {"none", "running", "destroyed"}]
    BY <1>0 DEF TypeOK
  <2>3. CASE estimator' = estimator
    BY <2>2, <2>3
  <2>4. CASE estimator' = [estimator EXCEPT ![i] = Stopped(estimator[i])]
    BY <1>0, <2>1, <2>2, <2>4
  <2> QED
    BY <1>3, <2>3, <2>4
<1>5. /\ handle' \in [Ids -> {"open", "destroyed"}]
      /\ \A j \in Ids : j # i => handle'[j] = handle[j]
      /\ handle'[i] # handle[i] => handle'[i] = "destroyed" /\ estimator[i] # "running"
  <2>1. handle \in [Ids -> {"open", "destroyed"}]
    BY <1>0 DEF TypeOK
  <2>2. CASE handle' = handle
    BY <2>1, <2>2
  <2>3. CASE handle' = [handle EXCEPT ![i] = "destroyed"] /\ estimator[i] # "running"
    BY <1>0, <2>1, <2>3
  <2> QED
    BY <1>3, <2>2, <2>3
<1>6. /\ pc'[c] # "idle" => i \notin targets'
      /\ pc'[c] = "destroy" => estimator'[i] # "running"
      /\ estimator' # estimator => i \notin targets'
  BY <1>0 DEF Disarm, DropInRocks, ResetEstimator, DestroyHandle, At, TypeOK, Taken, Stopped,
              familyVars, listenerVars
<1>7. \A d \in Clients : d # c /\ pc[d] \in {"register"} \cup Dropping => cf[d] \in Ids /\ cf[d] # i
  BY <1>0 DEF IInv, TypeOK, Registering, Created, Taken
<1>8. \A r \in cf_registry : r[2] \in Ids /\ r[2] # i /\ r # Pair(i)
  BY <1>0, PairOf DEF Taken
<1>9. TypeOK'
  BY <1>0, <1>1, <1>2, <1>3, <1>4, <1>5 DEF TypeOK, Ids, NextId
<1>10. LockHeld'
  <2>1. \A d \in Clients : pc'[d] = "register" <=> pc[d] = "register"
    BY <1>0, <1>2 DEF Dropping
  <2> QED
    BY <1>1, <2>1 DEF IInv, LockHeld
<1>11. Registering'
  <2> SUFFICES ASSUME NEW d \in Clients, pc'[d] = "register" PROVE Created(d)'
    BY DEF Registering
  <2>1. d # c /\ pc[d] = "register" /\ Created(d) /\ cf[d] \in Ids /\ cf[d] # i
    BY <1>2, <1>7 DEF IInv, Registering
  <2>2. Pair(cf[d]) # Pair(i)
    BY <2>1 DEF Pair
  <2> QED
    BY <1>0, <1>1, <1>2, <1>3, <1>4, <1>5, <2>1, <2>2 DEF Created, Pair
<1>12. Owning'
  <2> SUFFICES ASSUME NEW d \in Clients, pc'[d] \in Dropping PROVE Taken(d)'
    BY DEF Owning
  <2>1. pc[d] \in Dropping /\ Taken(d) /\ (d # c => pc'[d] = pc[d] /\ cf[d] \in Ids /\ cf[d] # i)
    BY <1>0, <1>2, <1>7 DEF IInv, Owning
  <2>2. \A x \in Clients : pc'[x] \in Dropping => pc[x] \in Dropping
    BY <1>0, <1>2
  <2>3. pc'[d] # "disarm" => cf[d] \notin targets'
    BY <1>2, <1>3, <1>6, <2>1 DEF Taken, Dropping
  <2>4. pc'[d] = "destroy" => estimator'[cf[d]] # "running"
    BY <1>4, <1>6, <2>1 DEF Taken
  <2> QED
    BY <1>1, <2>1, <2>2, <2>3, <2>4 DEF Taken, Pair
<1>13. Accounted'
  <2> SUFFICES ASSUME NEW r \in rocks' \ cf_registry PROVE Unregistered(r)'
    BY <1>1 DEF Accounted
  <2>1. r \in rocks \ cf_registry /\ Unregistered(r) /\ r[2] \in Ids /\ r = Pair(r[2])
    BY <1>0, <1>3, PairOf DEF IInv, Accounted
  <2>2. CASE r[2] # i
    BY <1>1, <1>2, <1>5, <2>1, <2>2 DEF Unregistered
  <2>3. CASE r[2] = i
    <3>1. r = Pair(i)
      BY <2>1, <2>3
    <3>2. CASE Disarm(c)
      BY <1>0, <1>1, <2>3, <3>2 DEF Disarm, At, Unregistered, TypeOK
    <3>3. CASE DropInRocks(c)
      <4>1. DropMayFail /\ pc'[c] = "reset"
        BY <1>0, <3>1, <3>3 DEF DropInRocks, At, TypeOK, Pair
      <4> QED
        BY <1>1, <2>3, <4>1 DEF Unregistered, Dropping
    <3>4. CASE ResetEstimator(c) \/ DestroyHandle(c)
      <4>1. DropMayFail
        BY <1>0, <1>7, <2>1, <2>3, <3>4 DEF Unregistered, ResetEstimator, DestroyHandle, At, Dropping
      <4>2. pc'[c] = "destroy" \/ handle'[i] = "destroyed"
        BY <1>0, <3>4 DEF ResetEstimator, DestroyHandle, At, TypeOK
      <4> QED
        BY <1>1, <2>3, <4>1, <4>2 DEF Unregistered, Dropping
    <3> QED
      BY <3>2, <3>3, <3>4
  <2> QED
    BY <2>2, <2>3
<1>14. Quiet'
  BY <1>0, <1>1 DEF Quiet
<1>15. ListenerCallsLive'
  <2> SUFFICES ASSUME NEW j \in targets' PROVE estimator'[j] = "running"
    BY <1>9 DEF TypeOK, ListenerCallsLive
  <2>1. j \in Ids /\ estimator[j] = "running"
    BY <1>0, <1>3 DEF IInv, TypeOK, ListenerCallsLive
  <2> QED
    BY <1>4, <1>6, <2>1
<1>16. WorkerHasHandle'
  <2> SUFFICES ASSUME NEW j \in Ids, estimator'[j] = "running" PROVE handle'[j] = "open"
    BY <1>1 DEF WorkerHasHandle, Ids
  <2>1. estimator[j] = "running" /\ handle[j] = "open"
    BY <1>4 DEF IInv, WorkerHasHandle
  <2> QED
    BY <1>5, <2>1
<1>17. RegisteredUsable'
  BY <1>0, <1>1, <1>3, <1>4, <1>5, <1>8 DEF IInv, RegisteredUsable
<1> QED
  BY <1>9, <1>10, <1>11, <1>12, <1>13, <1>14, <1>15, <1>16, <1>17 DEF IInv

\* The listener's events, and ~BitLSM.
LEMMA OtherStep ==
  ASSUME IInv,
         \/ NotifyEnd
         \/ \E i \in Ids : Notify(i) \/ CloseEstimator(i) \/ CloseHandle(i)
         \/ DisarmAll
  PROVE  IInv'
<1>0. TypeOK /\ UNCHANGED <<cf_registry, rocks, nameOf, cf_mu, pc, cf, owned, want>>
  BY DEF IInv, NotifyEnd, Notify, NotifyUnarmed, NotifyBegin, CloseEstimator, CloseHandle,
         DisarmAll, familyVars, clientVars
<1>1. CASE NotifyEnd \/ \E i \in Ids : Notify(i)
  <2>1. /\ UNCHANGED <<estimator, handle, targets, closing>>
        /\ notifying' \subseteq targets
    BY <1>1 DEF NotifyEnd, Notify, NotifyUnarmed, NotifyBegin, familyVars
  <2>2. TypeOK' /\ LockHeld' /\ Quiet'
    BY <1>0, <2>1 DEF IInv, TypeOK, LockHeld, Quiet, Ids, NextId
  <2>3. Registering' /\ Owning'
    BY <1>0, <2>1 DEF IInv, Registering, Created, Owning, Taken, Pair
  <2>4. Accounted' /\ WorkerHasHandle' /\ RegisteredUsable'
    BY <1>0, <2>1 DEF IInv, Accounted, Unregistered, WorkerHasHandle, RegisteredUsable, Ids
  <2>5. ListenerCallsLive'
    BY <1>0, <2>1 DEF IInv, ListenerCallsLive
  <2> QED
    BY <2>2, <2>3, <2>4, <2>5 DEF IInv
<1>2. CASE DisarmAll
  <2>1. /\ UNCHANGED <<estimator, handle, notifying>>
        /\ closing' = TRUE /\ targets' = {} /\ notifying = {}
        /\ \A c \in Clients : pc[c] = "idle"
    BY <1>2 DEF DisarmAll, familyVars
  <2>2. TypeOK' /\ LockHeld' /\ Quiet'
    BY <1>0, <2>1 DEF IInv, TypeOK, LockHeld, Quiet, Ids, NextId
  <2>3. Registering' /\ Owning' /\ Accounted' /\ RegisteredUsable'
    BY <1>0, <2>1 DEF Registering, Owning, Accounted, RegisteredUsable, Dropping
  <2>4. WorkerHasHandle' /\ ListenerCallsLive'
    BY <1>0, <2>1 DEF IInv, WorkerHasHandle, ListenerCallsLive, Ids
  <2> QED
    BY <2>2, <2>3, <2>4 DEF IInv
<1>3. ASSUME NEW i \in Ids, CloseEstimator(i) \/ CloseHandle(i) PROVE IInv'
  <2>1. /\ UNCHANGED <<targets, notifying, closing>> /\ closing /\ targets = {}
        /\ \A c \in Clients : pc[c] = "idle"
    BY <1>3 DEF IInv, Quiet, CloseEstimator, CloseHandle, listenerVars
  <2>2. \/ handle' = handle /\ estimator' = [estimator EXCEPT ![i] = Stopped(estimator[i])]
        \/ /\ estimator' = estimator /\ estimator[i] # "running"
           /\ handle' = [handle EXCEPT ![i] = "destroyed"]
    BY <1>3 DEF CloseEstimator, CloseHandle
  <2>3. /\ estimator \in [Ids -> {"none", "running", "destroyed"}]
        /\ handle \in [Ids -> {"open", "destroyed"}]
        /\ Stopped(estimator[i]) \in {"none", "destroyed"}
    BY <1>0 DEF TypeOK, Stopped
  <2>4. /\ estimator' \in [Ids -> {"none", "running", "destroyed"}]
        /\ handle' \in [Ids -> {"open", "destroyed"}]
    BY <2>2, <2>3
  <2>5. TypeOK' /\ LockHeld' /\ Quiet'
    BY <1>0, <2>1, <2>4 DEF IInv, TypeOK, LockHeld, Quiet, Ids, NextId
  <2>6. Registering' /\ Owning' /\ Accounted' /\ RegisteredUsable'
    BY <1>0, <2>1 DEF Registering, Owning, Accounted, RegisteredUsable, Dropping
  <2>7. ListenerCallsLive'
    BY <2>1, <2>5 DEF TypeOK, ListenerCallsLive
  <2>8. WorkerHasHandle'
    <3> SUFFICES ASSUME NEW j \in Ids, estimator'[j] = "running" PROVE handle'[j] = "open"
      BY <1>0 DEF WorkerHasHandle, Ids
    <3>1. handle[j] = "open" \/ estimator[j] # "running"
      BY DEF IInv, WorkerHasHandle
    <3> QED
      BY <2>2, <2>3, <3>1
  <2> QED
    BY <2>5, <2>6, <2>7, <2>8 DEF IInv
<1> QED
  BY <1>1, <1>2, <1>3

\* Every step of a client, of the destructor and of RocksDB's threads keeps the invariant.
LEMMA Step == IInv /\ [Next]_vars => IInv'
<1> SUFFICES ASSUME IInv, [Next]_vars PROVE IInv'
  OBVIOUS
<1>1. ASSUME NEW c \in Clients, Working(c) PROVE IInv'
  BY <1>1, CallStep, CreateStep, RegisterStep, TearDownStep DEF Working
<1>2. CASE UNCHANGED vars
  BY <1>2 DEF vars, IInv, TypeOK, LockHeld, Registering, Created, Owning, Taken, Accounted,
              Unregistered, Quiet, ListenerCallsLive, WorkerHasHandle, RegisteredUsable, Pair,
              Ids, NextId
<1>3. ASSUME NEW c \in Clients, Calls(c) PROVE IInv'
  BY <1>2, <1>3, CallStep, DropFindStep DEF Calls, DropUnknown
<1> QED
  BY <1>1, <1>2, <1>3, OtherStep DEF Next, Close, Closed

\* The listener never calls into a destroyed estimator, for any number of threads, names
\* and events.
THEOREM ListenerSafe == Spec => []ListenerCallsLive
<1>1. IInv => ListenerCallsLive
  BY DEF IInv
<1> QED
  BY <1>1, InitHolds, Step, PTL DEF Spec

\* No estimator's worker outlives the handle it reads through.
THEOREM WorkersSafe == Spec => []WorkerHasHandle
<1>1. IInv => WorkerHasHandle
  BY DEF IInv
<1> QED
  BY <1>1, InitHolds, Step, PTL DEF Spec

\* Every handle of the registry is usable, however creates and drops of its name overlap.
THEOREM RegistrySafe == Spec => []RegisteredUsable
<1>1. IInv => RegisteredUsable
  BY DEF IInv
<1> QED
  BY <1>1, InitHolds, Step, PTL DEF Spec

\* Of any number of threads that drop a family at once, one tears it down.
THEOREM OneTearsDown == Spec => []TornDownOnce
<1>1. IInv => TornDownOnce
  BY DEF IInv, TornDownOnce, Owning, Taken
<1> QED
  BY <1>1, InitHolds, Step, PTL DEF Spec

\* Between calls the registry and RocksDB list the same families, the drops RocksDB
\* refused apart.
THEOREM RegistryAgrees == Spec => []RegistryMatchesRocksDB
<1>1. IInv => RegistryMatchesRocksDB
  BY DEF IInv, RegistryMatchesRocksDB, RegisteredUsable, Accounted, Unregistered, Dropping
<1> QED
  BY <1>1, InitHolds, Step, PTL DEF Spec
==============================================================================
