---------------------------- MODULE ManagerFactory ----------------------------
(***************************************************************************)
(* The cache of resource managers, one for each account, region and role.  *)
(* The reconcile workers of the controller (the ACK runtime calls          *)
(* ManagerFor at the head of every reconcile) share it under a RWMutex:    *)
(* a look-up under the read lock, then a creation under the write lock.    *)
(* The mutex is sync.RWMutex of Go: a writer that waits keeps new readers  *)
(* out, and waits until the readers inside have left.                      *)
(***************************************************************************)
EXTENDS Naturals, FiniteSets

CONSTANTS
  Workers,      \* the workers of the controller
  RmIds,        \* account/region/role combinations
  Nobody        \* no worker

ASSUME FactoryAssumption ==
  /\ IsFiniteSet(Workers)
  /\ Nobody \notin Workers

VARIABLES
  rmCache,      \* the identifiers that have a manager in the cache
  created,      \* how many managers were made for each identifier
  readers,      \* the workers inside the read lock
  announced,    \* the writer that waits for the readers to leave
  writer,       \* the worker inside the write lock
  at,           \* where each worker is in ManagerFor
  rmId,         \* the identifier it asks for
  found         \* what its look-up found

vars == <<rmCache, created, readers, announced, writer, at, rmId, found>>

Places == {"idle", "RLock", "lookup", "RUnlock", "Lock", "wait", "new", "store", "Unlock"}

TypeOK ==
  /\ rmCache \subseteq RmIds
  /\ created \in [RmIds -> Nat]
  /\ readers \subseteq Workers
  /\ announced \in Workers \cup {Nobody}
  /\ writer \in Workers \cup {Nobody}
  /\ at \in [Workers -> Places]
  /\ rmId \in [Workers -> RmIds]
  /\ found \in [Workers -> BOOLEAN]

Init ==
  /\ rmCache = {}
  /\ created = [i \in RmIds |-> 0]
  /\ readers = {}
  /\ announced = Nobody
  /\ writer = Nobody
  /\ at = [w \in Workers |-> "idle"]
  /\ rmId \in [Workers -> RmIds]
  /\ found = [w \in Workers |-> FALSE]

Move(w, from, to) ==
  /\ at[w] = from
  /\ at' = [at EXCEPT ![w] = to]

-----------------------------------------------------------------------------
(* ManagerFor *)

Call(w) ==
  /\ Move(w, "idle", "RLock")
  /\ \E i \in RmIds : rmId' = [rmId EXCEPT ![w] = i]
  /\ UNCHANGED <<rmCache, created, readers, announced, writer, found>>

(* Mutant: the cache is read without the lock. *)
RLock_Skipped(w) ==
  /\ Move(w, "RLock", "lookup")
  /\ UNCHANGED <<rmCache, created, readers, announced, writer, rmId, found>>

RLock(w) ==
  /\ Move(w, "RLock", "lookup")
  /\ writer = Nobody
  /\ announced = Nobody
  /\ readers' = readers \cup {w}
  /\ UNCHANGED <<rmCache, created, announced, writer, rmId, found>>

Lookup(w) ==
  /\ Move(w, "lookup", "RUnlock")
  /\ found' = [found EXCEPT ![w] = rmId[w] \in rmCache]
  /\ UNCHANGED <<rmCache, created, readers, announced, writer, rmId>>

(* Mutant: the read lock is kept while the write lock is asked for.         *)
RUnlock_Kept(w) ==
  /\ Move(w, "RUnlock", IF found[w] THEN "idle" ELSE "Lock")
  /\ readers' = IF found[w] THEN readers \ {w} ELSE readers
  /\ UNCHANGED <<rmCache, created, announced, writer, rmId, found>>

(* The read lock is given back before anything else: an RWMutex cannot be   *)
(* upgraded, a writer waits for every reader.                               *)
RUnlock(w) ==
  /\ Move(w, "RUnlock", IF found[w] THEN "idle" ELSE "Lock")
  /\ readers' = readers \ {w}
  /\ UNCHANGED <<rmCache, created, announced, writer, rmId, found>>

(* Lock keeps new readers out first, and then waits for those inside. *)
Lock(w) ==
  /\ Move(w, "Lock", "wait")
  /\ writer = Nobody
  /\ announced = Nobody
  /\ announced' = w
  /\ UNCHANGED <<rmCache, created, readers, writer, rmId, found>>

Locked(w) ==
  /\ Move(w, "wait", "new")
  /\ readers = {}
  /\ announced' = Nobody
  /\ writer' = w
  /\ UNCHANGED <<rmCache, created, readers, rmId, found>>

(* Mutant: the lock is only released after a success. *)
NewResourceManager_KeepsLock(w) ==
  /\ \/ /\ Move(w, "new", "store")
        /\ created' = [created EXCEPT ![rmId[w]] = @ + 1]
     \/ Move(w, "new", "idle") /\ UNCHANGED created
  /\ UNCHANGED <<rmCache, readers, announced, writer, rmId, found>>

(* newResourceManager makes a manager or returns an error; the cache is not *)
(* looked up again under the write lock.                                    *)
NewResourceManager(w) ==
  /\ \/ /\ Move(w, "new", "store")
        /\ created' = [created EXCEPT ![rmId[w]] = @ + 1]
     \/ Move(w, "new", "Unlock") /\ UNCHANGED created
  /\ UNCHANGED <<rmCache, readers, announced, writer, rmId, found>>

(* Mutant: the new manager is returned and not cached. *)
Store_Nothing(w) ==
  /\ Move(w, "store", "Unlock")
  /\ UNCHANGED <<rmCache, created, readers, announced, writer, rmId, found>>

Store(w) ==
  /\ Move(w, "store", "Unlock")
  /\ rmCache' = rmCache \cup {rmId[w]}
  /\ UNCHANGED <<created, readers, announced, writer, rmId, found>>

(* The deferred Unlock, on both ways out. *)
Unlock(w) ==
  /\ Move(w, "Unlock", "idle")
  /\ writer' = Nobody
  /\ UNCHANGED <<rmCache, created, readers, announced, rmId, found>>

ManagerFor(w) ==
  \/ RLock(w) \/ Lookup(w) \/ RUnlock(w)
  \/ Lock(w) \/ Locked(w) \/ NewResourceManager(w) \/ Store(w) \/ Unlock(w)

Next == \E w \in Workers : Call(w) \/ ManagerFor(w)

Spec == Init /\ [][Next]_vars

(* sync.RWMutex lets in the readers that wait when a writer leaves, and     *)
(* hands the writers' mutex over, so no caller waits for a lock forever.    *)
FairSpec == Spec /\ \A w \in Workers : SF_vars(ManagerFor(w))

-----------------------------------------------------------------------------
(* Properties *)

(* The map is never written while another worker reads or writes it, which  *)
(* would stop the process (rmCache of ManagerFor, under RLock and Lock).    *)
CacheIsGuarded ==
  \A v, w \in Workers :
    v # w /\ at[v] = "store" => at[w] \notin {"lookup", "store"}

(* However the workers race, no more managers are made for an identifier    *)
(* than there are workers: each makes at most one before it finds one in    *)
(* the cache.  (Not one in all: "this helps us to avoid creating multiple   *)
(* resource managers for the same account/region/roleARN combination", says *)
(* ManagerFor, which does not look again under the write lock.)             *)
BoundedCreation == \A i \in RmIds : created[i] <= Cardinality(Workers)

(* The inductive invariant: who is where in ManagerFor and what of the lock *)
(* he holds, and how many managers may still be made.                       *)
LockOK ==
  /\ \A w \in Workers : /\ w \in readers <=> at[w] \in {"lookup", "RUnlock"}
                        /\ writer = w <=> at[w] \in {"new", "store", "Unlock"}
                        /\ announced = w <=> at[w] = "wait"
  /\ writer # Nobody => readers = {} /\ announced = Nobody

(* The workers that found no manager for i and have made none yet. *)
Pending(i) ==
  {w \in Workers : /\ rmId[w] = i
                   /\ \/ at[w] = "RUnlock" /\ ~found[w]
                      \/ at[w] \in {"Lock", "wait", "new"}}

CreationAt(i) ==
  /\ i \in rmCache => created[i] + Cardinality(Pending(i)) <= Cardinality(Workers)
  /\ i \notin rmCache =>
       created[i] = IF \E w \in Workers : at[w] = "store" /\ rmId[w] = i THEN 1 ELSE 0

CreationOK == \A i \in RmIds : CreationAt(i)

IInv == TypeOK /\ LockOK /\ CreationOK

(* Every call of ManagerFor returns, and so no worker is lost to the others *)
(* (ManagerFor gives the read lock back before it asks for the write lock,  *)
(* and that one back on both ways out).                                     *)
CallsReturn == \A w \in Workers : at[w] # "idle" ~> at[w] = "idle"
=============================================================================
