---------------------------- MODULE ProcessLocker ----------------------------
(***************************************************************************)
(* core/src/process-locker.ts: ProcessLock and ProcessLocker, the queueing *)
(* lock of one Node process. LOCKS[id] is the pair entry[id], queue[id].   *)
(* A member of Lock is a ProcessLock instance; ProcessLocker creates a new *)
(* one for every acquireLock and tryLock, so an instance that nothing      *)
(* refers to any more (Forget) stands for the next fresh one.              *)
(*                                                                         *)
(* Every handler runs to completion, so an action is one synchronous call  *)
(* or one timer callback. Timers fire at any time while they are armed.    *)
(***************************************************************************)
EXTENDS Arrays

CONSTANTS Id,      \* lock names
          Lock,    \* ProcessLock instances
          IdOf     \* the readonly id each instance is constructed with

ASSUME IdOfAssumption == IdOf \in [Lock -> Id]

VARIABLES
  entry,      \* entry[i]: LOCKS[i] exists
  queue,      \* queue[i]: LOCKS[i].queue, the instances whose ourTake waits
  holding,    \* holding[l]: the private flag of the instance
  ttl,        \* ttl[l]: its ttl argument is not 0 (captured by ourTake)
  ttlTimer,   \* ttlTimer[l]: ttlTimeout is armed
  waitTimer,  \* waitTimer[l]: the timer of acquire's timeout is armed
  caller      \* caller[l]: what the promise has told the caller

lockVars == <<entry, queue, holding, ttl, ttlTimer, waitTimer, caller>>

CallerState == {"none", "pending", "resolved", "rejected"}

Init ==
  /\ entry = [i \in Id |-> FALSE]
  /\ queue = [i \in Id |-> <<>>]
  /\ holding = [l \in Lock |-> FALSE]
  /\ ttl = [l \in Lock |-> FALSE]
  /\ ttlTimer = [l \in Lock |-> FALSE]
  /\ waitTimer = [l \in Lock |-> FALSE]
  /\ caller = [l \in Lock |-> "none"]

(* Nothing refers to the instance: it is a new one for the next caller. *)
Fresh(l) == caller[l] = "none" /\ ~waitTimer[l] /\ ~ttlTimer[l]

(* Nobody holds the id: create the entry, hold it, resolve, arm the ttl. *)
TakeFree(l, hasTtl) ==
  /\ ~entry[IdOf[l]]
  /\ entry' = [entry EXCEPT ![IdOf[l]] = TRUE]
  /\ queue' = [queue EXCEPT ![IdOf[l]] = <<>>]
  /\ holding' = [holding EXCEPT ![l] = TRUE]
  /\ ttl' = [ttl EXCEPT ![l] = hasTtl]
  /\ ttlTimer' = [ttlTimer EXCEPT ![l] = hasTtl]
  /\ caller' = [caller EXCEPT ![l] = "resolved"]

(* Mutant: the newest request waits in front. *)
EnqueueInFront(l, hasTtl) ==
  /\ entry[IdOf[l]]
  /\ queue' = [queue EXCEPT ![IdOf[l]] = <<l>> \o @]
  /\ ttl' = [ttl EXCEPT ![l] = hasTtl]
  /\ caller' = [caller EXCEPT ![l] = "pending"]
  /\ UNCHANGED <<entry, holding, ttlTimer>>

(* Somebody holds the id: ourTake waits at the end of the queue. *)
Enqueue(l, hasTtl) ==
  /\ entry[IdOf[l]]
  /\ queue' = [queue EXCEPT ![IdOf[l]] = Append(@, l)]
  /\ ttl' = [ttl EXCEPT ![l] = hasTtl]
  /\ caller' = [caller EXCEPT ![l] = "pending"]
  /\ UNCHANGED <<entry, holding, ttlTimer>>

(* acquireLock(id, ttl, timeout). The timeout timer is armed before the    *)
(* entry is looked at, so it also runs for a lock that is granted at once. *)
AcquireLock(l, hasTtl, hasTimeout) ==
  /\ Fresh(l)
  /\ waitTimer' = [waitTimer EXCEPT ![l] = hasTimeout]
  /\ TakeFree(l, hasTtl) \/ Enqueue(l, hasTtl)

(* tryLock(id, ttl). A refused tryLock changes nothing and drops its       *)
(* instance, so only the successful one is a step.                         *)
TryLock(l, hasTtl) ==
  /\ Fresh(l)
  /\ TakeFree(l, hasTtl)
  /\ UNCHANGED waitTimer

(* Mutant: unlock without its early return, it hands over what it lost. *)
HandOverUnheld(l) ==
  LET i == IdOf[l]
      next == Head(queue[i])
  IN  /\ queue[i] # <<>>
      /\ queue' = [queue EXCEPT ![i] = Tail(@)]
      /\ holding' = [holding EXCEPT ![l] = FALSE, ![next] = TRUE]
      /\ ttlTimer' = [ttlTimer EXCEPT ![l] = FALSE, ![next] = ttl[next]]
      /\ caller' = [caller EXCEPT ![next] = IF @ = "pending" THEN "resolved" ELSE @]
      /\ UNCHANGED entry

(* Mutant: the next request is taken from the queue and never called. *)
HandOverToNobody(l) ==
  /\ holding[l]
  /\ queue[IdOf[l]] # <<>>
  /\ queue' = [queue EXCEPT ![IdOf[l]] = Tail(@)]
  /\ holding' = [holding EXCEPT ![l] = FALSE]
  /\ ttlTimer' = [ttlTimer EXCEPT ![l] = FALSE]
  /\ UNCHANGED <<entry, caller>>

(* unlock() of an instance that holds an id others wait for: the longest   *)
(* waiting ourTake runs inside the call. Its resolve does nothing to a      *)
(* promise that is already rejected.                                       *)
HandOver(l) ==
  LET i == IdOf[l]
      next == Head(queue[i])
  IN  /\ holding[l]
      /\ queue[i] # <<>>
      /\ queue' = [queue EXCEPT ![i] = Tail(@)]
      /\ holding' = [holding EXCEPT ![l] = FALSE, ![next] = TRUE]
      /\ ttlTimer' = [ttlTimer EXCEPT ![l] = FALSE, ![next] = ttl[next]]
      /\ caller' = [caller EXCEPT ![next] = IF @ = "pending" THEN "resolved" ELSE @]
      /\ UNCHANGED entry

(* unlock() with nobody waiting deletes the entry. *)
Free(l) ==
  /\ holding[l]
  /\ queue[IdOf[l]] = <<>>
  /\ entry' = [entry EXCEPT ![IdOf[l]] = FALSE]
  /\ holding' = [holding EXCEPT ![l] = FALSE]
  /\ ttlTimer' = [ttlTimer EXCEPT ![l] = FALSE]
  /\ UNCHANGED <<queue, caller>>

(* unlock() of an instance that holds nothing any more returns early. *)
LateUnlock(l) ==
  /\ ~holding[l]
  /\ ttlTimer' = [ttlTimer EXCEPT ![l] = FALSE]
  /\ UNCHANGED <<entry, queue, holding, caller>>

Release(l) ==
  /\ HandOver(l) \/ Free(l) \/ LateUnlock(l)
  /\ UNCHANGED <<ttl, waitTimer>>

(* The caller has the instance from the moment acquireLock resolves and    *)
(* may call unlock as often as it likes.                                   *)
Unlock(l) == caller[l] = "resolved" /\ Release(l)

TtlExpires(l) == ttlTimer[l] /\ Release(l)

(* The timeout timer is not cleared when the lock is granted: it then      *)
(* finds nothing to remove and its reject is ignored.                      *)
WaitTimesOut(l) ==
  /\ waitTimer[l]
  /\ waitTimer' = [waitTimer EXCEPT ![l] = FALSE]
  /\ queue' = IF entry[IdOf[l]]
              THEN [queue EXCEPT ![IdOf[l]] = arrayRemoveItem(@, l)]
              ELSE queue
  /\ caller' = [caller EXCEPT ![l] = IF @ = "pending" THEN "rejected" ELSE @]
  /\ UNCHANGED <<entry, holding, ttl, ttlTimer>>

(* The caller drops an instance that no longer holds anything. *)
Forget(l) ==
  /\ caller[l] \in {"resolved", "rejected"}
  /\ ~holding[l] /\ ~waitTimer[l] /\ ~ttlTimer[l]
  /\ caller' = [caller EXCEPT ![l] = "none"]
  /\ UNCHANGED <<entry, queue, holding, ttl, ttlTimer, waitTimer>>

Next ==
  \E l \in Lock :
    \/ \E hasTtl, hasTimeout \in BOOLEAN : AcquireLock(l, hasTtl, hasTimeout)
    \/ \E hasTtl \in BOOLEAN : TryLock(l, hasTtl)
    \/ Unlock(l)
    \/ TtlExpires(l)
    \/ WaitTimesOut(l)
    \/ Forget(l)

Spec == Init /\ [][Next]_lockVars

(* Node fires every armed timer. That a caller unlocks what it holds is    *)
(* the caller's obligation, assumed only for locks taken without a ttl.    *)
Fairness ==
  \A l \in Lock :
    /\ WF_lockVars(TtlExpires(l))
    /\ WF_lockVars(WaitTimesOut(l))
    /\ WF_lockVars(holding[l] /\ ~ttl[l] /\ Unlock(l))

FairSpec == Spec /\ Fairness
-----------------------------------------------------------------------------
TypeOK ==
  /\ entry \in [Id -> BOOLEAN]
  /\ queue \in [Id -> Seq(Lock)]
  /\ holding \in [Lock -> BOOLEAN]
  /\ ttl \in [Lock -> BOOLEAN]
  /\ ttlTimer \in [Lock -> BOOLEAN]
  /\ waitTimer \in [Lock -> BOOLEAN]
  /\ caller \in [Lock -> CallerState]

(* An id has at most one holder, across unlocks that come after the ttl    *)
(* has already passed the lock on, double unlocks and expired waits.       *)
MutualExclusion ==
  \A l, m \in Lock : holding[l] /\ holding[m] /\ IdOf[l] = IdOf[m] => l = m

(* LOCKS[id] exists exactly while some instance holds the id: isLocked     *)
(* tells the truth, and no entry is left behind that nobody can delete.    *)
EntryIffHeld ==
  \A i \in Id : entry[i] <=> \E l \in Lock : IdOf[l] = i /\ holding[l]

(* A lock is never granted to a request whose caller was told that it      *)
(* timed out, or that is still being told to wait: whoever holds an id     *)
(* knows it and can unlock.                                                *)
HolderWasTold == \A l \in Lock : holding[l] => caller[l] = "resolved"

(* The queue of an id holds exactly the requests whose promise is pending, *)
(* once each: none is forgotten by a timeout or a hand over.               *)
QueueIsPending ==
  /\ \A i \in Id : Distinct(queue[i])
  /\ \A l \in Lock, i \in Id :
       l \in Items(queue[i]) <=> caller[l] = "pending" /\ IdOf[l] = i

(* While a request waits, no later one gets ahead of it in the queue or    *)
(* holds the id: not by tryLock, not by a new acquireLock in the middle of *)
(* an unlock, not when a request in between times out.                     *)
NoOvertaking ==
  [][\A l, m \in Lock :
       /\ IdOf[m] = IdOf[l] /\ m # l
       /\ caller[l] = "pending" /\ caller'[l] = "pending"
       /\ ~holding[m] /\ ~Precedes(queue[IdOf[l]], m, l)
       => ~holding'[m] /\ ~Precedes(queue'[IdOf[l]], m, l)]_lockVars

(* Every acquireLock settles: it is granted or its timeout rejects it.     *)
EveryWaiterSettles ==
  \A l \in Lock : caller[l] = "pending" ~> caller[l] # "pending"

(* The lock service that ProcessLocker implements. *)
ServiceState ==
  [l \in Lock |-> IF holding[l] THEN "owner"
                  ELSE IF caller[l] = "pending" THEN "waiting" ELSE "idle"]

Service == INSTANCE LockService WITH state <- ServiceState

(* Every step of the lock is a step of the lock service or none at all. *)
ImplementsLockService == Service!Spec

(* All that holds at any moment: the lock is exclusive, its entry, its     *)
(* queue and what callers were told agree with who holds it.               *)
LockSafety ==
  /\ TypeOK
  /\ MutualExclusion
  /\ EntryIffHeld
  /\ HolderWasTold
  /\ QueueIsPending
=============================================================================
