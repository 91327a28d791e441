------------------------------ MODULE RedisLock ------------------------------
(***************************************************************************)
(* The lock service the application reaches through Locker.Lock            *)
(* (internal/adapters/redis/cache.go), that is redisx.Lock of the erp/pkg  *)
(* module: one SET NX with a time to live of 8 seconds and a random token, *)
(* no retry, and an unlock that deletes the key only if it still holds the *)
(* token.  A worker asks for a name again only after its earlier request   *)
(* has ended, so the worker stands for its token.                          *)
(***************************************************************************)
CONSTANTS Holder, NoWorker, LockName

VARIABLE lock   \* lock name -> the worker whose token the key holds

LockTypeOK == lock \in [LockName -> Holder \cup {NoWorker}]
LockInit == lock = [n \in LockName |-> NoWorker]

\* Mutant of Acquire: SET without NX.
AcquireAnyway(w, n) == lock' = [lock EXCEPT ![n] = w]

Acquire(w, n) == lock[n] = NoWorker /\ lock' = [lock EXCEPT ![n] = w]
Release(w, n) == lock' = IF lock[n] = w THEN [lock EXCEPT ![n] = NoWorker] ELSE lock
Expire(n) == lock[n] # NoWorker /\ lock' = [lock EXCEPT ![n] = NoWorker]
=============================================================================
