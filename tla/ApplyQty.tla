------------------------------ MODULE ApplyQty ------------------------------
(***************************************************************************)
(* The section every stock change runs under the lock of its balance:      *)
(* applyQtySub, and the bodies of the loops of applyConfirmedReservations  *)
(* and confirmReservedSale (internal/application/service.go).  They share  *)
(* one course: take the lock "stock:<product>:<warehouse>", change the     *)
(* balance row, insert the movements, read the balance, write it to the    *)
(* cache, unlock.  A handler calls the section with Begin and goes on when *)
(* its stage is "ok" or "err".                                             *)
(*                                                                         *)
(* A call is a record                                                      *)
(*   line    the handler's place of it: calls are made in ascending order  *)
(*   change  "add", "remove" or "confirmSale": the statement on the row    *)
(*   key, qty, doc, posts (the types of the movements still to insert)     *)
(*   strict  TRUE in applyQtySub, where a failed InsertMovement is an      *)
(*           error; FALSE in the loops, which ignore it                    *)
(*   tag     the handler's name for it (no counterpart in the code)        *)
(***************************************************************************)
EXTENDS StockRepo

CONSTANTS
  Worker, NoWorker, NoEntry,
  Holder,  \* all clients of the lock service: these workers and others
  Faults   \* what may go wrong in a run: a subset of {"db", "crash", "expiry"}

ASSUME SectionAssumption ==
  /\ Worker \subseteq Holder /\ NoWorker \notin Holder
  /\ Faults \subseteq {"db", "crash", "expiry"}

LockName == ({"stock"} \X Keys) \cup ({"reserve"} \X (DocId \cup {NoDoc}))

VARIABLES
  lock,    \* see RedisLock
  cache,   \* redis: key -> the balance last written
  stage,   \* worker -> where it is in the section
  call,    \* worker -> the call it runs
  seen     \* worker -> the balance it read and will cache

sectionVars == <<cache, stage, call, seen>>

INSTANCE RedisLock

Stage == {"idle", "lock", "change", "post", "read", "cache", "unlock", "unlockErr",
          "ok", "err"}
Change == {"add", "remove", "confirmSale"}
Call(Tag) == [line : Nat, change : Change, key : Keys, qty : Nat, doc : Document,
              posts : Seq(MovementType), strict : BOOLEAN, tag : Tag]

\* The cached balances are left untyped: they hold sums, and no step reads them.
SectionTypeOK(Tag) ==
  /\ LockTypeOK
  /\ stage \in [Worker -> Stage]
  /\ DOMAIN call = Worker
  /\ \A w \in Worker : stage[w] # "idle" => call[w] \in Call(Tag)
  /\ \A w \in Worker : stage[w] \in {"lock", "change", "post"} => call[w].posts # <<>>

\* Mutants of ApplyCall: a transfer into a warehouse is not among the types that
\* add, and a failed InsertMovement is ignored.
ApplyCallNoTransfer(line, type, key, qty, doc, tag) ==
  [line |-> line, change |-> IF type \in AddTypes \ {"TRANSFER_IN"} THEN "add" ELSE "remove",
   key |-> key, qty |-> qty, doc |-> doc, posts |-> <<type>>, strict |-> TRUE, tag |-> tag]
ApplyCallLenient(line, type, key, qty, doc, tag) ==
  [line |-> line, change |-> IF type \in AddTypes THEN "add" ELSE "remove", key |-> key,
   qty |-> qty, doc |-> doc, posts |-> <<type>>, strict |-> FALSE, tag |-> tag]

\* What applyQtySub is called with: the direction follows from the type.
ApplyCall(line, type, key, qty, doc, tag) ==
  [line |-> line, change |-> IF type \in AddTypes THEN "add" ELSE "remove", key |-> key,
   qty |-> qty, doc |-> doc, posts |-> <<type>>, strict |-> TRUE, tag |-> tag]

NoCall == [line |-> 0]   \* call[w] when the worker is in no section

SectionInit ==
  /\ LockInit
  /\ cache = [k \in Keys |-> NoEntry]
  /\ stage = [w \in Worker |-> "idle"]
  /\ call = [w \in Worker |-> NoCall]
  /\ seen = [w \in Worker |-> NoEntry]

StockLock(k) == <<"stock", k>>
Goto(w, s) == stage' = [stage EXCEPT ![w] = s]

Begin(w, c) ==
  /\ stage[w] = "idle"
  /\ Goto(w, "lock")
  /\ call' = [call EXCEPT ![w] = c]
  /\ UNCHANGED <<lock, cache, seen>>

\* The handler takes the result of the section.
Return(w, result) ==
  /\ stage[w] = result
  /\ Goto(w, "idle")
  /\ call' = [call EXCEPT ![w] = NoCall]
  /\ UNCHANGED <<lock, cache, seen>>

LockBalance(w) ==
  /\ stage[w] = "lock"
  /\ Acquire(w, StockLock(call[w].key))
  /\ Goto(w, "change")
  /\ UNCHANGED <<repoVars, cache, call, seen>>

\* The lock is taken, or Redis does not answer: Lock returns an error.
LockRefused(w) ==
  /\ stage[w] = "lock"
  /\ "db" \in Faults \/ lock[StockLock(call[w].key)] # NoWorker
  /\ Goto(w, "err")
  /\ UNCHANGED <<repoVars, lock, cache, call, seen>>

CanChange(c) ==
  CASE c.change = "add" -> TRUE
    [] c.change = "remove" -> CanRemove(c.key, c.qty)
    [] c.change = "confirmSale" -> CanConfirmSale(c.key, c.qty)

ChangeBalance(w) ==
  /\ stage[w] = "change"
  /\ LET c == call[w]
     IN  \/ c.change = "add" /\ AddAvailable(c.key, c.qty)
         \/ c.change = "remove" /\ RemoveAvailable(c.key, c.qty)
         \/ c.change = "confirmSale" /\ ConfirmSale(c.key, c.qty)
  /\ Goto(w, "post")
  /\ UNCHANGED <<lock, cache, call, seen>>

\* Mutant of ChangeRefused: the error of the statement is ignored.
ChangeIgnored(w) ==
  /\ stage[w] = "change"
  /\ "db" \in Faults \/ ~CanChange(call[w])
  /\ Goto(w, "post")
  /\ UNCHANGED <<repoVars, lock, cache, call, seen>>

\* No row satisfies the WHERE clause (ErrInsufficient), or the statement fails.
ChangeRefused(w) ==
  /\ stage[w] = "change"
  /\ "db" \in Faults \/ ~CanChange(call[w])
  /\ Goto(w, "unlockErr")
  /\ UNCHANGED <<repoVars, lock, cache, call, seen>>

\* Where the section goes after one of its InsertMovement calls.
Posted(w) ==
  /\ call' = [call EXCEPT ![w].posts = Tail(@)]
  /\ Goto(w, IF Len(call[w].posts) = 1 THEN "read" ELSE "post")

PostMovement(w) ==
  /\ stage[w] = "post"
  /\ InsertMovement([type |-> Head(call[w].posts), key |-> call[w].key,
                     qty |-> call[w].qty, doc |-> call[w].doc])
  /\ Posted(w)
  /\ UNCHANGED <<lock, cache, seen>>

PostFails(w) ==
  /\ stage[w] = "post"
  /\ "db" \in Faults
  /\ IF call[w].strict THEN Goto(w, "unlockErr") /\ UNCHANGED call ELSE Posted(w)
  /\ UNCHANGED <<repoVars, lock, cache, seen>>

ReadBalance(w) ==
  /\ stage[w] = "read"
  /\ seen' = [seen EXCEPT ![w] = Balance(call[w].key)]
  /\ Goto(w, "cache")
  /\ UNCHANGED <<repoVars, lock, cache, call>>

\* GetBalance or the cache fails: the section ends well without caching.
CacheSkipped(w) ==
  /\ stage[w] \in {"read", "cache"}
  /\ "db" \in Faults
  /\ Goto(w, "unlock")
  /\ seen' = [seen EXCEPT ![w] = NoEntry]
  /\ UNCHANGED <<repoVars, lock, cache, call>>

CacheBalance(w) ==
  /\ stage[w] = "cache"
  /\ cache' = [cache EXCEPT ![call[w].key] = seen[w]]
  /\ seen' = [seen EXCEPT ![w] = NoEntry]
  /\ Goto(w, "unlock")
  /\ UNCHANGED <<repoVars, lock, call>>

\* Mutant of Unlock: the branch of the error returns without unlock(ctx).
UnlockOnSuccess(w) ==
  /\ stage[w] \in {"unlock", "unlockErr"}
  /\ IF stage[w] = "unlock" THEN Release(w, StockLock(call[w].key)) ELSE UNCHANGED lock
  /\ Goto(w, IF stage[w] = "unlock" THEN "ok" ELSE "err")
  /\ UNCHANGED <<repoVars, cache, call, seen>>

Unlock(w) ==
  /\ stage[w] \in {"unlock", "unlockErr"}
  /\ Release(w, StockLock(call[w].key))
  /\ Goto(w, IF stage[w] = "unlock" THEN "ok" ELSE "err")
  /\ UNCHANGED <<repoVars, cache, call, seen>>

\* The steps of the section other than the one that changes the balance row.
SectionStep(w) ==
  \/ LockBalance(w) \/ LockRefused(w) \/ ChangeRefused(w)
  \/ PostMovement(w) \/ PostFails(w)
  \/ ReadBalance(w) \/ CacheSkipped(w) \/ CacheBalance(w)
  \/ Unlock(w)

\* The process of the worker dies: what it holds in memory is gone, its locks
\* stay until they expire.
Killed(w) ==
  /\ Goto(w, "idle")
  /\ call' = [call EXCEPT ![w] = NoCall]
  /\ seen' = [seen EXCEPT ![w] = NoEntry]

\* Workers that run the section of key k and hold its lock.
Inside(w) == stage[w] \notin {"idle", "lock", "ok", "err"}

\* Workers that have changed a balance among K and have still to insert a
\* movement of one of the types, and the quantities they have moved.
Unposted(K, types) ==
  {w \in Worker : /\ stage[w] = "post" /\ call[w].key \in K
                  /\ Range(call[w].posts) \cap types # {}}
UnpostedQty(K, types) == SumFunction([w \in Unposted(K, types) |-> call[w].qty])

\* What is in the ledger or about to be inserted into it.
Accounted(K, types) == Moved(K, types) + UnpostedQty(K, types)
=============================================================================
