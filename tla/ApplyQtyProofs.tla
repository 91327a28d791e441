--------------------------- MODULE ApplyQtyProofs ---------------------------
(***************************************************************************)
(* Lemmas about the tables of StockRepo and the section of ApplyQty: every *)
(* statement keeps the types of the tables, every step of the section      *)
(* those of its own variables, and how a step moves a balance and the sums *)
(* over the ledger.  The handlers that run the section prove their type    *)
(* and ledger invariants from them.                                        *)
(***************************************************************************)
EXTENDS ApplyQty, SumProofs, SequenceTheorems

(***************************************************************************)
(* stock_balances                                                          *)
(***************************************************************************)

\* AddAvailable (stock_repo.go:316-324) keeps the tables well typed.
LEMMA AddAvailableType ==
  ASSUME RepoTypeOK, NEW k \in Keys, NEW q \in Nat, AddAvailable(k, q)
  PROVE  RepoTypeOK'
  BY DEF RepoTypeOK, AddAvailable

\* RemoveAvailable (stock_repo.go:326-339) leaves a quantity >= 0 because the
\* reserved column is >= 0.
LEMMA RemoveAvailableType ==
  ASSUME RepoTypeOK, NEW k \in Keys, NEW q \in Nat, RemoveAvailable(k, q)
  PROVE  RepoTypeOK'
  <1>1. avail[k] - q \in Nat
    BY DEF RepoTypeOK, RemoveAvailable, CanRemove
  <1> QED
    BY <1>1 DEF RepoTypeOK, RemoveAvailable

\* ConfirmSale (stock_repo.go:299-314) leaves both quantities >= 0.
LEMMA ConfirmSaleType ==
  ASSUME RepoTypeOK, NEW k \in Keys, NEW q \in Nat, ConfirmSale(k, q)
  PROVE  RepoTypeOK'
  <1>1. avail[k] - q \in Nat /\ reserved[k] - q \in Nat
    BY DEF RepoTypeOK, ConfirmSale, CanConfirmSale
  <1> QED
    BY <1>1 DEF RepoTypeOK, ConfirmSale

\* UpsertBalance (stock_repo.go:84-94) keeps the tables well typed, because the
\* CHECK constraint refuses a negative quantity.
LEMMA UpsertBalanceType ==
  ASSUME RepoTypeOK, NEW k \in Keys, NEW q \in Int, UpsertBalance(k, q)
  PROVE  RepoTypeOK'
  BY DEF RepoTypeOK, UpsertBalance, CanUpsert

\* The write of recalcReserved (stock_repo.go:260-274) passes the CHECK
\* constraint of the column.
LEMMA RecalcWriteType ==
  ASSUME RepoTypeOK, NEW s, RecalcWrite(s)
  PROVE  RepoTypeOK'
  <1>1. reserved' \in [Keys -> Nat]
    BY DEF RepoTypeOK, RecalcWrite
  <1> QED
    BY <1>1 DEF RepoTypeOK, RecalcWrite

(***************************************************************************)
(* stock_reservations                                                      *)
(***************************************************************************)

\* Among the kept lines of a product there is a last one: the upsert whose
\* quantity stays (stock_repo.go:158-174).
LEMMA LastLineKept ==
  ASSUME NEW lines \in Seq(Line), NEW p \in KeptProducts(lines)
  PROVE  /\ LastLine(lines, p) \in Kept(lines)
         /\ lines[LastLine(lines, p)].product = p
  <1> DEFINE Of == {i \in Kept(lines) : lines[i].product = p}
             Gap == {Len(lines) - i : i \in Of}
  <1>1. PICK x \in Gap : \A y \in Gap : ~ (<<y, x>> \in OpToRel(<, Nat))
    <2>1. Gap \subseteq Nat
      BY DEF Kept
    <2>2. Gap # {}
      BY DEF KeptProducts
    <2> QED
      BY <2>1, <2>2, NatLessThanWellFounded, WFMin
  <1>2. PICK i \in Of : x = Len(lines) - i
    BY <1>1
  <1>3. \A j \in Of : j <= i
    <2> TAKE j \in Of
    <2>1. /\ Len(lines) - j \in Gap /\ Len(lines) - j \in Nat
          /\ x \in Nat /\ i \in Nat /\ j \in Nat
      BY <1>2 DEF Kept
    <2>2. ~ (Len(lines) - j < x)
      BY <2>1, <1>1 DEF OpToRel
    <2> QED
      BY <2>1, <2>2, <1>2
  <1>4. \A j \in Kept(lines) : lines[j].product = p => j <= i
    BY <1>3
  <1> QED
    BY <1>2, <1>4 DEF LastLine

\* A row stays a row, whatever event replaces it.
LEMMA ReplacedType ==
  ASSUME NEW lines \in Seq(Line), NEW wh \in MaybeWarehouse, NEW p \in Product,
         NEW row \in Reservation
  PROVE  Replaced(row, lines, wh, p) \in Reservation
  <1>1. CASE p \in KeptProducts(lines)
    <2>1. LastLine(lines, p) \in DOMAIN lines
      BY <1>1, LastLineKept DEF Kept
    <2>2. lines[LastLine(lines, p)] \in Line
      BY <2>1, ElementOfSeq
    <2>3. lines[LastLine(lines, p)].qty \in Nat
      BY <2>2 DEF Line
    <2> QED
      BY <1>1, <2>3 DEF Replaced, Reservation, Status, MaybeWarehouse
  <1>2. CASE p \notin KeptProducts(lines)
    BY <1>2 DEF Replaced, Reservation, Status
  <1> QED
    BY <1>1, <1>2

\* ReplaceReservations (stock_repo.go:131-193) keeps the tables well typed.
LEMMA ReplaceReservationsType ==
  ASSUME RepoTypeOK, NEW o \in Order, NEW wh \in MaybeWarehouse, NEW lines \in Seq(Line),
         ReplaceReservations(o, wh, lines)
  PROVE  RepoTypeOK'
  <1>1. [p \in Product |-> Replaced(rsv[o][p], lines, wh, p)] \in [Product -> Reservation]
    BY ReplacedType DEF RepoTypeOK
  <1>2. rsv' = [rsv EXCEPT ![o] = [p \in Product |-> Replaced(rsv[o][p], lines, wh, p)]]
    BY DEF RepoTypeOK, ReplaceReservations
  <1>3. rsv' \in [Order -> [Product -> Reservation]]
    BY <1>1, <1>2 DEF RepoTypeOK
  <1> QED
    BY <1>3 DEF RepoTypeOK, ReplaceReservations

\* ConfirmReservations (stock_repo.go:199-204) keeps the tables well typed.
LEMMA ConfirmReservationsType ==
  ASSUME RepoTypeOK, NEW o \in Order, NEW found, ConfirmReservations(o, found)
  PROVE  RepoTypeOK'
  <1>1. ASSUME NEW p \in Product PROVE [rsv[o][p] EXCEPT !.status = "CONFIRMED"] \in Reservation
    <2>1. rsv[o][p] \in Reservation
      BY DEF RepoTypeOK
    <2> QED
      BY <2>1 DEF Reservation, Status
  <1>2. [p \in Product |-> IF p \in StillOpen(o, found)
                           THEN [rsv[o][p] EXCEPT !.status = "CONFIRMED"] ELSE rsv[o][p]]
          \in [Product -> Reservation]
    BY <1>1 DEF RepoTypeOK
  <1>3. rsv' \in [Order -> [Product -> Reservation]]
    BY <1>2 DEF RepoTypeOK, ConfirmReservations
  <1> QED
    BY <1>3 DEF RepoTypeOK, ConfirmReservations

(***************************************************************************)
(* stock_movements                                                         *)
(***************************************************************************)

\* InsertMovement (stock_repo.go:371-381) appends a movement.
LEMMA InsertMovementType ==
  ASSUME RepoTypeOK, NEW m \in Movement, InsertMovement(m)
  PROVE  RepoTypeOK'
  BY AppendProperties DEF RepoTypeOK, InsertMovement

\* Turning a sequence round keeps its elements.
LEMMA ReverseType ==
  ASSUME NEW S, NEW s \in Seq(S)
  PROVE  Reverse(s) \in Seq(S)
  <1>1. Len(s) \in Nat /\ \A i \in 1 .. Len(s) : s[i] \in S
    BY LenProperties, ElementOfSeq
  <1>2. \A i \in 1 .. Len(s) : Len(s) - i + 1 \in 1 .. Len(s)
    BY <1>1
  <1>3. [i \in 1 .. Len(s) |-> s[Len(s) - i + 1]] \in [1 .. Len(s) -> S]
    BY <1>1, <1>2
  <1> QED
    BY <1>1, <1>3, SeqDef DEF Reverse

\* What an unfiltered ListMovements returns are movements.
LEMMA RecentMovementsType ==
  ASSUME RepoTypeOK
  PROVE  RecentMovements \in Seq(Movement)
  <1> DEFINE n == Len(movements)
             first == (IF n > FeedLimit THEN n - FeedLimit ELSE 0) + 1
             recent == SubSeq(movements, first, n)
  <1>1. n \in Nat /\ first \in Nat /\ first >= 1 /\ movements \in Seq(Movement)
    BY RepoAssumption, LenProperties DEF RepoTypeOK
  <1>2. \A i \in first .. n : movements[i] \in Movement
    BY <1>1, ElementOfSeq
  <1>3. recent \in Seq(Movement)
    BY <1>1, <1>2, SubSeqProperties
  <1>4. Reverse(recent) \in Seq(Movement)
    BY <1>3, ReverseType
  <1> QED
    BY <1>4 DEF RecentMovements

\* It returns them newest first, each once.
LEMMA RecentMovementsAt ==
  ASSUME RepoTypeOK, NEW i \in DOMAIN RecentMovements
  PROVE  /\ i \in Nat /\ Len(movements) \in Nat
         /\ Len(movements) - i + 1 \in DOMAIN movements
         /\ RecentMovements[i] = movements[Len(movements) - i + 1]
  <1> DEFINE n == Len(movements)
             first == (IF n > FeedLimit THEN n - FeedLimit ELSE 0) + 1
             recent == SubSeq(movements, first, n)
  <1>1. n \in Nat /\ first \in Nat /\ first >= 1 /\ first <= n + 1 /\ movements \in Seq(Movement)
    BY RepoAssumption, LenProperties DEF RepoTypeOK
  <1>2. \A k \in first .. n : movements[k] \in Movement
    BY <1>1, ElementOfSeq
  <1>3. /\ recent \in Seq(Movement) /\ Len(recent) = n - first + 1
        /\ \A k \in 1 .. n - first + 1 : recent[k] = movements[first + k - 1]
    BY <1>1, <1>2, SubSeqProperties
  <1>4. RecentMovements = [k \in 1 .. Len(recent) |-> recent[(Len(recent) - k) + 1]]
    BY DEF RecentMovements, Reverse
  <1>5. DOMAIN movements = 1 .. n
    BY <1>1, LenProperties
  <1>6. \A m, f \in Nat : \A k \in 1 .. m - f + 1 :
          f >= 1 /\ f <= m + 1 =>
            /\ (m - f + 1) - k + 1 \in 1 .. m - f + 1
            /\ f + ((m - f + 1) - k + 1) - 1 = m - k + 1
            /\ m - k + 1 \in 1 .. m /\ k \in Nat
    OBVIOUS
  <1> HIDE DEF n, first, recent
  <1>7. i \in 1 .. n - first + 1
    BY <1>3, <1>4
  <1>8. RecentMovements[i] = recent[(Len(recent) - i) + 1]
    BY <1>3, <1>4, <1>7
  <1>9. /\ (n - first + 1) - i + 1 \in 1 .. n - first + 1
        /\ first + ((n - first + 1) - i + 1) - 1 = n - i + 1
        /\ n - i + 1 \in 1 .. n /\ i \in Nat
    BY <1>1, <1>6, <1>7
  <1>10. RecentMovements[i] = movements[n - i + 1]
    BY <1>3, <1>8, <1>9
  <1> QED
    BY <1>1, <1>5, <1>9, <1>10 DEF n

(***************************************************************************)
(* The section                                                             *)
(***************************************************************************)

\* The lock of a balance is one of the names of locks.
LEMMA StockLockName ==
  ASSUME NEW k \in Keys PROVE StockLock(k) \in LockName
  BY DEF StockLock, LockName

\* Taking and leaving a lock keeps the lock table well typed.
LEMMA LockType ==
  ASSUME LockTypeOK, NEW w \in Worker, NEW n \in LockName
  PROVE  /\ Acquire(w, n) => LockTypeOK'
         /\ Release(w, n) => LockTypeOK'
         /\ Expire(n) => LockTypeOK'
  BY SectionAssumption DEF LockTypeOK, Acquire, Release, Expire

\* A handler enters the section with a call that has movements to insert.
LEMMA BeginType ==
  ASSUME NEW Tag, SectionTypeOK(Tag), NEW w \in Worker, NEW c \in Call(Tag),
         c.posts # <<>>, Begin(w, c)
  PROVE  SectionTypeOK(Tag)'
  BY DEF SectionTypeOK, Begin, Goto, Stage, LockTypeOK

\* It leaves it with the result, or by dying.
LEMMA ReturnType ==
  ASSUME NEW Tag, SectionTypeOK(Tag), NEW w \in Worker, NEW result, Return(w, result)
  PROVE  SectionTypeOK(Tag)'
  BY DEF SectionTypeOK, Return, Goto, Stage, LockTypeOK

\* A worker that dies leaves the section well typed.
LEMMA KilledType ==
  ASSUME NEW Tag, SectionTypeOK(Tag), NEW w \in Worker, Killed(w), UNCHANGED lock
  PROVE  SectionTypeOK(Tag)'
  BY DEF SectionTypeOK, Killed, Goto, Stage, LockTypeOK

\* The statement on the balance row.
LEMMA ChangeBalanceType ==
  ASSUME NEW Tag, RepoTypeOK, SectionTypeOK(Tag), NEW w \in Worker, ChangeBalance(w)
  PROVE  RepoTypeOK' /\ SectionTypeOK(Tag)'
  <1>1. call[w].key \in Keys /\ call[w].qty \in Nat
    BY DEF SectionTypeOK, ChangeBalance, Call
  <1>2. RepoTypeOK'
    <2>1. CASE AddAvailable(call[w].key, call[w].qty)
      BY <1>1, <2>1, AddAvailableType
    <2>2. CASE RemoveAvailable(call[w].key, call[w].qty)
      BY <1>1, <2>2, RemoveAvailableType
    <2>3. CASE ConfirmSale(call[w].key, call[w].qty)
      BY <1>1, <2>3, ConfirmSaleType
    <2> QED
      BY <2>1, <2>2, <2>3 DEF ChangeBalance
  <1>3. SectionTypeOK(Tag)'
    BY DEF SectionTypeOK, ChangeBalance, Goto, Stage, LockTypeOK
  <1> QED
    BY <1>2, <1>3

\* Shortening the list of movements to insert leaves a call a call.
LEMMA CallExceptPosts ==
  ASSUME NEW Tag, NEW c \in Call(Tag), NEW s \in Seq(MovementType)
  PROVE  [c EXCEPT !.posts = s] \in Call(Tag)
  BY DEF Call

\* Inserting a movement, or failing to, shortens the list of those to insert.
LEMMA PostedType ==
  ASSUME NEW Tag, SectionTypeOK(Tag), NEW w \in Worker, stage[w] = "post",
         Posted(w), UNCHANGED lock
  PROVE  SectionTypeOK(Tag)'
  <1> DEFINE posts == call[w].posts
             next == IF Len(posts) = 1 THEN "read" ELSE "post"
  <1>1. call[w] \in Call(Tag) /\ posts \in Seq(MovementType) /\ posts # <<>>
    BY DEF SectionTypeOK, Call
  <1>2. Tail(posts) \in Seq(MovementType) /\ Len(Tail(posts)) = Len(posts) - 1
    BY <1>1, HeadTailProperties
  <1>3. next = "post" => Tail(posts) # <<>>
    <2>1. Tail(posts) = <<>> => Len(Tail(posts)) = 0
      BY EmptySeq
    <2>2. Len(posts) \in Nat
      BY <1>1, LenProperties
    <2> QED
      BY <2>1, <2>2, <1>2
  <1>4. [call[w] EXCEPT !.posts = Tail(posts)] \in Call(Tag)
    BY <1>1, <1>2, CallExceptPosts
  <1>5. /\ call' = [call EXCEPT ![w] = [call[w] EXCEPT !.posts = Tail(posts)]]
        /\ stage' = [stage EXCEPT ![w] = next]
    BY DEF Posted, Goto
  <1>6. LockTypeOK'
    BY DEF SectionTypeOK, LockTypeOK
  <1>7. stage' \in [Worker -> Stage] /\ DOMAIN call' = Worker
    BY <1>5 DEF SectionTypeOK, Stage
  <1>8. \A v \in Worker : stage'[v] # "idle" => call'[v] \in Call(Tag)
    BY <1>4, <1>5 DEF SectionTypeOK
  <1>9. \A v \in Worker : stage'[v] \in {"lock", "change", "post"} => call'[v].posts # <<>>
    <2> TAKE v \in Worker
    <2>1. CASE v = w
      <3>1. stage'[w] = next /\ call'[w].posts = Tail(posts)
        BY <1>1, <1>5 DEF SectionTypeOK, Call
      <3> QED
        BY <2>1, <3>1, <1>3
    <2>2. CASE v # w
      BY <2>2, <1>5 DEF SectionTypeOK
    <2> QED
      BY <2>1, <2>2
  <1> QED
    BY <1>6, <1>7, <1>8, <1>9 DEF SectionTypeOK

\* Every other step of the section keeps the types.
LEMMA SectionStepType ==
  ASSUME NEW Tag, RepoTypeOK, SectionTypeOK(Tag), NEW w \in Worker, SectionStep(w)
  PROVE  RepoTypeOK' /\ SectionTypeOK(Tag)'
  <1>1. stage[w] # "idle" => call[w] \in Call(Tag) /\ StockLock(call[w].key) \in LockName
    BY StockLockName DEF SectionTypeOK, Call
  <1>2. CASE LockBalance(w)
    <2>1. LockTypeOK'
      BY <1>1, <1>2, LockType DEF LockBalance, SectionTypeOK
    <2> QED
      BY <1>2, <2>1 DEF LockBalance, SectionTypeOK, RepoTypeOK, repoVars, Goto, Stage
  <1>3. CASE LockRefused(w) \/ ChangeRefused(w)
    BY <1>3 DEF LockRefused, ChangeRefused, SectionTypeOK, RepoTypeOK, repoVars, Goto,
                Stage, LockTypeOK
  <1>4. CASE PostMovement(w)
    <2>1. call[w].posts \in Seq(MovementType) /\ call[w].posts # <<>>
      BY <1>4 DEF PostMovement, SectionTypeOK, Call
    <2>2. Head(call[w].posts) \in MovementType
      BY <2>1, HeadTailProperties
    <2>3. [type |-> Head(call[w].posts), key |-> call[w].key, qty |-> call[w].qty,
           doc |-> call[w].doc] \in Movement
      BY <1>1, <1>4, <2>2 DEF PostMovement, Call, Movement
    <2>4. RepoTypeOK'
      BY <1>4, <2>3, InsertMovementType DEF PostMovement
    <2> QED
      BY <1>4, <2>4, PostedType DEF PostMovement
  <1>5. CASE PostFails(w)
    <2>1. RepoTypeOK'
      BY <1>5 DEF PostFails, RepoTypeOK, repoVars
    <2>2. CASE call[w].strict
      BY <1>5, <2>1, <2>2 DEF PostFails, SectionTypeOK, Goto, Stage, LockTypeOK
    <2>3. CASE ~ call[w].strict
      BY <1>5, <2>1, <2>3, PostedType DEF PostFails
    <2> QED
      BY <2>2, <2>3
  <1>6. CASE ReadBalance(w) \/ CacheSkipped(w) \/ CacheBalance(w)
    BY <1>6 DEF ReadBalance, CacheSkipped, CacheBalance, SectionTypeOK, RepoTypeOK,
                repoVars, Goto, Stage, LockTypeOK
  <1>7. CASE Unlock(w)
    <2>1. LockTypeOK'
      BY <1>1, <1>7, LockType DEF Unlock, SectionTypeOK
    <2> QED
      BY <1>7, <2>1 DEF Unlock, SectionTypeOK, RepoTypeOK, repoVars, Goto, Stage
  <1> QED
    BY <1>2, <1>3, <1>4, <1>5, <1>6, <1>7 DEF SectionStep

(***************************************************************************)
(* The ledger                                                              *)
(***************************************************************************)

\* A call is accounted for once it has changed its balance.
Counts(c, K, types) == c.key \in K /\ Range(c.posts) \cap types # {}

\* The movements of some types on some keys are finitely many.
LEMMA LedgerFinite ==
  ASSUME NEW s \in Seq(Movement), NEW K, NEW types
  PROVE  LET S == {i \in DOMAIN s : s[i].key \in K /\ s[i].type \in types}
         IN  IsFiniteSet(S) /\ \A i \in S : s[i].qty \in Nat
  <1> DEFINE S == {i \in DOMAIN s : s[i].key \in K /\ s[i].type \in types}
  <1>1. DOMAIN s = 1 .. Len(s) /\ Len(s) \in Nat
    BY LenProperties
  <1>2. IsFiniteSet(DOMAIN s) /\ S \subseteq DOMAIN s
    BY <1>1, FS_Interval
  <1>3. \A i \in S : s[i] \in Movement
    BY <1>1, ElementOfSeq
  <1>4. \A i \in S : s[i].qty \in Nat
    BY <1>3 DEF Movement
  <1>5. IsFiniteSet(S)
    BY <1>2, FS_Subset
  <1> QED
    BY <1>4, <1>5

\* What the ledger adds up to is a natural number.
LEMMA MovedType ==
  ASSUME RepoTypeOK, NEW K, NEW types
  PROVE  Moved(K, types) \in Nat
  <1> DEFINE f == [i \in Entries(K, types) |-> movements[i].qty]
  <1>1. movements \in Seq(Movement)
    BY DEF RepoTypeOK
  <1>2. IsFiniteSet(Entries(K, types)) /\ \A i \in Entries(K, types) : movements[i].qty \in Nat
    BY <1>1, LedgerFinite DEF Entries
  <1>3. IsFiniteSet(DOMAIN f) /\ \A i \in DOMAIN f : f[i] \in Nat
    BY <1>2
  <1> HIDE DEF f
  <1>4. SumFunction(f) \in Nat
    BY <1>3, SumNat
  <1> QED
    BY <1>4 DEF Moved, f

\* InsertMovement (stock_repo.go:371-381) adds its quantity to the ledger of
\* its key and type and to no other.
LEMMA MovedGrows ==
  ASSUME RepoTypeOK, NEW m \in Movement, InsertMovement(m), NEW K, NEW types
  PROVE  Moved(K, types)' =
           Moved(K, types) + IF m.key \in K /\ m.type \in types THEN m.qty ELSE 0
  <1> DEFINE n == Len(movements) + 1
             f == [i \in Entries(K, types) |-> movements[i].qty]
             g == [i \in Entries(K, types)' |-> movements'[i].qty]
  <1>1. /\ movements \in Seq(Movement)
        /\ DOMAIN movements = 1 .. Len(movements) /\ Len(movements) \in Nat
        /\ movements' = Append(movements, m)
    BY LenProperties DEF RepoTypeOK, InsertMovement
  <1>2. /\ DOMAIN movements' = (DOMAIN movements) \cup {n} /\ n \notin DOMAIN movements
        /\ movements'[n] = m /\ \A i \in DOMAIN movements : movements'[i] = movements[i]
    BY <1>1, AppendProperties
  <1>3. RepoTypeOK'
    BY InsertMovementType
  <1>4. /\ IsFiniteSet(DOMAIN f) /\ \A i \in DOMAIN f : f[i] \in Int
        /\ IsFiniteSet(DOMAIN g) /\ \A i \in DOMAIN g : g[i] \in Int
    <2>1. movements' \in Seq(Movement)
      BY <1>3 DEF RepoTypeOK
    <2>2. IsFiniteSet(Entries(K, types)) /\ \A i \in Entries(K, types) : movements[i].qty \in Nat
      BY <1>1, LedgerFinite DEF Entries
    <2>3. /\ IsFiniteSet(Entries(K, types)')
          /\ \A i \in Entries(K, types)' : movements'[i].qty \in Nat
      BY <2>1, LedgerFinite DEF Entries
    <2> QED
      BY <2>2, <2>3
  <1>5. DOMAIN g \ {n} = DOMAIN f \ {n} /\ \A i \in DOMAIN f \ {n} : g[i] = f[i]
    BY <1>2 DEF Entries
  <1>6. Term(f, n) = 0
    BY <1>2 DEF Term, Entries
  <1>7. Term(g, n) = IF m.key \in K /\ m.type \in types THEN m.qty ELSE 0
    BY <1>2 DEF Term, Entries
  <1>8. m.qty \in Int
    BY DEF Movement
  <1> HIDE DEF f, g, n
  <1>9. /\ SumFunction(g) = SumFunction(f) - Term(f, n) + Term(g, n)
        /\ SumFunction(f) \in Int
    BY <1>4, <1>5, SumChanges
  <1>10. SumFunction(g) = SumFunction(f) + IF m.key \in K /\ m.type \in types THEN m.qty ELSE 0
    BY <1>6, <1>7, <1>8, <1>9
  <1> QED
    BY <1>10 DEF Moved, f, g

\* The part of one worker in what is about to be inserted.
Owing(w, K, types) == IF w \in Unposted(K, types) THEN call[w].qty ELSE 0

\* A step of one worker changes only its own part.
LEMMA UnpostedMoves ==
  ASSUME NEW Tag, SectionTypeOK(Tag), SectionTypeOK(Tag)', IsFiniteSet(Worker),
         NEW w \in Worker, NEW K, NEW types,
         \A v \in Worker \ {w} : stage'[v] = stage[v] /\ call'[v] = call[v]
  PROVE  /\ UnpostedQty(K, types)' =
              UnpostedQty(K, types) - Owing(w, K, types) + Owing(w, K, types)'
         /\ UnpostedQty(K, types) \in Int
         /\ Owing(w, K, types) \in Nat /\ Owing(w, K, types)' \in Nat
  <1> DEFINE f == [v \in Unposted(K, types) |-> call[v].qty]
             g == [v \in Unposted(K, types)' |-> call'[v].qty]
  <1>1. \A v \in Unposted(K, types) : call[v].qty \in Nat
    BY DEF Unposted, SectionTypeOK, Call
  <1>2. \A v \in Unposted(K, types)' : call'[v].qty \in Nat
    BY DEF Unposted, SectionTypeOK, Call
  <1>3. IsFiniteSet(Unposted(K, types)) /\ IsFiniteSet(Unposted(K, types)')
    <2>1. Unposted(K, types) \subseteq Worker /\ Unposted(K, types)' \subseteq Worker
      BY DEF Unposted
    <2> QED
      BY <2>1, FS_Subset
  <1>4. Unposted(K, types)' \ {w} = Unposted(K, types) \ {w}
    BY DEF Unposted
  <1>5. \A v \in Unposted(K, types) \ {w} : call'[v] = call[v]
    BY DEF Unposted
  <1>6. /\ IsFiniteSet(DOMAIN f) /\ \A v \in DOMAIN f : f[v] \in Int
        /\ IsFiniteSet(DOMAIN g) /\ \A v \in DOMAIN g : g[v] \in Int
    BY <1>1, <1>2, <1>3
  <1>7. DOMAIN g \ {w} = DOMAIN f \ {w} /\ \A v \in DOMAIN f \ {w} : g[v] = f[v]
    BY <1>4, <1>5
  <1>8. /\ Term(f, w) = Owing(w, K, types) /\ Term(g, w) = Owing(w, K, types)'
        /\ Owing(w, K, types) \in Nat /\ Owing(w, K, types)' \in Nat
    BY <1>1, <1>2 DEF Term, Owing
  <1>9. UnpostedQty(K, types) = SumFunction(f) /\ UnpostedQty(K, types)' = SumFunction(g)
    BY DEF UnpostedQty
  <1> HIDE DEF f, g
  <1>10. /\ SumFunction(g) = SumFunction(f) - Term(f, w) + Term(g, w)
         /\ SumFunction(f) \in Int
    BY <1>6, <1>7, SumChanges
  <1> QED
    BY <1>8, <1>9, <1>10

\* The steps of the section and of its callers are steps of one worker.
LEMMA OneWorker ==
  ASSUME NEW Tag, SectionTypeOK(Tag), NEW w \in Worker,
         \/ SectionStep(w) \/ ChangeBalance(w) \/ Killed(w)
         \/ \E c : Begin(w, c)
         \/ \E result : Return(w, result)
  PROVE  \A v \in Worker \ {w} : stage'[v] = stage[v] /\ call'[v] = call[v]
  BY DEF SectionStep, LockBalance, LockRefused, ChangeRefused, PostMovement, PostFails, Posted,
         ReadBalance, CacheSkipped, CacheBalance, Unlock, ChangeBalance, Killed, Begin, Return,
         Goto, SectionTypeOK

\* The ledger is that of the movements alone.
LEMMA LedgerUntouched ==
  ASSUME UNCHANGED movements, NEW K, NEW types
  PROVE  Moved(K, types)' = Moved(K, types)
  BY DEF Moved, Entries

\* Only InsertMovement touches it.
LEMMA OnlyPostInserts ==
  ASSUME NEW w \in Worker,
         ChangeBalance(w) \/ (SectionStep(w) /\ ~ PostMovement(w))
  PROVE  UNCHANGED movements
  BY DEF SectionStep, LockBalance, LockRefused, ChangeRefused, PostFails, ReadBalance,
         CacheSkipped, CacheBalance, Unlock, ChangeBalance, AddAvailable, RemoveAvailable,
         ConfirmSale, repoVars

\* The first movement of a list and the rest are the whole list.
LEMMA RangeHeadTail ==
  ASSUME NEW S, NEW s \in Seq(S), s # <<>>
  PROVE  /\ Range(s) = {Head(s)} \cup Range(Tail(s))
         /\ Len(s) = 1 => Range(Tail(s)) = {}
  <1>1. /\ Len(s) \in Nat /\ Len(s) > 0 /\ DOMAIN s = 1 .. Len(s)
        /\ Head(s) = s[1] /\ Tail(s) \in Seq(S) /\ Len(Tail(s)) = Len(s) - 1
        /\ \A i \in 1 .. Len(Tail(s)) : Tail(s)[i] = s[i + 1]
        /\ DOMAIN Tail(s) = 1 .. Len(Tail(s))
    BY LenProperties, EmptySeq, HeadTailProperties
  <1>2. \A i \in 1 .. Len(s) : i = 1 \/ (i - 1 \in 1 .. Len(Tail(s)) /\ (i - 1) + 1 = i)
    BY <1>1
  <1>3. Range(s) \subseteq {Head(s)} \cup Range(Tail(s))
    <2> SUFFICES ASSUME NEW i \in 1 .. Len(s) PROVE s[i] \in {Head(s)} \cup Range(Tail(s))
      BY <1>1 DEF Range
    <2>1. CASE i = 1
      BY <1>1, <2>1
    <2>2. CASE i # 1
      <3>1. i - 1 \in DOMAIN Tail(s) /\ Tail(s)[i - 1] = s[i]
        BY <1>1, <1>2, <2>2
      <3> QED
        BY <3>1 DEF Range
    <2> QED
      BY <2>1, <2>2
  <1>4. {Head(s)} \cup Range(Tail(s)) \subseteq Range(s)
    <2>1. \A i \in 1 .. Len(Tail(s)) : i + 1 \in DOMAIN s /\ Tail(s)[i] = s[i + 1]
      BY <1>1
    <2>2. 1 \in DOMAIN s
      BY <1>1
    <2> QED
      BY <1>1, <2>1, <2>2 DEF Range
  <1>5. ASSUME Len(s) = 1 PROVE DOMAIN Tail(s) = {}
    <2>1. Len(Tail(s)) = 0
      BY <1>1, <1>5
    <2>2. 1 .. 0 = {}
      OBVIOUS
    <2> QED
      BY <1>1, <2>1, <2>2
  <1> QED
    BY <1>3, <1>4, <1>5 DEF Range

\* A worker's step that inserts nothing changes the account by its own part.
LEMMA AccountedMoves ==
  ASSUME NEW Tag, RepoTypeOK, SectionTypeOK(Tag), SectionTypeOK(Tag)', IsFiniteSet(Worker),
         NEW w \in Worker, NEW K, NEW types, UNCHANGED movements,
         \A v \in Worker \ {w} : stage'[v] = stage[v] /\ call'[v] = call[v]
  PROVE  /\ Accounted(K, types)' =
              Accounted(K, types) - Owing(w, K, types) + Owing(w, K, types)'
         /\ Accounted(K, types) \in Int
         /\ Owing(w, K, types) \in Nat /\ Owing(w, K, types)' \in Nat
  <1>1. /\ UnpostedQty(K, types)' =
              UnpostedQty(K, types) - Owing(w, K, types) + Owing(w, K, types)'
        /\ UnpostedQty(K, types) \in Int
        /\ Owing(w, K, types) \in Nat /\ Owing(w, K, types)' \in Nat
    BY UnpostedMoves
  <1>2. Moved(K, types)' = Moved(K, types) /\ Moved(K, types) \in Nat
    BY LedgerUntouched, MovedType
  <1> QED
    BY <1>1, <1>2 DEF Accounted

\* Before and after its changes a worker owes nothing.
LEMMA AccountedStays ==
  ASSUME NEW Tag, RepoTypeOK, SectionTypeOK(Tag), SectionTypeOK(Tag)', IsFiniteSet(Worker),
         NEW w \in Worker, NEW K, NEW types, UNCHANGED movements,
         \A v \in Worker \ {w} : stage'[v] = stage[v] /\ call'[v] = call[v],
         stage[w] # "post", stage'[w] # "post"
  PROVE  Accounted(K, types)' = Accounted(K, types)
  <1>1. Owing(w, K, types) = 0 /\ Owing(w, K, types)' = 0
    BY DEF Owing, Unposted
  <1> QED
    BY <1>1, AccountedMoves

\* The statement on the balance row is accounted for at once.
LEMMA ChangeAccounted ==
  ASSUME NEW Tag, RepoTypeOK, SectionTypeOK(Tag), SectionTypeOK(Tag)', IsFiniteSet(Worker),
         NEW w \in Worker, ChangeBalance(w), NEW K, NEW types
  PROVE  Accounted(K, types)' =
           Accounted(K, types) + IF Counts(call[w], K, types) THEN call[w].qty ELSE 0
  <1>1. UNCHANGED movements
    BY OnlyPostInserts
  <1>2. \A v \in Worker \ {w} : stage'[v] = stage[v] /\ call'[v] = call[v]
    BY OneWorker
  <1>3. Owing(w, K, types) = 0
    BY DEF ChangeBalance, Owing, Unposted
  <1>4. Owing(w, K, types)' = IF Counts(call[w], K, types) THEN call[w].qty ELSE 0
    BY DEF ChangeBalance, Goto, SectionTypeOK, Owing, Unposted, Counts
  <1> QED
    BY <1>1, <1>2, <1>3, <1>4, AccountedMoves

\* InsertMovement takes from what is owed what it adds to the ledger, if no
\* movement of these types is still to come in the same call.
LEMMA PostAccounted ==
  ASSUME NEW Tag, RepoTypeOK, SectionTypeOK(Tag), SectionTypeOK(Tag)', IsFiniteSet(Worker),
         NEW w \in Worker, PostMovement(w), NEW K, NEW types,
         Head(call[w].posts) \in types => Range(Tail(call[w].posts)) \cap types = {}
  PROVE  Accounted(K, types)' = Accounted(K, types)
  <1> DEFINE posts == call[w].posts
             m == [type |-> Head(posts), key |-> call[w].key, qty |-> call[w].qty,
                   doc |-> call[w].doc]
             counted == m.key \in K /\ m.type \in types
  <1>1. /\ stage[w] = "post" /\ call[w] \in Call(Tag) /\ posts \in Seq(MovementType)
        /\ posts # <<>> /\ InsertMovement(m)
    BY DEF PostMovement, SectionTypeOK, Call
  <1>2. Head(posts) \in MovementType
    BY <1>1, HeadTailProperties
  <1>3. m \in Movement
    BY <1>1, <1>2 DEF Call, Movement
  <1>4. \A v \in Worker \ {w} : stage'[v] = stage[v] /\ call'[v] = call[v]
    BY OneWorker DEF SectionStep
  <1>5. /\ call'[w].posts = Tail(posts) /\ call'[w].key = call[w].key
        /\ call'[w].qty = call[w].qty
        /\ stage'[w] = IF Len(posts) = 1 THEN "read" ELSE "post"
    BY <1>1 DEF PostMovement, Posted, Goto, SectionTypeOK, Call
  <1>6. /\ Range(posts) = {Head(posts)} \cup Range(Tail(posts))
        /\ Len(posts) = 1 => Range(Tail(posts)) = {}
    BY <1>1, RangeHeadTail
  <1>7. Owing(w, K, types) = IF Counts(call[w], K, types) THEN call[w].qty ELSE 0
    BY <1>1 DEF Owing, Unposted, Counts
  <1>8. Owing(w, K, types)' = IF Counts(call[w], K, types) /\ ~ counted THEN call[w].qty ELSE 0
    BY <1>5, <1>6 DEF Owing, Unposted, Counts
  <1>9. counted => Counts(call[w], K, types)
    BY <1>6 DEF Counts
  <1>10. Moved(K, types)' = Moved(K, types) + IF counted THEN call[w].qty ELSE 0
    BY <1>1, <1>3, MovedGrows
  <1>11. /\ UnpostedQty(K, types)' =
              UnpostedQty(K, types) - Owing(w, K, types) + Owing(w, K, types)'
         /\ UnpostedQty(K, types) \in Int
    BY <1>4, UnpostedMoves
  <1>12. Moved(K, types) \in Nat /\ call[w].qty \in Nat
    BY <1>1, MovedType DEF Call
  <1> HIDE DEF m, counted, posts
  <1> QED
    BY <1>7, <1>8, <1>9, <1>10, <1>11, <1>12 DEF Accounted

\* The sum of no movements and no calls.
LEMMA NothingAccounted ==
  ASSUME NEW K, NEW types, Entries(K, types) = {}, Unposted(K, types) = {}
  PROVE  Accounted(K, types) = 0
  <1>1. Moved(K, types) = 0
    BY SumEmpty DEF Moved
  <1>2. UnpostedQty(K, types) = 0
    BY SumEmpty DEF UnpostedQty
  <1> QED
    BY <1>1, <1>2 DEF Accounted

\* What is about to be inserted is a natural number.
LEMMA UnpostedType ==
  ASSUME NEW Tag, SectionTypeOK(Tag), IsFiniteSet(Worker), NEW K, NEW types
  PROVE  UnpostedQty(K, types) \in Nat
  <1> DEFINE f == [v \in Unposted(K, types) |-> call[v].qty]
  <1>1. IsFiniteSet(Unposted(K, types))
    <2>1. Unposted(K, types) \subseteq Worker
      BY DEF Unposted
    <2> QED
      BY <2>1, FS_Subset
  <1>2. \A v \in Unposted(K, types) : call[v].qty \in Nat
    BY DEF Unposted, SectionTypeOK, Call
  <1>3. IsFiniteSet(DOMAIN f) /\ \A v \in DOMAIN f : f[v] \in Nat
    BY <1>1, <1>2
  <1> HIDE DEF f
  <1>4. SumFunction(f) \in Nat
    BY <1>3, SumNat
  <1> QED
    BY <1>4 DEF UnpostedQty, f

\* So is what is in the ledger or about to be inserted.
LEMMA AccountedType ==
  ASSUME NEW Tag, RepoTypeOK, SectionTypeOK(Tag), IsFiniteSet(Worker), NEW K, NEW types
  PROVE  Accounted(K, types) \in Nat
  <1>1. Moved(K, types) \in Nat /\ UnpostedQty(K, types) \in Nat
    BY MovedType, UnpostedType
  <1> QED
    BY <1>1 DEF Accounted

(***************************************************************************)
(* The cache                                                               *)
(***************************************************************************)

\* Who is inside a section holds the lock of its balance.
Holds == \A w \in Worker : Inside(w) => lock[StockLock(call[w].key)] = w

\* The names of the locks of two balances differ.
LEMMA LocksApart ==
  ASSUME NEW k, NEW l PROVE StockLock(k) = StockLock(l) <=> k = l
  BY DEF StockLock

\* A step of the section works on the balance it began with.
LEMMA SectionKeepsKey ==
  ASSUME NEW Tag, SectionTypeOK(Tag), NEW w \in Worker, SectionStep(w) \/ ChangeBalance(w)
  PROVE  call'[w].key = call[w].key
  <1>1. /\ stage \in [Worker -> Stage] /\ DOMAIN call = Worker
        /\ stage[w] # "idle" => call[w] \in Call(Tag)
    BY DEF SectionTypeOK
  <1>2. stage[w] # "idle"
    BY DEF SectionStep, LockBalance, LockRefused, ChangeRefused, PostMovement, PostFails,
           ReadBalance, CacheSkipped, CacheBalance, Unlock, ChangeBalance
  <1>3. CASE UNCHANGED call
    BY <1>3
  <1>4. CASE call' = [call EXCEPT ![w].posts = Tail(@)]
    BY <1>1, <1>2, <1>4 DEF Call
  <1> QED
    BY <1>3, <1>4
       DEF SectionStep, LockBalance, LockRefused, ChangeRefused, PostMovement, PostFails,
           ReadBalance, CacheSkipped, CacheBalance, Unlock, ChangeBalance, Posted

\* What every step of a section leaves alone.
LEMMA SectionLeaves ==
  ASSUME NEW Tag, SectionTypeOK(Tag), DOMAIN seen = Worker, NEW w \in Worker,
         SectionStep(w) \/ ChangeBalance(w)
  PROVE  /\ UNCHANGED rsv /\ stage[w] # "idle"
         /\ call'[w].key = call[w].key
         /\ DOMAIN cache' = DOMAIN cache /\ DOMAIN seen' = DOMAIN seen
         /\ \A v \in Worker \ {w} :
              stage'[v] = stage[v] /\ call'[v] = call[v] /\ seen'[v] = seen[v]
  <1>1. /\ stage \in [Worker -> Stage] /\ DOMAIN call = Worker
        /\ stage[w] # "idle" => call[w] \in Call(Tag)
    BY DEF SectionTypeOK
  <1>2. UNCHANGED rsv /\ stage[w] # "idle"
    BY DEF SectionStep, LockBalance, LockRefused, ChangeRefused, PostMovement, PostFails,
           ReadBalance, CacheSkipped, CacheBalance, Unlock, ChangeBalance, AddAvailable,
           RemoveAvailable, ConfirmSale, InsertMovement, repoVars
  <1>3. DOMAIN cache' = DOMAIN cache /\ DOMAIN seen' = DOMAIN seen
    BY DEF SectionStep, LockBalance, LockRefused, ChangeRefused, PostMovement, PostFails,
           ReadBalance, CacheSkipped, CacheBalance, Unlock, ChangeBalance
  <1>4. \A v \in Worker \ {w} : seen'[v] = seen[v]
    BY DEF SectionStep, LockBalance, LockRefused, ChangeRefused, PostMovement, PostFails,
           ReadBalance, CacheSkipped, CacheBalance, Unlock, ChangeBalance
  <1>5. \A v \in Worker \ {w} : stage'[v] = stage[v] /\ call'[v] = call[v]
    BY OneWorker
  <1>6. call'[w].key = call[w].key
    BY SectionKeepsKey
  <1> QED
    BY <1>2, <1>3, <1>4, <1>5, <1>6

\* Who is inside the section of a balance holds its lock, after a step of the
\* section too.
LEMMA LocksHeld ==
  ASSUME NEW Tag, SectionTypeOK(Tag), DOMAIN seen = Worker, Holds, NEW w \in Worker,
         SectionStep(w) \/ ChangeBalance(w), NEW v \in Worker, Inside(v)'
  PROVE  lock'[StockLock(call'[v].key)] = v
  <1>1. /\ call'[w].key = call[w].key /\ stage[w] # "idle"
        /\ v # w => stage'[v] = stage[v] /\ call'[v] = call[v]
    BY SectionLeaves
  <1>2. /\ call[w].key \in Keys /\ stage \in [Worker -> Stage]
        /\ lock \in [LockName -> Holder \cup {NoWorker}]
    BY <1>1 DEF SectionTypeOK, LockTypeOK, Call
  <1>3. /\ StockLock(call[w].key) \in LockName /\ w \in Holder /\ NoWorker \notin Holder
        /\ Inside(v) => lock[StockLock(call[v].key)] = v /\ StockLock(call[v].key) \in LockName
    <2>1. Inside(v) => call[v].key \in Keys
      BY DEF Inside, SectionTypeOK, Call
    <2> QED
      BY <1>2, <2>1, StockLockName, SectionAssumption DEF Holds
  <1>4. CASE LockBalance(w)
    <2>1. /\ lock[StockLock(call[w].key)] = NoWorker
          /\ lock' = [lock EXCEPT ![StockLock(call[w].key)] = w]
      BY <1>4 DEF LockBalance, Acquire
    <2>2. CASE v = w
      <3>1. StockLock(call'[w].key) = StockLock(call[w].key)
        BY <1>1
      <3> QED
        BY <1>2, <1>3, <2>1, <2>2, <3>1
    <2>3. CASE v # w
      <3>1. Inside(v) /\ call'[v] = call[v]
        BY <1>1, <2>3 DEF Inside
      <3>2. lock[StockLock(call[v].key)] = v /\ v # NoWorker
        BY <1>3, <3>1, SectionAssumption
      <3>3. lock'[StockLock(call[v].key)] = lock[StockLock(call[v].key)]
        BY <1>2, <1>3, <2>1, <3>1, <3>2
      <3> QED
        BY <3>1, <3>2, <3>3
    <2> QED
      BY <2>2, <2>3
  <1>5. CASE Unlock(w)
    <2>1. v # w
      BY <1>2, <1>5 DEF Unlock, Goto, Inside
    <2>2. Inside(v) /\ call'[v] = call[v]
      BY <1>1, <2>1 DEF Inside
    <2>3. /\ lock[StockLock(call[v].key)] = v /\ lock[StockLock(call[w].key)] # v
          \/ lock' = lock
      BY <1>3, <1>5, <2>1, <2>2 DEF Unlock, Release
    <2> QED
      BY <1>2, <1>3, <1>5, <2>1, <2>2, <2>3 DEF Unlock, Release
  <1>6. CASE ~ LockBalance(w) /\ ~ Unlock(w)
    <2>1. UNCHANGED lock /\ (Inside(w)' => Inside(w))
      BY <1>2, <1>6
         DEF SectionStep, LockRefused, ChangeRefused, PostMovement, PostFails, Posted,
             ReadBalance, CacheSkipped, CacheBalance, ChangeBalance, Goto, Inside
    <2>2. Inside(v)
      BY <1>1, <2>1 DEF Inside
    <2> QED
      BY <1>1, <1>3, <2>1, <2>2
  <1> QED
    BY <1>4, <1>5, <1>6

\* A worker that holds only the lock of the section it is inside holds none when
\* it comes out, and its steps give no lock to another (service.go:481-504).
LEMMA SectionReturnsLock ==
  ASSUME NEW Tag, SectionTypeOK(Tag), NEW w \in Worker, SectionStep(w) \/ ChangeBalance(w),
         NEW n \in LockName, lock[n] = w => Inside(w) /\ n = StockLock(call[w].key)
  PROVE  /\ lock'[n] = w => Inside(w)' /\ n = StockLock(call'[w].key)
         /\ \A v \in Worker \ {w} : lock'[n] = v => lock[n] = v
  <1>1. call'[w].key = call[w].key
    BY SectionKeepsKey
  <1>2. /\ stage \in [Worker -> Stage] /\ lock \in [LockName -> Holder \cup {NoWorker}]
        /\ w # NoWorker /\ NoWorker \notin Worker
    BY SectionAssumption DEF SectionTypeOK, LockTypeOK
  <1>3. CASE LockBalance(w)
    <2>1. /\ lock' = [lock EXCEPT ![StockLock(call[w].key)] = w]
          /\ stage'[w] = "change"
      BY <1>2, <1>3 DEF LockBalance, Acquire, Goto
    <2>2. Inside(w)' /\ ~ Inside(w)
      BY <1>3, <2>1 DEF LockBalance, Inside
    <2>3. lock[n] # w
      BY <2>2
    <2> QED
      BY <1>1, <1>2, <2>1, <2>2, <2>3
  <1>4. CASE Unlock(w)
    <2>1. \/ lock[StockLock(call[w].key)] = w
             /\ lock' = [lock EXCEPT ![StockLock(call[w].key)] = NoWorker]
          \/ lock[StockLock(call[w].key)] # w /\ lock' = lock
      BY <1>4 DEF Unlock, Release
    <2>2. lock'[n] # w
      BY <1>2, <2>1
    <2> QED
      BY <1>2, <2>1, <2>2
  <1>5. CASE ~ LockBalance(w) /\ ~ Unlock(w)
    <2>1. UNCHANGED lock
      BY <1>5
         DEF SectionStep, LockRefused, ChangeRefused, PostMovement, PostFails, ReadBalance,
             CacheSkipped, CacheBalance, ChangeBalance
    <2>2. Inside(w) => Inside(w)'
      BY <1>2, <1>5
         DEF SectionStep, LockRefused, ChangeRefused, PostMovement, PostFails, Posted,
             ReadBalance, CacheSkipped, CacheBalance, ChangeBalance, Goto, Inside
    <2> QED
      BY <1>1, <2>1, <2>2
  <1> QED
    BY <1>3, <1>4, <1>5

\* The inductive form of what the cache shows, for the workers of one program
\* beside those of another: what a worker has read is still the quantity of the
\* row when it writes it to the cache.
CacheInv ==
  /\ DOMAIN cache = Keys /\ DOMAIN seen = Worker
  /\ Holds
  /\ \A w \in Worker : stage[w] = "cache" => seen[w].avail = avail[call[w].key]

\* A worker has changed the balance and not yet written it to the cache.
Behind(k) == \E w \in Worker : stage[w] \in {"post", "read", "cache"} /\ call[w].key = k
Shows(k) == cache[k] # NoEntry => cache[k].avail = avail[k]

\* What a step of w does to the others: without the lock of a balance it
\* changes neither the quantity nor what the cache shows, and it takes no lock
\* from its holder.
Polite(w) ==
  /\ DOMAIN cache' = DOMAIN cache
  /\ \A k \in Keys : lock[StockLock(k)] # w =>
       /\ avail'[k] = avail[k] /\ cache'[k] = cache[k]
       /\ lock[StockLock(k)] = NoWorker \/ lock'[StockLock(k)] = lock[StockLock(k)]

\* A step of the section is polite (service.go:481-504).
LEMMA SectionPolite ==
  ASSUME NEW Tag, RepoTypeOK, SectionTypeOK(Tag), CacheInv, NEW w \in Worker,
         SectionStep(w) \/ ChangeBalance(w)
  PROVE  Polite(w)
  <1>1. /\ stage[w] # "idle" /\ DOMAIN cache' = DOMAIN cache
    BY SectionLeaves DEF CacheInv
  <1>2. /\ call[w].key \in Keys /\ avail \in [Keys -> Nat] /\ DOMAIN cache = Keys
        /\ lock \in [LockName -> Holder \cup {NoWorker}]
        /\ Inside(w) => lock[StockLock(call[w].key)] = w
    BY <1>1 DEF SectionTypeOK, LockTypeOK, RepoTypeOK, Call, CacheInv, Holds
  <1> SUFFICES ASSUME NEW k \in Keys, lock[StockLock(k)] # w
               PROVE  /\ avail'[k] = avail[k] /\ cache'[k] = cache[k]
                      /\ \/ lock[StockLock(k)] = NoWorker
                         \/ lock'[StockLock(k)] = lock[StockLock(k)]
    BY <1>1 DEF Polite
  <1>3. Inside(w) => k # call[w].key
    BY <1>2
  <1>4. CASE ChangeBalance(w)
    <2>1. Inside(w)
      BY <1>4 DEF ChangeBalance, Inside
    <2> QED
      BY <1>2, <1>3, <1>4, <2>1 DEF ChangeBalance, AddAvailable, RemoveAvailable, ConfirmSale
  <1>5. CASE LockBalance(w) \/ Unlock(w)
    <2>1. StockLock(k) \in LockName /\ StockLock(call[w].key) \in LockName
      BY <1>2, StockLockName
    <2>2. UNCHANGED <<avail, cache>>
      BY <1>5 DEF LockBalance, Unlock, repoVars
    <2> QED
      BY <1>2, <1>5, <2>1, <2>2 DEF LockBalance, Unlock, Acquire, Release
  <1>6. CASE CacheBalance(w)
    <2>1. Inside(w)
      BY <1>6 DEF CacheBalance, Inside
    <2> QED
      BY <1>2, <1>3, <1>6, <2>1 DEF CacheBalance, repoVars
  <1>7. CASE LockRefused(w) \/ ChangeRefused(w) \/ PostMovement(w) \/ PostFails(w)
             \/ ReadBalance(w) \/ CacheSkipped(w)
    BY <1>7 DEF LockRefused, ChangeRefused, PostMovement, PostFails, ReadBalance,
                CacheSkipped, InsertMovement, repoVars
  <1> QED
    BY <1>4, <1>5, <1>6, <1>7 DEF SectionStep

\* Workers keep their part of the invariant while a polite stranger moves.
LEMMA StrangerPolite ==
  ASSUME NEW Tag, SectionTypeOK(Tag), CacheInv, NEW v, v \notin Worker, Polite(v),
         UNCHANGED <<stage, call, seen>>
  PROVE  CacheInv' /\ \A k : Behind(k)' <=> Behind(k)
  <1>1. ASSUME NEW w \in Worker, Inside(w)
        PROVE  /\ lock'[StockLock(call[w].key)] = w
               /\ avail'[call[w].key] = avail[call[w].key]
    <2>1. call[w].key \in Keys /\ lock[StockLock(call[w].key)] = w
      BY <1>1 DEF Inside, SectionTypeOK, Call, CacheInv, Holds
    <2>2. w # v /\ w # NoWorker
      BY SectionAssumption
    <2> QED
      BY <2>1, <2>2 DEF Polite
  <1>2. Holds'
    BY <1>1 DEF Holds, Inside, StockLock
  <1>3. \A w \in Worker : stage'[w] = "cache" => seen'[w].avail = avail'[call'[w].key]
    BY <1>1 DEF CacheInv, Inside
  <1>4. DOMAIN cache' = Keys /\ DOMAIN seen' = Worker
    BY DEF CacheInv, Polite
  <1> QED
    BY <1>2, <1>3, <1>4 DEF CacheInv, Behind

\* They keep it in their own sections, and cache what they have changed
\* (service.go:495-504).
LEMMA SectionCaches ==
  ASSUME NEW Tag, RepoTypeOK, SectionTypeOK(Tag), CacheInv, "db" \notin Faults,
         NEW w \in Worker, SectionStep(w) \/ ChangeBalance(w)
  PROVE  /\ CacheInv'
         /\ \A k \in Keys : Behind(k) \/ Shows(k) => Behind(k)' \/ Shows(k)'
  <1> DEFINE key == call[w].key
             Late == {"post", "read", "cache"}
  <1>1. /\ call'[w].key = key /\ stage[w] # "idle"
        /\ DOMAIN cache' = DOMAIN cache /\ DOMAIN seen' = DOMAIN seen
        /\ \A v \in Worker \ {w} : stage'[v] = stage[v] /\ call'[v] = call[v] /\ seen'[v] = seen[v]
    BY SectionLeaves DEF CacheInv
  <1>2. /\ key \in Keys /\ stage \in [Worker -> Stage] /\ DOMAIN cache = Keys
        /\ DOMAIN seen = Worker /\ avail \in [Keys -> Nat]
    BY <1>1 DEF SectionTypeOK, Call, CacheInv, RepoTypeOK
  <1>3. Holds'
    BY LocksHeld DEF CacheInv, Holds, StockLock
  <1>4. Polite(w)
    BY SectionPolite
  <1>5. \A k \in Keys : k # key => Behind(k)' = Behind(k) 
    BY <1>1 DEF Behind
  <1>6. ASSUME NEW v \in Worker, stage'[v] = "cache" PROVE seen'[v].avail = avail'[call'[v].key]
    <2>1. CASE v = w
      <3>1. ReadBalance(w)
        BY <1>2, <1>6, <2>1
           DEF SectionStep, LockBalance, LockRefused, ChangeRefused, PostMovement, PostFails,
               Posted, ReadBalance, CacheSkipped, CacheBalance, Unlock, ChangeBalance, Goto
      <3> QED
        BY <1>2, <2>1, <3>1 DEF ReadBalance, Balance, repoVars
    <2>2. CASE v # w
      <3>1. /\ stage[v] = "cache" /\ seen'[v] = seen[v] /\ call'[v] = call[v] /\ Inside(v)
            /\ seen[v].avail = avail[call[v].key]
        BY <1>1, <1>6, <2>2 DEF CacheInv, Inside
      <3>2. call[v].key \in Keys /\ lock[StockLock(call[v].key)] # w
        BY <2>2, <3>1 DEF SectionTypeOK, Call, CacheInv, Holds
      <3> QED
        BY <1>4, <3>1, <3>2 DEF Polite
    <2> QED
      BY <2>1, <2>2
  <1>7. ASSUME NEW k \in Keys, Behind(k) \/ Shows(k) PROVE Behind(k)' \/ Shows(k)'
    <2>1. CASE \E v \in Worker \ {w} : stage[v] \in Late /\ call[v].key = k
      BY <1>1, <2>1 DEF Behind
    <2>2. CASE stage'[w] \in Late /\ k = key
      BY <1>1, <2>2 DEF Behind
    <2>3. CASE /\ ~ (stage'[w] \in Late /\ k = key)
               /\ ~ \E v \in Worker \ {w} : stage[v] \in Late /\ call[v].key = k
      <3>1. CASE CacheBalance(w)
        <4>1. /\ cache' = [cache EXCEPT ![key] = seen[w]] /\ seen[w].avail = avail[key]
              /\ avail' = avail
          BY <3>1 DEF CacheBalance, CacheInv, repoVars
        <4>2. k # key => Shows(k)
          BY <1>7, <2>3 DEF Behind
        <4> QED
          BY <1>2, <4>1, <4>2 DEF Shows
      <3>2. CASE ~ CacheBalance(w)
        <4>1. cache' = cache /\ (stage[w] \in Late => stage'[w] \in Late)
          BY <1>2, <3>2
             DEF SectionStep, LockBalance, LockRefused, ChangeRefused, PostMovement, PostFails,
                 Posted, ReadBalance, CacheSkipped, Unlock, ChangeBalance, Goto
        <4>2. Shows(k)
          BY <1>7, <2>3, <4>1 DEF Behind
        <4>3. avail'[k] = avail[k]
          <5>1. CASE ChangeBalance(w)
            <6>1. k # key
              BY <1>2, <2>3, <5>1 DEF ChangeBalance, Goto
            <6> QED
              BY <1>2, <5>1, <6>1 DEF ChangeBalance, AddAvailable, RemoveAvailable, ConfirmSale
          <5>2. CASE SectionStep(w)
            BY <5>2
               DEF SectionStep, LockBalance, LockRefused, ChangeRefused, PostMovement,
                   PostFails, ReadBalance, CacheSkipped, CacheBalance, Unlock,
                   InsertMovement, repoVars
          <5> QED
            BY <5>1, <5>2
        <4> QED
          BY <4>1, <4>2, <4>3 DEF Shows
      <3> QED
        BY <3>1, <3>2
    <2> QED
      BY <2>1, <2>2, <2>3
  <1> QED
    BY <1>1, <1>2, <1>3, <1>6, <1>7 DEF CacheInv

\* So do steps outside every section that leave the tables, the cache and the
\* locks of the balances alone.
LEMMA OutsideCaches ==
  ASSUME NEW Tag, SectionTypeOK(Tag), CacheInv, NEW w \in Worker,
         UNCHANGED <<avail, cache, seen>>,
         \A k \in Keys : lock'[StockLock(k)] = lock[StockLock(k)],
         \A v \in Worker \ {w} : stage'[v] = stage[v] /\ call'[v] = call[v],
         ~ Inside(w), ~ Inside(w)'
  PROVE  /\ CacheInv' /\ Polite(w)
         /\ \A k : Behind(k)' = Behind(k) /\ Shows(k)' = Shows(k)
  <1>1. /\ stage[w] \notin {"post", "read", "cache"} /\ stage'[w] \notin {"post", "read", "cache"}
        /\ \A v \in Worker : Inside(v)' => v # w /\ Inside(v)
    BY DEF Inside
  <1>2. Holds'
    <2> SUFFICES ASSUME NEW v \in Worker, Inside(v)' PROVE lock'[StockLock(call'[v].key)] = v
      BY DEF Holds, StockLock
    <2>1. v # w /\ Inside(v) /\ call'[v] = call[v]
      BY <1>1
    <2>2. call[v].key \in Keys
      BY <2>1 DEF Inside, SectionTypeOK, Call
    <2> QED
      BY <2>1, <2>2 DEF CacheInv, Holds
  <1>3. \A v \in Worker : stage'[v] = "cache" => seen'[v].avail = avail'[call'[v].key]
    BY <1>1 DEF CacheInv
  <1>4. \A k : Behind(k)' = Behind(k)
    BY <1>1 DEF Behind
  <1>5. \A k : Shows(k)' = Shows(k)
    BY DEF Shows
  <1>6. DOMAIN cache' = Keys /\ DOMAIN seen' = Worker
    BY DEF CacheInv
  <1> QED
    BY <1>2, <1>3, <1>4, <1>5, <1>6 DEF CacheInv, Polite

(***************************************************************************)
(* What is left for the reservations                                       *)
(***************************************************************************)

\* RemoveAvailable leaves as much as the stored column says is reserved
\* (stock_repo.go:326-339); an entry lowers nothing.
LEMMA RemovesFree ==
  ASSUME NEW Tag, RepoTypeOK, SectionTypeOK(Tag), NEW w \in Worker, ChangeBalance(w),
         call[w].change # "confirmSale"
  PROVE  /\ UNCHANGED <<rsv, reserved, movements>> /\ rows \subseteq rows'
         /\ \A k \in Keys : avail'[k] < avail[k] => avail'[k] >= reserved[k]
  <1> DEFINE key == call[w].key
             q == call[w].qty
  <1>1. /\ key \in Keys /\ q \in Nat /\ avail \in [Keys -> Nat] /\ reserved \in [Keys -> Nat]
    BY DEF ChangeBalance, SectionTypeOK, Call, RepoTypeOK
  <1>2. AddAvailable(key, q) \/ RemoveAvailable(key, q)
    BY DEF ChangeBalance
  <1> HIDE DEF key, q
  <1>3. ASSUME NEW k \in Keys, avail'[k] < avail[k] PROVE avail'[k] >= reserved[k]
    <2>1. CASE AddAvailable(key, q)
      <3>1. avail'[k] = avail[k] + q \/ avail'[k] = avail[k]
        BY <1>1, <2>1 DEF AddAvailable
      <3> QED
        BY <1>1, <1>3, <3>1
    <2>2. CASE RemoveAvailable(key, q)
      <3>1. k = key /\ avail'[k] = avail[key] - q
        BY <1>1, <1>3, <2>2 DEF RemoveAvailable
      <3>2. avail[key] - reserved[key] >= q
        BY <2>2 DEF RemoveAvailable, CanRemove
      <3> QED
        BY <1>1, <3>1, <3>2
    <2> QED
      BY <1>2, <2>1, <2>2
  <1> QED
    BY <1>2, <1>3 DEF AddAvailable, RemoveAvailable

\* No other step of the section changes a balance or a reservation.
LEMMA SectionReservesNothing ==
  ASSUME NEW w \in Worker, SectionStep(w)
  PROVE  UNCHANGED <<rows, avail, reserved, rsv>>
  BY DEF SectionStep, LockBalance, LockRefused, ChangeRefused, PostMovement, PostFails,
         ReadBalance, CacheSkipped, CacheBalance, Unlock, InsertMovement, repoVars
=============================================================================
