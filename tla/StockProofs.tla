----------------------------- MODULE StockProofs -----------------------------
(***************************************************************************)
(* What holds of consumers and requests together (Stock), from the lemmas  *)
(* about each: a step of one side is a step of its own specification, and  *)
(* leaves the other side the tables, the locks and the cache as that side  *)
(* may find them.                                                          *)
(***************************************************************************)
EXTENDS Stock, TLAPS

(***************************************************************************)
(* One set of tables                                                       *)
(***************************************************************************)

\* Both sides speak of the same tables and locks.
LEMMA SameTables ==
  /\ S!RepoTypeOK <=> R!RepoTypeOK
  /\ S!RepoTypeOK' <=> R!RepoTypeOK'
  /\ S!LockTypeOK <=> R!LockTypeOK
  /\ S!LockTypeOK' <=> R!LockTypeOK'
  BY DEF S!RepoTypeOK, R!RepoTypeOK, S!LockTypeOK, R!LockTypeOK, S!Keys, R!Keys,
         S!Reservation, R!Reservation, S!Status, R!Status, S!MaybeWarehouse,
         R!MaybeWarehouse, S!Movement, R!Movement, S!MovementType, R!MovementType,
         S!AddTypes, R!AddTypes, S!OutTypes, R!OutTypes, S!Document, R!Document,
         S!DocType, R!DocType, S!LockName, R!LockName

\* A lock that runs out.
LockStep == \E n \in S!LockName : TtlRunsOut(n)

\* The steps of either side are steps of its own specification; a lock that runs
\* out leaves all but the locks alone.
LEMMA StepsOfSides ==
  /\ ConsumerStep => S!Next /\ UNCHANGED ofRequests
  /\ RequesterStep => R!Next /\ UNCHANGED ofSales
  /\ LockStep => /\ UNCHANGED <<rows, avail, reserved, rsv, movements, cache>>
                 /\ UNCHANGED ofSales /\ UNCHANGED ofRequests
  /\ Next => ConsumerStep \/ RequesterStep \/ LockStep
  BY DEF ConsumerStep, RequesterStep, LockStep, TtlRunsOut, S!Next, R!Next, Next

\* A lock that runs out is free.
LEMMA LocksRunOut == S!LockTypeOK /\ LockStep => S!LockTypeOK'
  BY DEF LockStep, TtlRunsOut, S!Expire, S!LockTypeOK

\* What one side leaves alone of the types of the other.
LEMMA TypesStay ==
  /\ S!TypeOK /\ UNCHANGED ofSales /\ S!RepoTypeOK' /\ S!LockTypeOK' => S!TypeOK'
  /\ R!TypeOK /\ UNCHANGED ofRequests /\ R!RepoTypeOK' /\ R!LockTypeOK' => R!TypeOK'
  <1>1. ASSUME S!TypeOK, UNCHANGED ofSales, S!RepoTypeOK', S!LockTypeOK'
        PROVE  S!TypeOK'
    BY <1>1 DEF ofSales, S!TypeOK, S!SectionTypeOK, S!BrokerTypeOK, S!HandlerTypeOK, S!OrderOf
  <1>2. ASSUME R!TypeOK, UNCHANGED ofRequests, R!RepoTypeOK', R!LockTypeOK'
        PROVE  R!TypeOK'
    BY <1>2 DEF ofRequests, R!TypeOK, R!SectionTypeOK, R!HandlersTypeOK, R!At
  <1> QED
    BY <1>1, <1>2

SidesTypeOK == S!TypeOK /\ R!TypeOK

\* No step of either side breaks a type of the other.
LEMMA SidesTypeStep == SidesTypeOK /\ [Next]_vars => SidesTypeOK'
  <1> SUFFICES ASSUME SidesTypeOK, [Next]_vars PROVE SidesTypeOK'
    OBVIOUS
  <1>1. CASE UNCHANGED vars
    <2>1. UNCHANGED ofSales /\ UNCHANGED ofRequests /\ UNCHANGED shared
      BY <1>1 DEF vars
    <2>2. S!RepoTypeOK' /\ S!LockTypeOK'
      BY <2>1 DEF shared, SidesTypeOK, S!TypeOK, S!SectionTypeOK, S!RepoTypeOK, S!LockTypeOK
    <2> QED
      BY <2>1, <2>2, SameTables, TypesStay DEF SidesTypeOK
  <1>2. CASE ConsumerStep
    <2>1. S!TypeOK'
      BY <1>2, StepsOfSides, S!TypeStep, SidesAssumption DEF SidesTypeOK
    <2>2. S!RepoTypeOK' /\ S!LockTypeOK'
      BY <2>1 DEF S!TypeOK, S!SectionTypeOK
    <2> QED
      BY <1>2, <2>1, <2>2, StepsOfSides, SameTables, TypesStay DEF SidesTypeOK
  <1>3. CASE RequesterStep
    <2>1. R!TypeOK'
      BY <1>3, StepsOfSides, R!RequestStepType, SidesAssumption DEF SidesTypeOK
    <2>2. R!RepoTypeOK' /\ R!LockTypeOK'
      BY <2>1 DEF R!TypeOK, R!SectionTypeOK
    <2> QED
      BY <1>3, <2>1, <2>2, StepsOfSides, SameTables, TypesStay DEF SidesTypeOK
  <1>4. CASE LockStep
    <2>1. S!RepoTypeOK'
      BY <1>4, StepsOfSides DEF SidesTypeOK, S!TypeOK, S!RepoTypeOK
    <2>2. S!LockTypeOK'
      BY <1>4, LocksRunOut DEF SidesTypeOK, S!TypeOK, S!SectionTypeOK
    <2> QED
      BY <1>4, <2>1, <2>2, StepsOfSides, SameTables, TypesStay DEF SidesTypeOK
  <1> QED
    BY <1>1, <1>2, <1>3, <1>4, StepsOfSides

\* Consumers and requests at work together keep every type: whichever comes
\* between, and whatever fails, dies or expires, no balance becomes negative.
THEOREM StockTypeCorrect == Spec => []SidesTypeOK
  <1>1. Init => SidesTypeOK
    BY S!InitTypeOK, R!RequestsInitType, SidesAssumption DEF Init, SidesTypeOK
  <1> QED
    BY <1>1, SidesTypeStep, PTL DEF Spec

(***************************************************************************)
(* One ledger                                                              *)
(***************************************************************************)

\* Every call of a consumer is a sale, every call of a request has the
\* direction of its movement.
SidesCalls == S!CallsSell /\ R!CallsInv

\* So they stay.
LEMMA SidesCallsStep == SidesTypeOK /\ SidesCalls /\ [Next]_vars => SidesCalls'
  <1> SUFFICES ASSUME SidesTypeOK, SidesCalls, [Next]_vars PROVE SidesCalls'
    OBVIOUS
  <1>1. UNCHANGED ofSales => S!CallsSell'
    BY DEF ofSales, SidesCalls, S!CallsSell, S!SaleCall
  <1>2. UNCHANGED ofRequests => R!CallsInv'
    BY DEF ofRequests, SidesCalls, R!CallsInv, R!Directed
  <1>3. ConsumerStep => S!CallsSell'
    BY StepsOfSides, S!SellsStep, SidesAssumption DEF SidesTypeOK, SidesCalls
  <1>4. RequesterStep => R!CallsInv'
    BY StepsOfSides, R!CallsStep, SidesAssumption DEF SidesTypeOK, SidesCalls
  <1> QED
    BY <1>1, <1>2, <1>3, <1>4, StepsOfSides DEF SidesCalls, vars

\* Both sides speak of the same movements.
LEMMA SameLedger ==
  ASSUME NEW K, NEW types
  PROVE  /\ S!Moved(K, types) = R!Moved(K, types)
         /\ S!Moved(K, types)' = R!Moved(K, types)'
         /\ S!AddTypes = R!AddTypes /\ S!OutTypes = R!OutTypes
  BY DEF S!Moved, R!Moved, S!Entries, R!Entries, S!AddTypes, R!AddTypes, S!OutTypes, R!OutTypes,
         S!SumFunction, R!SumFunction, S!SumFunctionOnSet, R!SumFunctionOnSet,
         S!FoldFunctionOnSet, R!FoldFunctionOnSet, S!MapThenFoldSet, R!MapThenFoldSet

\* A finite set is finite on either side.
LEMMA SameFinite ==
  ASSUME NEW T, IsFiniteSet(T)
  PROVE  S!IsFiniteSet(T) /\ R!IsFiniteSet(T)
  BY DEF IsFiniteSet, S!IsFiniteSet, R!IsFiniteSet

\* What is in the ledger, and what either side is about to insert.
SumsTypeOK ==
  \A k \in Keys : \A types \in {R!AddTypes, R!OutTypes} :
    /\ R!Moved({k}, types) \in Nat /\ R!UnpostedQty({k}, types) \in Nat
    /\ S!UnpostedQty({k}, types) \in Nat

\* These are natural numbers.
LEMMA SumsType ==
  ASSUME IsFiniteSet(Consumer), IsFiniteSet(Requester)
  PROVE  SidesTypeOK => SumsTypeOK
  <1> SUFFICES ASSUME SidesTypeOK, NEW k \in Keys, NEW types \in {R!AddTypes, R!OutTypes}
               PROVE  /\ R!Moved({k}, types) \in Nat /\ R!UnpostedQty({k}, types) \in Nat
                      /\ S!UnpostedQty({k}, types) \in Nat
    BY DEF SumsTypeOK
  <1>1. S!SectionTypeOK(S!CallTag) /\ R!SectionTypeOK({NoTag}) /\ R!RepoTypeOK
    BY DEF SidesTypeOK, S!TypeOK, R!TypeOK
  <1>2. R!Moved({k}, types) \in Nat
    BY <1>1, R!MovedType, SidesAssumption
  <1>3. R!UnpostedQty({k}, types) \in Nat
    BY <1>1, R!UnpostedType, SameFinite, SidesAssumption
  <1>4. S!UnpostedQty({k}, types) \in Nat
    BY <1>1, S!UnpostedType, SameFinite, SidesAssumption
  <1> QED
    BY <1>2, <1>3, <1>4

\* No consumer is about to insert an entry.
LEMMA SalesAddNothing ==
  ASSUME NEW K
  PROVE  /\ S!CallsSell => S!UnpostedQty(K, R!AddTypes) = 0
         /\ S!CallsSell' => S!UnpostedQty(K, R!AddTypes)' = 0
  <1>1. ASSUME NEW c, S!SaleCall(c) PROVE S!Range(c.posts) \cap R!AddTypes = {}
    <2>1. "RESERVATION_RELEASE" \notin R!AddTypes /\ S!Sale \cap R!AddTypes = {}
      BY DEF R!AddTypes, S!Sale
    <2>2. S!Range(c.posts) \cap R!AddTypes = S!Sale \cap R!AddTypes
      BY <1>1, <2>1, S!SalePosts, SidesAssumption
    <2> QED
      BY <2>1, <2>2
  <1>2. ASSUME S!CallsSell PROVE S!Unposted(K, R!AddTypes) = {}
    BY <1>1, <1>2 DEF S!CallsSell, S!Unposted
  <1>3. ASSUME S!CallsSell' PROVE S!Unposted(K, R!AddTypes)' = {}
    BY <1>1, <1>3 DEF S!CallsSell, S!SaleCall, S!Unposted
  <1> QED
    BY <1>2, <1>3, S!SumEmpty, SidesAssumption DEF S!UnpostedQty

\* What a side is about to insert changes only by its own steps.
LEMMA UnpostedStays ==
  ASSUME NEW K, NEW types
  PROVE  /\ UNCHANGED ofSales => S!UnpostedQty(K, types)' = S!UnpostedQty(K, types)
         /\ UNCHANGED ofRequests => R!UnpostedQty(K, types)' = R!UnpostedQty(K, types)
  BY DEF ofSales, ofRequests, S!UnpostedQty, S!Unposted, R!UnpostedQty, R!Unposted

\* A sale keeps the account of both sides.
LEMMA ConsumerLedger ==
  ASSUME SidesTypeOK, SidesTypeOK', SidesCalls, SidesCalls', SumsTypeOK, SumsTypeOK',
         IsFiniteSet(Consumer), Faults \cap {"db", "crash"} = {}, ConsumerStep, LedgerExact
  PROVE  LedgerExact'
  <1> SUFFICES ASSUME NEW k \in Keys
               PROVE  avail'[k] + R!Accounted({k}, R!OutTypes)' + S!UnpostedQty({k}, R!OutTypes)'
                        = R!OpeningQty(k) + R!Accounted({k}, R!AddTypes)'
    BY DEF LedgerExact, R!OpeningQty, R!OutTypes, R!AddTypes
  <1> DEFINE In == R!Moved({k}, R!AddTypes)
             Out == R!Moved({k}, R!OutTypes)
             Adding == R!UnpostedQty({k}, R!AddTypes)
             Taking == R!UnpostedQty({k}, R!OutTypes)
             Selling == S!UnpostedQty({k}, R!OutTypes)
  <1>1. PICK w \in Consumer : S!WorkerStep(w) /\ UNCHANGED ofRequests
    BY DEF ConsumerStep, S!Crash
  <1>2. S!TypeOK /\ S!TypeOK' /\ S!CallsSell /\ k \in S!Keys
    BY DEF SidesTypeOK, SidesCalls, Keys
  <1>3. /\ avail'[k] + S!Accounted({k}, R!OutTypes)' = avail[k] + S!Accounted({k}, R!OutTypes)
        /\ S!Accounted({k}, R!AddTypes)' = S!Accounted({k}, R!AddTypes)
    <2>1. /\ "RESERVATION_RELEASE" \notin R!OutTypes /\ "SALE_OUT" \in R!OutTypes
          /\ "RESERVATION_RELEASE" \notin R!AddTypes /\ "SALE_OUT" \notin R!AddTypes
      BY DEF R!OutTypes, R!AddTypes
    <2>2. CASE S!Deduct(w)
      <3>1. S!ChangeBalance(w)
        BY <2>2 DEF S!Deduct
      <3> QED
        BY <1>1, <1>2, <2>1, <3>1, S!DeductExact, SameFinite, SidesAssumption
    <2>3. CASE ~ S!Deduct(w)
      <3>1. ASSUME NEW types \in {R!AddTypes, R!OutTypes}
            PROVE  avail' = avail /\ S!Accounted({k}, types)' = S!Accounted({k}, types)
        BY <1>1, <1>2, <2>1, <2>3, S!SalesAccountsStay, SameFinite, SidesAssumption
      <3> QED
        BY <3>1
    <2> QED
      BY <2>2, <2>3
  <1>4. /\ S!Accounted({k}, R!OutTypes) = Out + Selling
        /\ S!Accounted({k}, R!OutTypes)' = Out' + Selling'
        /\ S!Accounted({k}, R!AddTypes) = In + 0
        /\ S!Accounted({k}, R!AddTypes)' = In' + 0
    BY SameLedger, SalesAddNothing DEF S!Accounted, SidesCalls
  <1>5. avail'[k] + (Out' + Selling') = avail[k] + (Out + Selling) /\ In' + 0 = In + 0
    BY <1>3, <1>4
  <1>6. Adding' = Adding /\ Taking' = Taking
    BY <1>1, UnpostedStays
  <1>7. avail[k] + (Out + Taking) + Selling = R!OpeningQty(k) + (In + Adding)
    BY DEF LedgerExact, R!Accounted
  <1>8. /\ In \in Nat /\ Out \in Nat /\ Adding \in Nat /\ Taking \in Nat /\ Selling \in Nat
        /\ In' \in Nat /\ Out' \in Nat /\ Selling' \in Nat
    BY DEF SumsTypeOK, R!AddTypes, R!OutTypes
  <1>9. avail[k] \in Nat /\ avail'[k] \in Nat /\ R!OpeningQty(k) \in Nat
    BY <1>2, SidesAssumption
       DEF S!TypeOK, S!RepoTypeOK, R!OpeningQty, R!RequestsAssumption
  <1>10. avail'[k] + (Out' + Taking') + Selling' = R!OpeningQty(k) + (In' + Adding')
    <2> HIDE DEF In, Out, Adding, Taking, Selling
    <2> QED
      BY <1>6, <1>7, <1>8, <1>9, <1>5
  <1> QED
    BY <1>10 DEF R!Accounted

\* So does a request.
LEMMA RequesterLedger ==
  ASSUME SidesTypeOK, SidesTypeOK', SidesCalls, SidesCalls', SumsTypeOK, SumsTypeOK',
         IsFiniteSet(Requester), \A w \in Requester : ~ R!Op(w, "set"),
         Faults \cap {"db", "crash"} = {}, RequesterStep, LedgerExact
  PROVE  LedgerExact'
  <1> SUFFICES ASSUME NEW k \in Keys
               PROVE  avail'[k] + R!Accounted({k}, R!OutTypes)' + S!UnpostedQty({k}, R!OutTypes)'
                        = R!OpeningQty(k) + R!Accounted({k}, R!AddTypes)'
    BY DEF LedgerExact, R!OpeningQty, R!OutTypes, R!AddTypes
  <1> DEFINE Out == R!Accounted({k}, R!OutTypes)
             Add == R!Accounted({k}, R!AddTypes)
             Selling == S!UnpostedQty({k}, R!OutTypes)
  <1>1. PICK w \in Requester : (R!Submit(w) \/ R!HandlerStep(w)) /\ UNCHANGED ofSales
    BY DEF RequesterStep, R!Crash
  <1>2. R!TypeOK /\ R!TypeOK' /\ R!CallsInv /\ k \in R!Keys
    BY DEF SidesTypeOK, SidesCalls, Keys, S!Keys, R!Keys
  <1>3. avail'[k] + Out' + Add = avail[k] + Out + Add'
    <2>1. CASE R!ChangeBalance(w)
      BY <1>1, <1>2, <2>1, R!ChangeExact, SameFinite, SidesAssumption
    <2>2. CASE ~ R!ChangeBalance(w)
      <3>1. ~ R!SetBalance(w)
        BY <1>2 DEF R!SetBalance, R!TypeOK, R!HandlersTypeOK, R!At
      <3>2. ASSUME NEW types
            PROVE  avail' = avail /\ R!Accounted({k}, types)' = R!Accounted({k}, types)
        BY <1>1, <1>2, <2>2, <3>1, R!AccountsStay, SameFinite, SidesAssumption
      <3> QED
        BY <3>2
    <2> QED
      BY <2>1, <2>2
  <1>4. Selling' = Selling
    BY <1>1, UnpostedStays
  <1>5. avail[k] + Out + Selling = R!OpeningQty(k) + Add
    BY DEF LedgerExact
  <1>6. /\ Out \in Nat /\ Add \in Nat /\ Selling \in Nat /\ Out' \in Nat /\ Add' \in Nat
    <2>1. \A a, b \in Nat : a + b \in Nat
      OBVIOUS
    <2> QED
      BY <2>1 DEF SumsTypeOK, R!Accounted, R!AddTypes, R!OutTypes
  <1>7. avail[k] \in Nat /\ avail'[k] \in Nat /\ R!OpeningQty(k) \in Nat
    BY <1>2, SidesAssumption
       DEF R!TypeOK, R!RepoTypeOK, R!OpeningQty, R!RequestsAssumption
  <1>8. avail'[k] + Out' + Selling' = R!OpeningQty(k) + Add'
    <2> HIDE DEF Out, Add, Selling
    <2> QED
      BY <1>3, <1>4, <1>5, <1>6, <1>7
  <1> QED
    BY <1>8

\* Every balance is what was there and what the movements of sales and requests
\* add up to (service.go:371-455, 476-506), for any number of consumers and
\* requests, any messages and any requests but balances set by hand, while no
\* statement fails and no process dies, even if locks expire early: neither side
\* undoes or counts twice what the other did.
THEOREM StockLedger ==
  ASSUME IsFiniteSet(Consumer), IsFiniteSet(Requester),
         Faults \cap {"db", "crash"} = {}, \A w \in Requester : ~ R!Op(w, "set")
  PROVE  Spec => []LedgerExact
  <1>1. Init => SidesCalls
    BY S!InitSells, R!InitCalls, SidesAssumption DEF Init, SidesCalls
  <1>2. Init => LedgerExact
    <2> SUFFICES ASSUME Init, NEW k \in Keys
                 PROVE  avail[k] + R!Accounted({k}, R!OutTypes) + S!UnpostedQty({k}, R!OutTypes)
                          = R!OpeningQty(k) + R!Accounted({k}, R!AddTypes)
      BY DEF LedgerExact
    <2>1. \A types : /\ R!Entries({k}, types) = {} /\ R!Unposted({k}, types) = {}
                     /\ S!Unposted({k}, types) = {}
      BY DEF Init, S!Init, R!Init, S!SectionInit, R!SectionInit, R!Entries, R!Unposted,
             S!Unposted
    <2>2. R!Accounted({k}, R!OutTypes) = 0 /\ R!Accounted({k}, R!AddTypes) = 0
      BY <2>1, R!NothingAccounted, SidesAssumption
    <2>3. S!UnpostedQty({k}, R!OutTypes) = 0
      BY <2>1, S!SumEmpty, SidesAssumption DEF S!UnpostedQty
    <2>4. avail[k] = R!OpeningQty(k) /\ avail[k] \in Nat
      BY SidesAssumption
         DEF Init, R!Init, R!OpeningQty, R!RequestsAssumption, Keys, S!Keys, R!Keys
    <2> QED
      BY <2>2, <2>3, <2>4
  <1>3. SidesTypeOK /\ SidesTypeOK' /\ SidesCalls /\ SidesCalls' /\ SumsTypeOK /\ SumsTypeOK'
          /\ LedgerExact /\ [Next]_vars => LedgerExact'
    <2> SUFFICES ASSUME SidesTypeOK, SidesTypeOK', SidesCalls, SidesCalls', SumsTypeOK,
                        SumsTypeOK', LedgerExact, [Next]_vars
                 PROVE  LedgerExact'
      OBVIOUS
    <2>1. CASE UNCHANGED vars \/ LockStep
      <3>1. /\ avail' = avail /\ movements' = movements
            /\ UNCHANGED ofSales /\ UNCHANGED ofRequests
        BY <2>1, StepsOfSides DEF vars, shared
      <3>2. \A K, types : R!Accounted(K, types)' = R!Accounted(K, types)
        BY <3>1, UnpostedStays DEF R!Accounted, R!Moved, R!Entries
      <3> QED
        BY <3>1, <3>2, UnpostedStays DEF LedgerExact, R!OpeningQty, R!OutTypes, R!AddTypes
    <2>2. CASE ConsumerStep
      BY <2>2, ConsumerLedger
    <2>3. CASE RequesterStep
      BY <2>3, RequesterLedger
    <2> QED
      BY <2>1, <2>2, <2>3, StepsOfSides
  <1> QED
    BY <1>1, <1>2, <1>3, SumsType, SidesCallsStep, StockTypeCorrect, PTL DEF Spec

(***************************************************************************)
(* One cache                                                               *)
(***************************************************************************)

\* The inductive form: each side keeps its locks and what it has read, and the
\* cache is behind only while a worker of either side has still to write it.
SidesCacheInv ==
  /\ S!CacheInv /\ R!CacheInv
  /\ \A k \in Keys : S!Behind(k) \/ R!Behind(k) \/ S!Shows(k)

\* Both sides speak of the same cache.
LEMMA SameCache ==
  /\ \A k : S!Shows(k) <=> R!Shows(k)
  /\ \A k : S!Shows(k)' <=> R!Shows(k)'
  /\ \A w : S!Polite(w) <=> R!Polite(w)
  /\ Keys = R!Keys /\ Keys = S!Keys
  BY DEF S!Shows, R!Shows, S!Polite, R!Polite, Keys, S!Keys, R!Keys, S!StockLock, R!StockLock

\* A step of either side keeps it.
LEMMA SidesCacheStep ==
  ASSUME Faults = {}, \A w \in Requester : ~ R!Op(w, "set"), SidesTypeOK, SidesCacheInv,
         [Next]_vars
  PROVE  SidesCacheInv'
  <1>1. /\ "db" \notin Faults /\ S!SectionTypeOK(S!CallTag) /\ R!SectionTypeOK({NoTag})
        /\ S!TypeOK /\ R!TypeOK
    BY DEF SidesTypeOK, S!TypeOK, R!TypeOK
  <1>2. CASE UNCHANGED vars
    <2>1. UNCHANGED shared /\ UNCHANGED ofSales /\ UNCHANGED ofRequests
      BY <1>2 DEF vars
    <2> QED
      BY <2>1
         DEF shared, ofSales, ofRequests, SidesCacheInv, S!CacheInv, R!CacheInv, S!Holds,
             R!Holds, S!Inside, R!Inside, S!StockLock, R!StockLock, S!Behind, R!Behind, S!Shows
  <1>3. CASE ConsumerStep
    <2>1. PICK w \in Consumer : S!WorkerStep(w) /\ UNCHANGED ofRequests
      BY <1>3 DEF ConsumerStep, S!Crash
    <2>2. /\ S!CacheInv' /\ S!Polite(w)
          /\ \A k \in S!Keys : S!Behind(k) \/ S!Shows(k) => S!Behind(k)' \/ S!Shows(k)'
      BY <1>1, <2>1, S!SalesCaches, SidesAssumption DEF SidesCacheInv
    <2>3. R!CacheInv' /\ \A k : R!Behind(k)' <=> R!Behind(k)
      <3>1. w \notin Requester /\ R!Polite(w)
        BY <2>2, SameCache, WorkersAssumption
      <3>2. UNCHANGED <<rStage, rCall, rSeen>>
        BY <2>1 DEF ofRequests
      <3> QED
        BY <1>1, <3>1, <3>2, R!StrangerPolite, SidesAssumption DEF SidesCacheInv
    <2> QED
      BY <2>2, <2>3, SameCache DEF SidesCacheInv
  <1>4. CASE RequesterStep
    <2>1. PICK w \in Requester : (R!Submit(w) \/ R!HandlerStep(w)) /\ UNCHANGED ofSales
      BY <1>4 DEF RequesterStep, R!Crash
    <2>2. /\ R!CacheInv' /\ R!Polite(w)
          /\ \A k \in R!Keys : R!Behind(k) \/ R!Shows(k) => R!Behind(k)' \/ R!Shows(k)'
      BY <1>1, <2>1, R!RequestCaches, SidesAssumption DEF SidesCacheInv
    <2>3. S!CacheInv' /\ \A k : S!Behind(k)' <=> S!Behind(k)
      <3>1. w \notin Consumer /\ S!Polite(w)
        BY <2>2, SameCache, WorkersAssumption
      <3>2. UNCHANGED <<sStage, sCall, sSeen>>
        BY <2>1 DEF ofSales
      <3> QED
        BY <1>1, <3>1, <3>2, S!StrangerPolite, SidesAssumption DEF SidesCacheInv
    <2> QED
      BY <2>2, <2>3, SameCache DEF SidesCacheInv
  <1>5. CASE LockStep
    <2>1. PICK n \in S!LockName : TtlRunsOut(n) /\ ~ InUse(n)
      BY <1>5 DEF LockStep, TtlRunsOut
    <2>2. /\ UNCHANGED <<rows, avail, reserved, rsv, movements, cache>>
          /\ UNCHANGED ofSales /\ UNCHANGED ofRequests
      BY <2>1 DEF TtlRunsOut
    <2>3. \A m : m # n => lock'[m] = lock[m]
      BY <1>1, <2>1 DEF TtlRunsOut, S!Expire, S!SectionTypeOK, S!LockTypeOK
    <2>4. S!Holds'
      <3>1. ASSUME NEW w \in Consumer, S!Inside(w) PROVE S!StockLock(sCall[w].key) # n
        BY <2>1, <3>1 DEF SidesCacheInv, S!CacheInv, S!Holds, InUse, S!Uses
      <3> QED
        BY <2>2, <2>3, <3>1 DEF SidesCacheInv, S!CacheInv, S!Holds, S!Inside, S!StockLock, ofSales
    <2>5. R!Holds'
      <3>1. ASSUME NEW w \in Requester, R!Inside(w) PROVE R!StockLock(rCall[w].key) # n
        BY <2>1, <3>1 DEF SidesCacheInv, R!CacheInv, R!Holds, InUse
      <3> QED
        BY <2>2, <2>3, <3>1
           DEF SidesCacheInv, R!CacheInv, R!Holds, R!Inside, R!StockLock, ofRequests
    <2> QED
      BY <2>2, <2>4, <2>5
         DEF ofSales, ofRequests, SidesCacheInv, S!CacheInv, R!CacheInv, S!Inside, R!Inside,
             S!Behind, R!Behind, S!Shows
  <1> QED
    BY <1>2, <1>3, <1>4, <1>5, StepsOfSides

\* Between sections the cached quantity is that of the table, whoever wrote
\* last (service.go:371-455, 476-506), for any number of consumers and requests,
\* any messages and any requests but balances set by hand, while no statement
\* fails, no process dies and no lock expires early: the name of the lock keeps
\* the two sides apart.
THEOREM StockCache ==
  ASSUME Faults = {}, \A w \in Requester : ~ R!Op(w, "set")
  PROVE  Spec => []CacheShowsStock
  <1>1. Init => SidesCacheInv
    BY SameCache
       DEF Init, S!Init, R!Init, S!SectionInit, R!SectionInit, SidesCacheInv, S!CacheInv,
           R!CacheInv, S!Holds, R!Holds, S!Inside, R!Inside, S!Shows
  <1>2. SidesTypeOK /\ SidesCacheInv /\ [Next]_vars => SidesCacheInv'
    BY SidesCacheStep
  <1>3. SidesCacheInv => CacheShowsStock
    BY DEF SidesCacheInv, CacheShowsStock, Inside, S!Behind, R!Behind, S!Inside, R!Inside,
           S!Shows
  <1> QED
    BY <1>1, <1>2, <1>3, StockTypeCorrect, PTL DEF Spec

(***************************************************************************)
(* What open reservations hold                                             *)
(***************************************************************************)

\* The inductive form: the stored column of every row that was there at first
\* is the live sum or about to be written with it, until a reservation changes
\* under a recalculation.
ColumnHolds ==
  /\ S!RemovesOnly
  /\ ~ overtaken => S!ColumnInv(DOMAIN Opening)

\* A step of either side keeps it.
LEMMA ColumnHoldsStep ==
  ASSUME Faults \cap {"db", "crash"} = {}, \A w \in Requester : ~ R!Op(w, "set"), SidesTypeOK,
         SidesCalls, ColumnHolds, [Next]_vars
  PROVE  ColumnHolds'
  <1>1. /\ "db" \notin Faults /\ S!TypeOK /\ R!TypeOK /\ S!CallsSell /\ R!CallsInv
        /\ DOMAIN Opening \subseteq S!Keys
    BY SidesAssumption DEF SidesTypeOK, SidesCalls, R!RequestsAssumption, S!Keys, R!Keys
  <1>2. ASSUME UNCHANGED ofSales, UNCHANGED <<rsv, reserved>>, rows \subseteq rows',
               ~ overtaken' => ~ overtaken,
               \A i \in DOMAIN movements' :
                 \/ i \in DOMAIN movements /\ movements'[i] = movements[i]
                 \/ movements'[i].type # "RESERVATION_ADD"
        PROVE  ColumnHolds'
    <2>1. S!RemovesOnly'
      BY <1>2 DEF ColumnHolds, S!RemovesOnly, S!PlainCall, ofSales
    <2>2. ASSUME S!ColumnInv(DOMAIN Opening) PROVE S!ColumnInv(DOMAIN Opening)'
      <3>1. \A k : S!OpenQty(k)' = S!OpenQty(k)
        BY <1>2, S!OpenQtyStays, SidesAssumption
      <3>2. \A k : S!OpenQty(k)' = S!OpenQty(k)
               /\ \A w \in Consumer : S!Summing(w, k)' <=> S!Summing(w, k)
        BY <1>2, <3>1 DEF S!Summing, ofSales
      <3>3. S!SnapshotsHold'
        BY <1>2, <2>2, <3>1 DEF S!ColumnInv, S!SnapshotsHold, ofSales
      <3> QED
        BY <1>2, <2>2, <3>2, <3>3 DEF S!ColumnInv, ofSales
    <2> QED
      BY <1>2, <2>1, <2>2 DEF ColumnHolds
  <1>3. CASE UNCHANGED vars \/ (LockStep /\ Next)
    <2>1. /\ UNCHANGED <<rows, reserved, rsv, movements>> /\ UNCHANGED ofSales
          /\ ~ overtaken' => ~ overtaken
      <3>1. CASE UNCHANGED vars
        BY <3>1 DEF vars, shared
      <3>2. CASE LockStep /\ Next
        BY <3>2, StepsOfSides DEF Next
      <3> QED
        BY <1>3, <3>1, <3>2
    <2> QED
      BY <1>2, <2>1
  <1>4. CASE RequesterStep /\ Next
    <2>1. PICK w \in Requester : (R!Submit(w) \/ R!HandlerStep(w)) /\ UNCHANGED ofSales
      BY <1>4 DEF RequesterStep, R!Crash
    <2>2. /\ UNCHANGED <<rsv, reserved>> /\ rows \subseteq rows'
          /\ \A i \in DOMAIN movements' :
               \/ i \in DOMAIN movements /\ movements'[i] = movements[i]
               \/ movements'[i].type # "RESERVATION_ADD"
      BY <1>1, <2>1, R!RequestRemovesFree, SidesAssumption
    <2>3. ~ overtaken' => ~ overtaken
      BY <1>4 DEF Next
    <2> QED
      BY <1>2, <2>1, <2>2, <2>3
  <1>5. CASE ConsumerStep /\ Next
    <2>1. PICK w \in Consumer : S!WorkerStep(w)
      BY <1>5 DEF ConsumerStep, S!Crash
    <2>2. S!RemovesOnly'
      BY <1>1, <2>1, S!RemovesOnlyStep, SidesAssumption DEF ColumnHolds
    <2>3. ASSUME ~ overtaken' PROVE S!ColumnInv(DOMAIN Opening)'
      <3>1. ~ overtaken /\ (Summing = {} \/ rsv' = rsv)
        BY <1>5, <2>3 DEF Next
      <3>2. rsv' = rsv \/ \A v \in Consumer : sPc[v] # "write"
        BY <3>1 DEF Summing
      <3> QED
        BY <1>1, <2>1, <3>1, <3>2, S!ColumnStep, SidesAssumption DEF ColumnHolds
    <2> QED
      BY <2>2, <2>3 DEF ColumnHolds
  <1> QED
    BY <1>3, <1>4, <1>5, StepsOfSides

\* A step that lowers a balance leaves what the column says.
LEMMA TakesFree ==
  ASSUME Faults \cap {"db", "crash"} = {}, \A w \in Requester : ~ R!Op(w, "set"), SidesTypeOK,
         SidesCalls, ColumnHolds, [Next]_vars, NEW k \in DOMAIN Opening, avail'[k] < avail[k]
  PROVE  avail'[k] >= reserved[k]
  <1>1. /\ S!TypeOK /\ R!TypeOK /\ R!CallsInv /\ S!RemovesOnly
        /\ k \in S!Keys /\ k \in R!Keys /\ avail \in [S!Keys -> Nat]
    BY SidesAssumption
       DEF SidesTypeOK, SidesCalls, ColumnHolds, R!RequestsAssumption, S!Keys, R!Keys,
           S!TypeOK, S!RepoTypeOK
  <1>2. CASE UNCHANGED vars \/ LockStep
    <2>1. avail' = avail
      BY <1>2, StepsOfSides DEF vars, shared
    <2> QED
      BY <1>1, <2>1
  <1>3. CASE ConsumerStep
    BY <1>1, <1>3, S!SalesRemoveFree, SidesAssumption DEF ConsumerStep, S!Crash
  <1>4. CASE RequesterStep
    BY <1>1, <1>4, R!RequestRemovesFree, SidesAssumption DEF RequesterStep, R!Crash
  <1> QED
    BY <1>2, <1>3, <1>4, StepsOfSides

\* Nothing takes from a balance what open reservations hold of it: neither an
\* exit, nor a transfer, nor the sale of another order (stock_repo.go:326-339),
\* for any number of consumers and requests, any messages and any requests but
\* balances set by hand, while no statement fails and no process dies, even if
\* locks expire early.
THEOREM StockHoldsReservations ==
  ASSUME Faults \cap {"db", "crash"} = {}, \A w \in Requester : ~ R!Op(w, "set")
  PROVE  Spec => OpenReservationsHold
  <1>1. Init => SidesCalls
    BY S!InitSells, R!InitCalls, SidesAssumption DEF Init, SidesCalls
  <1>2. Init => ColumnHolds
    <2>1. Init => Backlog = <<>>
      BY DEF Init, S!Init, R!Init
    <2> QED
      BY <2>1, S!InitColumn, SidesAssumption DEF Init, ColumnHolds
  <1>3. SidesTypeOK /\ SidesCalls /\ ColumnHolds /\ [Next]_vars => ColumnHolds'
    BY ColumnHoldsStep
  <1>4. SidesTypeOK /\ SidesCalls /\ ColumnHolds /\ [Next]_vars =>
          [\A k \in DOMAIN Opening :
             /\ avail'[k] < avail[k] /\ ~overtaken
             /\ \A w \in Consumer : sPc[w] \notin {"recalc", "write"}
             => avail'[k] >= S!OpenQty(k)]_vars
    <2> SUFFICES ASSUME SidesTypeOK, SidesCalls, ColumnHolds, [Next]_vars,
                        NEW k \in DOMAIN Opening, avail'[k] < avail[k], ~overtaken,
                        \A w \in Consumer : sPc[w] \notin {"recalc", "write"}
                 PROVE  avail'[k] >= S!OpenQty(k)
      OBVIOUS
    <2>1. reserved[k] = S!OpenQty(k)
      BY DEF ColumnHolds, S!ColumnInv, S!Summing
    <2>2. avail'[k] >= reserved[k]
      BY TakesFree
    <2> QED
      BY <2>1, <2>2
  <1> QED
    BY <1>1, <1>2, <1>3, <1>4, SidesCallsStep, StockTypeCorrect, PTL
       DEF Spec, OpenReservationsHold

(***************************************************************************)
(* What is promised of reservations, with requests about                   *)
(***************************************************************************)

\* What the consumers keep about their messages and reservations.
SidesPromises ==
  /\ S!HandlerInv /\ S!TicketInv /\ S!LossInv /\ S!BookInv /\ S!AnnouncedInv

\* A request never writes a reservation, not even one that sets a balance or
\* deletes a product.
LEMMA RequestsReserveNothing == RequesterStep => rsv' = rsv
  <1> SUFFICES ASSUME NEW w \in Requester, R!Submit(w) \/ R!HandlerStep(w) \/ R!Crash(w)
               PROVE  rsv' = rsv
    BY DEF RequesterStep
  <1>1. R!SectionStep(w) => rsv' = rsv
    BY R!SectionReservesNothing, SidesAssumption
  <1>2. R!ChangeBalance(w) => rsv' = rsv
    BY DEF R!ChangeBalance, R!AddAvailable, R!RemoveAvailable, R!ConfirmSale
  <1>3. R!SetBalance(w) => rsv' = rsv
    BY DEF R!SetBalance, R!UpsertBalance
  <1> QED
    BY <1>1, <1>2, <1>3
       DEF R!Submit, R!HandlerStep, R!Refuse, R!SkipReceived, R!Accept, R!NextCall,
           R!NotConverted, R!SkipLine, R!LoopDone, R!InSection, R!SectionOk, R!SectionErr,
           R!Undo, R!UndoDone, R!CacheSet, R!CheckUse, R!Delete, R!StatementFails, R!Crash,
           R!repoVars

\* So the promises outlive its steps, and those of the consumers.
LEMMA SidesPromisesStep ==
  SidesTypeOK /\ SidesPromises /\ [Next]_vars => SidesPromises'
  <1> SUFFICES ASSUME SidesTypeOK, SidesPromises, [Next]_vars PROVE SidesPromises'
    OBVIOUS
  <1>1. S!TypeOK /\ R!TypeOK
    BY DEF SidesTypeOK
  <1>2. ASSUME UNCHANGED ofSales, rsv' = rsv PROVE SidesPromises'
    <2>1. S!HandlerInv'
      BY <1>2 DEF SidesPromises, S!HandlerInv, S!Busy, ofSales
    <2>2. S!TicketInv'
      <3>1. S!OnlyDrops
        BY <1>2 DEF S!OnlyDrops, S!CallTickets, ofSales
      <3> QED
        BY <3>1, S!TicketsDropped, SidesAssumption DEF SidesPromises
    <2>3. S!LossInv'
      <3>1. UNCHANGED <<rsv, gen, taken, S!brokerVars, S!handlerVars, sStage, sCall>>
        BY <1>2 DEF ofSales, S!brokerVars, S!handlerVars
      <3> QED
        BY <3>1, S!LossIdle, SidesAssumption DEF SidesPromises
    <2>4. S!BookInv'
      BY <1>2 DEF SidesPromises, S!BookInv, S!BookedInv, S!RowsWithin, S!RowsBooked,
                  S!HasBooked, ofSales
    <2>5. S!AnnouncedInv'
      BY <1>2 DEF SidesPromises, S!AnnouncedInv, S!AckedIsAnnounced, S!Reserving, ofSales
    <2> QED
      BY <2>1, <2>2, <2>3, <2>4, <2>5 DEF SidesPromises
  <1>3. CASE UNCHANGED vars \/ LockStep
    BY <1>2, <1>3, StepsOfSides DEF vars, shared
  <1>4. CASE RequesterStep
    BY <1>2, <1>4, RequestsReserveNothing, StepsOfSides
  <1>5. CASE ConsumerStep
    <2>1. PICK w \in Consumer : S!WorkerStep(w) \/ S!Crash(w)
      BY <1>5 DEF ConsumerStep
    <2>2. S!Next
      BY <1>5, StepsOfSides
    <2>3. S!HandlerInv'
      BY <1>1, <2>2, S!HandlerStep, SidesAssumption DEF SidesPromises
    <2>4. S!TicketInv'
      BY <1>1, <2>2, S!TicketStep, SidesAssumption DEF SidesPromises
    <2>5. S!LossInv'
      BY <1>1, <2>1, S!LossStep, SidesAssumption DEF SidesPromises
    <2>6. S!BookInv'
      BY <1>1, <2>2, S!BookStep, SidesAssumption DEF SidesPromises
    <2>7. S!AnnouncedInv'
      BY <1>1, <2>2, S!AnnouncedStep, SidesAssumption DEF SidesPromises
    <2> QED
      BY <2>3, <2>4, <2>5, <2>6, <2>7 DEF SidesPromises
  <1> QED
    BY <1>3, <1>4, <1>5, StepsOfSides

\* What the consumers promise of reservations they keep with any requests
\* working on the same tables, balances set by hand and deleted products
\* included, and whatever fails, dies or expires: a confirmed reservation is sold
\* at most once, one that is neither sold nor still to be sold was left behind by
\* a delivery that failed or has no warehouse, and an acknowledged event with
\* items was announced (service.go:203-223, 353-361, 389-421).
THEOREM StockKeepsPromises == Spec => []PromisesKept /\ ReservationSoldOnce
  <1>1. Init => SidesPromises
    BY S!InitHandlerInv, S!InitTickets, S!InitLoss, S!InitBook, S!InitAnnounced,
       SidesAssumption
       DEF Init, SidesPromises
  <1>2. SidesPromises => PromisesKept
    BY DEF SidesPromises, S!LossInv, S!AnnouncedInv, PromisesKept
  <1>3. SidesTypeOK /\ SidesPromises =>
          [\A w \in Consumer :
             sStage[w] = "change" /\ sStage'[w] = "post" => sCall[w].tag \notin taken]_(S!vars)
    BY S!CallTicketUnused, SidesAssumption DEF SidesTypeOK, SidesPromises
  <1> QED
    BY <1>1, <1>2, <1>3, SidesPromisesStep, StockTypeCorrect, PTL
       DEF Spec, ReservationSoldOnce, S!SoldAtMostOnce

\* They reserve what will be consumed, with any requests about and whatever
\* fails, dies or expires: the events as in ReservedIsConsumed (stock.go:229-260,
\* stock_repo.go:140-185).
THEOREM StockReservesWhatIsConsumed ==
  ASSUME S!ListsOfLines, \A m \in OrderMsg : S!EachProductOnce(S!Lines(m))
  PROVE  Spec => []S!ReservesWhatIsConsumed
  <1>1. Init => SidesPromises
    BY S!InitHandlerInv, S!InitTickets, S!InitLoss, S!InitBook, S!InitAnnounced,
       SidesAssumption
       DEF Init, SidesPromises
  <1>2. SidesPromises => S!ReservesWhatIsConsumed
    BY S!BookedIsConsumed, SidesAssumption DEF SidesPromises
  <1> QED
    BY <1>1, <1>2, SidesPromisesStep, StockTypeCorrect, PTL DEF Spec
=============================================================================
