---------------------------- MODULE CategoryProofs ----------------------------
(***************************************************************************)
(* The category tree stays one while requests are served one after         *)
(* another: for any categories, products and requests of one worker.       *)
(***************************************************************************)
EXTENDS Categories, SumProofs

(***************************************************************************)
(* The walk of CategoryParentWouldCycle                                    *)
(***************************************************************************)
Last == Cardinality(Category) + 1
Higher(t, x) == IF x \in DOMAIN t THEN t[x] ELSE Root
Walks(t, p, m, g) == g = [n \in 0 .. m |-> IF n = 0 THEN p ELSE Higher(t, g[n - 1])]

\* The bound of the walk is a number.
LEMMA LastType == Last \in Nat /\ Last > 0 /\ Last - 1 = Cardinality(Category)
  BY CategoriesAssumption, FS_CardinalityType DEF Last

\* A walk of any length exists.
LEMMA WalkExists ==
  ASSUME NEW t, NEW p, NEW m \in Nat
  PROVE  \E g : Walks(t, p, m, g)
  <1> DEFINE T == {k \in Nat : \E g : Walks(t, p, k, g)}
  <1>1. 0 \in T
    <2> DEFINE g == [n \in 0 .. 0 |-> p]
    <2>1. Walks(t, p, 0, g)
      BY DEF Walks
    <2> QED
      BY <2>1
  <1>2. ASSUME NEW k \in Nat, k \in T PROVE k + 1 \in T
    <2>1. PICK g : Walks(t, p, k, g)
      BY <1>2
    <2> DEFINE h == [n \in 0 .. k + 1 |-> IF n <= k THEN g[n] ELSE Higher(t, g[k])]
    <2>2. /\ \A n \in 0 .. k : g[n] = IF n = 0 THEN p ELSE Higher(t, g[n - 1])
      BY <2>1 DEF Walks
    <2>3. /\ \A n \in 0 .. k : h[n] = g[n]
          /\ h[k + 1] = Higher(t, g[k])
          /\ DOMAIN h = 0 .. k + 1
      OBVIOUS
    <2>4. \A n \in 0 .. k + 1 : h[n] = IF n = 0 THEN p ELSE Higher(t, h[n - 1])
      <3> TAKE n \in 0 .. k + 1
      <3>1. CASE n \in 0 .. k
        <4>1. n # 0 => n - 1 \in 0 .. k
          BY <3>1
        <4> HIDE DEF h
        <4> QED
          BY <2>2, <2>3, <3>1, <4>1
      <3>2. CASE n = k + 1
        <4>1. n # 0 /\ n - 1 = k /\ k \in 0 .. k
          BY <3>2
        <4> HIDE DEF h
        <4> QED
          BY <2>3, <3>2, <4>1
      <3> QED
        BY <3>1, <3>2
    <2>5. h = [n \in 0 .. k + 1 |-> IF n = 0 THEN p ELSE Higher(t, h[n - 1])]
      <3> DEFINE f == [n \in 0 .. k + 1 |-> IF n = 0 THEN p ELSE Higher(t, h[n - 1])]
      <3>1. \A n \in 0 .. k + 1 : f[n] = h[n]
        BY <2>4
      <3> QED
        BY <3>1
    <2>6. Walks(t, p, k + 1, h)
      BY <2>5 DEF Walks
    <2> QED
      BY <2>6
  <1> HIDE DEF T
  <1>3. m \in T
    BY <1>1, <1>2, NatInduct
  <1> QED
    BY <1>3 DEF T

\* What Above is: it starts at p, goes to the parent, and has the length of
\* the bound.
LEMMA WalkUp ==
  ASSUME NEW t, NEW p
  PROVE  LET walk == Above(t, p)
         IN  /\ DOMAIN walk = 0 .. Last /\ walk[0] = p
             /\ \A n \in 1 .. Last :
                  walk[n] = IF walk[n - 1] \in DOMAIN t THEN t[walk[n - 1]] ELSE Root
  <1>1. \E g : Walks(t, p, Last, g)
    BY WalkExists, LastType
  <1>2. Above(t, p) = CHOOSE g : Walks(t, p, Last, g)
    BY DEF Above, Walks, Last, Higher
  <1>3. Walks(t, p, Last, Above(t, p))
    BY <1>1, <1>2
  <1> DEFINE walk == Above(t, p)
  <1>4. walk = [n \in 0 .. Last |-> IF n = 0 THEN p ELSE Higher(t, walk[n - 1])]
    BY <1>3 DEF Walks
  <1> HIDE DEF walk
  <1>5. DOMAIN walk = 0 .. Last /\ \A n \in 0 .. Last :
           walk[n] = IF n = 0 THEN p ELSE Higher(t, walk[n - 1])
    BY <1>4
  <1>6. 0 \in 0 .. Last /\ \A n \in 1 .. Last : n \in 0 .. Last /\ n # 0
    BY LastType
  <1> QED
    BY <1>5, <1>6 DEF walk, Higher

(***************************************************************************)
(* Categories that are not shown                                           *)
(***************************************************************************)

\* Categories whose parents are among them: none of them hangs on a root.
Trapped(t, S) == S # {} /\ S \subseteq DOMAIN t /\ \A c \in S : t[c] \in S
Free(t) == \A S : ~ Trapped(t, S)

\* A walk that does not come to the root turns in a circle.
LEMMA CircleFound ==
  ASSUME NEW t, DOMAIN t \subseteq Category, NEW p, ~ EndsAtRoot(t, p)
  PROVE  ~ Free(t)
  <1> DEFINE walk == Above(t, p)
             Size == Cardinality(Category)
  <1>1. /\ DOMAIN walk = 0 .. Last
        /\ \A n \in 1 .. Last :
             walk[n] = IF walk[n - 1] \in DOMAIN t THEN t[walk[n - 1]] ELSE Root
    BY WalkUp
  <1>2. \A n \in 0 .. Last : walk[n] # Root
    BY <1>1 DEF EndsAtRoot, Met
  <1> HIDE DEF walk
  <1>3. \A n \in 0 .. Size : /\ n \in 0 .. Last /\ n + 1 \in 1 .. Last
                             /\ walk[n] \in DOMAIN t /\ walk[n + 1] = t[walk[n]]
    <2> TAKE n \in 0 .. Size
    <2>1. n \in 0 .. Last /\ n + 1 \in 1 .. Last /\ n + 1 \in 0 .. Last /\ (n + 1) - 1 = n
      BY LastType
    <2> QED
      BY <1>1, <1>2, <2>1
  <1>4. PICK i \in 0 .. Size, j \in 0 .. Size : i # j /\ walk[i] = walk[j]
    <2> DEFINE f == [n \in 0 .. Size |-> walk[n]]
    <2>1. f \in [0 .. Size -> Category]
      BY <1>3
    <2>2. IsFiniteSet(0 .. Size) /\ Cardinality(0 .. Size) = Size + 1
      <3>1. Size \in Nat /\ 0 \in Int
        BY LastType, CategoriesAssumption, FS_CardinalityType
      <3> HIDE DEF Size
      <3>2. Size - 0 + 1 = Size + 1 /\ ~ (0 > Size)
        BY <3>1
      <3> QED
        BY <3>1, <3>2, FS_Interval
    <2>3. IsFiniteSet(Category) /\ Size \in Nat
      BY CategoriesAssumption, FS_CardinalityType
    <2> HIDE DEF f
    <2>4. \E x, y \in 0 .. Size : x # y /\ f[x] = f[y]
      BY <2>1, <2>2, <2>3, FS_PigeonHole
    <2> QED
      BY <2>4 DEF f
  <1>5. PICK a \in 0 .. Size, b \in 0 .. Size : a < b /\ walk[a] = walk[b]
    BY <1>4
  <1> DEFINE S == {walk[n] : n \in a .. b - 1}
  <1>6. \A n \in a .. b - 1 : n \in 0 .. Size /\ (n + 1 = b \/ n + 1 \in a .. b - 1)
    BY LastType
  <1>7. a \in a .. b - 1
    BY <1>5, LastType
  <1>8. \A c \in S : t[c] \in S
    <2> TAKE c \in S
    <2>1. PICK n \in a .. b - 1 : c = walk[n]
      OBVIOUS
    <2>2. t[c] = walk[n + 1]
      BY <1>3, <1>6, <2>1
    <2> QED
      BY <1>5, <1>6, <1>7, <2>1, <2>2
  <1>9. S \subseteq DOMAIN t /\ S # {}
    BY <1>3, <1>6, <1>7
  <1> QED
    BY <1>8, <1>9 DEF Free, Trapped

\* A walk that starts among categories whose parents are among them, as far as
\* it meets them, does not come to the root.
LEMMA NoWayOut ==
  ASSUME NEW t, NEW S, Root \notin S, NEW p \in S,
         \A c \in S \cap Met(t, p) : c \in DOMAIN t /\ t[c] \in S
  PROVE  ~ EndsAtRoot(t, p)
  <1> DEFINE walk == Above(t, p)
             T == {n \in Nat : n <= Last => walk[n] \in S}
  <1>1. /\ DOMAIN walk = 0 .. Last /\ walk[0] = p
        /\ \A n \in 1 .. Last :
             walk[n] = IF walk[n - 1] \in DOMAIN t THEN t[walk[n - 1]] ELSE Root
    BY WalkUp
  <1>2. \A n \in 0 .. Last : walk[n] \in Met(t, p)
    BY <1>1 DEF Met
  <1> HIDE DEF walk
  <1>3. 0 \in T
    BY <1>1
  <1>4. ASSUME NEW n \in Nat, n \in T PROVE n + 1 \in T
    <2> SUFFICES ASSUME n + 1 <= Last PROVE walk[n + 1] \in S
      OBVIOUS
    <2>1. n <= Last /\ n \in 0 .. Last /\ n + 1 \in 1 .. Last /\ (n + 1) - 1 = n
      BY LastType
    <2>2. walk[n] \in S \cap Met(t, p)
      BY <1>2, <1>4, <2>1
    <2> QED
      BY <1>1, <2>1, <2>2
  <1> HIDE DEF T
  <1>5. \A n \in Nat : n \in T
    BY <1>3, <1>4, NatInduct
  <1>6. \A n \in 0 .. Last : walk[n] \in S
    <2> TAKE n \in 0 .. Last
    <2>1. n \in Nat /\ n <= Last
      BY LastType
    <2> QED
      BY <1>5, <2>1 DEF T
  <1> QED
    BY <1>1, <1>6 DEF EndsAtRoot, Met, walk

\* So every category is shown when none is trapped.
LEMMA ShownWhenFree ==
  ASSUME NEW t, DOMAIN t \subseteq Category, Free(t)
  PROVE  \A c : EndsAtRoot(t, c)
  BY CircleFound

\* And none is trapped when every one is shown.
LEMMA FreeWhenShown ==
  ASSUME NEW t, DOMAIN t \subseteq Category, \A c \in DOMAIN t : EndsAtRoot(t, c)
  PROVE  Free(t)
  <1> SUFFICES ASSUME NEW S, Trapped(t, S) PROVE FALSE
    BY DEF Free
  <1>1. PICK p : p \in S
    BY DEF Trapped
  <1>2. Root \notin S /\ p \in DOMAIN t /\ \A c \in S : c \in DOMAIN t /\ t[c] \in S
    BY <1>1, CategoriesAssumption DEF Trapped
  <1> QED
    BY <1>1, <1>2, NoWayOut

(***************************************************************************)
(* What the requests do to the tree                                        *)
(***************************************************************************)

\* A move that passed the check leaves none trapped.
LEMMA MoveKeepsFree ==
  ASSUME NEW t, DOMAIN t \subseteq Category, Free(t), NEW id \in DOMAIN t, NEW parent,
         ~ CategoryParentWouldCycle(t, id, parent)
  PROVE  Free(Put(t, id, parent))
  <1> DEFINE u == Put(t, id, parent)
  <1> SUFFICES ASSUME NEW S, Trapped(u, S) PROVE FALSE
    BY DEF Free
  <1>1. DOMAIN u = DOMAIN t /\ u[id] = parent /\ \A c \in DOMAIN t \ {id} : u[c] = t[c]
    BY DEF Put
  <1>2. Root \notin S
    BY <1>1, CategoriesAssumption DEF Trapped
  <1>3. id \in S
    <2> SUFFICES ASSUME id \notin S PROVE Trapped(t, S)
      BY DEF Free
    <2> QED
      BY <1>1 DEF Trapped
  <1>4. parent \in S
    BY <1>1, <1>3 DEF Trapped
  <1>5. id \notin Met(t, parent) /\ EndsAtRoot(t, parent)
    BY <1>2, <1>4 DEF CategoryParentWouldCycle
  <1>6. \A c \in S \cap Met(t, parent) : c \in DOMAIN t /\ t[c] \in S
    BY <1>1, <1>5 DEF Trapped
  <1> QED
    BY <1>2, <1>4, <1>5, <1>6, NoWayOut

\* A new category under one that exists leaves none trapped.
LEMMA CreationKeepsFree ==
  ASSUME NEW t, DOMAIN t \subseteq Category, Free(t), NEW id \in Category \ DOMAIN t,
         \A c \in DOMAIN t : t[c] \in DOMAIN t \cup {Root},
         NEW parent \in DOMAIN t \cup {Root}
  PROVE  Free(Put(t, id, parent))
  <1> DEFINE u == Put(t, id, parent)
  <1> SUFFICES ASSUME NEW S, Trapped(u, S) PROVE FALSE
    BY DEF Free
  <1>1. /\ DOMAIN u = DOMAIN t \cup {id} /\ u[id] = parent /\ id # Root
        /\ \A c \in DOMAIN t : u[c] = t[c]
    BY CategoriesAssumption DEF Put
  <1>2. Root \notin S
    BY <1>1, CategoriesAssumption DEF Trapped
  <1>3. S \ {id} # {}
    BY <1>1, <1>2 DEF Trapped
  <1>4. \A c \in S \ {id} : c \in DOMAIN t /\ t[c] \in S \ {id}
    BY <1>1, <1>2 DEF Trapped
  <1>5. Trapped(t, S \ {id})
    BY <1>3, <1>4 DEF Trapped
  <1> QED
    BY <1>5 DEF Free

\* Nor does a removal.
LEMMA RemovalKeepsFree ==
  ASSUME NEW t, Free(t), NEW id
  PROVE  Free(Without(t, id))
  BY DEF Free, Trapped, Without

(***************************************************************************)
(* Requests served one after another                                       *)
(***************************************************************************)

\* What the handler knows where it is, as long as nobody else changes the
\* collections.
Serving(w) ==
  /\ pc[w] # "idle" => req[w] \in Requests
  /\ pc[w] \in {"list", "cycle"} => req[w].op = "update"
  /\ pc[w] = "cycle" => listed[w] = cats
  /\ pc[w] \in {"parent", "write"} =>
       /\ req[w].op \in {"create", "update", "file"}
       /\ req[w].op = "update" => ~ CategoryParentWouldCycle(cats, req[w].id, req[w].parent)
  /\ pc[w] = "write" => req[w].parent \in DOMAIN cats \cup {Root}
  /\ pc[w] \in {"children", "products", "delete"} => req[w].op = "delete"
  /\ pc[w] \in {"products", "delete"} => ~ HasChildren(req[w].id)
  /\ pc[w] = "delete" => ~ Holds(req[w].id)
TreeInv ==
  /\ DOMAIN pc = Worker /\ DOMAIN req = Worker /\ DOMAIN listed = Worker
  /\ DOMAIN cats \subseteq Category
  /\ \A w \in Worker : Serving(w)
  /\ NothingDangles
  /\ Free(Tree) => Free(cats)

\* A request that ends knows nothing more.
LEMMA Ends ==
  ASSUME TreeInv, NEW w \in Worker, \A v \in Worker : v = w, Answer(w)
  PROVE  /\ DOMAIN pc' = Worker /\ DOMAIN req' = Worker /\ DOMAIN listed' = Worker
         /\ \A v \in Worker : Serving(v)'
  <1>1. /\ pc' = [pc EXCEPT ![w] = "idle"] /\ req' = [req EXCEPT ![w] = NoRequest]
        /\ listed' = listed /\ pc'[w] = "idle"
    BY DEF TreeInv, Answer, Jump
  <1> QED
    BY <1>1 DEF TreeInv, Serving

\* Who leaves the collections alone leaves the tree alone.
LEMMA SameStores ==
  ASSUME TreeInv, UNCHANGED stores,
         DOMAIN pc' = Worker, DOMAIN req' = Worker, DOMAIN listed' = Worker,
         \A w \in Worker : Serving(w)'
  PROVE  TreeInv'
  BY DEF TreeInv, NothingDangles, stores

\* A request arrives.
LEMMA ArriveKeepsTree ==
  ASSUME TreeInv, NEW w \in Worker, \A v \in Worker : v = w, Arrive(w)
  PROVE  TreeInv'
  <1>1. PICK r \in Requests :
          /\ req' = [req EXCEPT ![w] = r]
          /\ pc' = [pc EXCEPT ![w] = CASE r.op = "update" -> "list"
                                       [] r.op = "delete" -> "children"
                                       [] OTHER -> "parent"]
          /\ UNCHANGED <<stores, listed>>
    BY DEF Arrive, Jump
  <1>2. r.op \in {"create", "update", "delete", "file"}
    BY DEF Requests
  <1>3. req'[w] = r /\ pc'[w] = CASE r.op = "update" -> "list"
                                  [] r.op = "delete" -> "children"
                                  [] OTHER -> "parent"
    BY <1>1 DEF TreeInv
  <1>4. Serving(w)'
    BY <1>2, <1>3 DEF Serving
  <1> QED
    BY <1>1, <1>4, SameStores DEF TreeInv

\* The looks before the last call.
LEMMA LooksKeepTree ==
  ASSUME TreeInv, NEW w \in Worker, \A v \in Worker : v = w,
         List(w) \/ CheckCycle(w) \/ EnsureParent(w) \/ CheckChildren(w) \/ CheckProducts(w)
  PROVE  TreeInv'
  <1>1. UNCHANGED stores
    BY DEF List, CheckCycle, EnsureParent, CheckChildren, CheckProducts, Continue
  <1>2. CASE Answer(w)
    BY <1>1, <1>2, Ends, SameStores
  <1>3. CASE ~ Answer(w)
    <2>1. Serving(w) /\ DOMAIN pc = Worker /\ DOMAIN req = Worker /\ DOMAIN listed = Worker
      BY DEF TreeInv
    <2>2. /\ req' = req
          /\ \/ List(w) /\ listed' = [listed EXCEPT ![w] = cats] /\ Jump(w, "cycle")
             \/ CheckCycle(w) /\ listed' = listed /\ Jump(w, "parent")
                  /\ ~ CategoryParentWouldCycle(listed[w], req[w].id, req[w].parent)
             \/ EnsureParent(w) /\ listed' = listed /\ Jump(w, "write")
                  /\ req[w].parent \in DOMAIN cats \cup {Root}
             \/ CheckChildren(w) /\ listed' = listed /\ Jump(w, "products")
                  /\ ~ HasChildren(req[w].id)
             \/ CheckProducts(w) /\ listed' = listed /\ Jump(w, "delete")
                  /\ ~ Holds(req[w].id)
      BY <1>3 DEF List, CheckCycle, EnsureParent, CheckChildren, CheckProducts, Continue
    <2>3. DOMAIN pc' = Worker /\ DOMAIN req' = Worker /\ DOMAIN listed' = Worker
      BY <2>1, <2>2 DEF Jump
    <2>4. cats' = cats /\ products' = products
      BY <1>1 DEF stores
    <2>5. Serving(w)'
      <3>1. CASE List(w) /\ listed' = [listed EXCEPT ![w] = cats] /\ Jump(w, "cycle")
        <4>1. pc[w] = "list" /\ pc'[w] = "cycle" /\ listed'[w] = cats
          BY <2>1, <3>1 DEF List, At, Jump
        <4> QED
          BY <2>1, <2>2, <2>4, <4>1 DEF Serving
      <3>2. CASE CheckCycle(w) /\ listed' = listed /\ Jump(w, "parent")
                  /\ ~ CategoryParentWouldCycle(listed[w], req[w].id, req[w].parent)
        <4>1. pc[w] = "cycle" /\ pc'[w] = "parent"
          BY <2>1, <3>2 DEF CheckCycle, At, Jump
        <4> QED
          BY <2>1, <2>2, <2>4, <3>2, <4>1 DEF Serving
      <3>3. CASE EnsureParent(w) /\ listed' = listed /\ Jump(w, "write")
                  /\ req[w].parent \in DOMAIN cats \cup {Root}
        <4>1. pc[w] = "parent" /\ pc'[w] = "write"
          BY <2>1, <3>3 DEF EnsureParent, At, Jump
        <4> QED
          BY <2>1, <2>2, <2>4, <3>3, <4>1 DEF Serving
      <3>4. CASE CheckChildren(w) /\ listed' = listed /\ Jump(w, "products")
                  /\ ~ HasChildren(req[w].id)
        <4>1. pc[w] = "children" /\ pc'[w] = "products"
          BY <2>1, <3>4 DEF CheckChildren, At, Jump
        <4>2. ~ HasChildren(req[w].id)'
          BY <2>2, <2>4, <3>4 DEF HasChildren
        <4> QED
          BY <2>1, <2>2, <2>4, <4>1, <4>2 DEF Serving
      <3>5. CASE CheckProducts(w) /\ listed' = listed /\ Jump(w, "delete")
                  /\ ~ Holds(req[w].id)
        <4>1. pc[w] = "products" /\ pc'[w] = "delete"
          BY <2>1, <3>5 DEF CheckProducts, At, Jump
        <4>2. ~ HasChildren(req[w].id)' /\ ~ Holds(req[w].id)'
          BY <2>1, <2>2, <2>4, <3>5, <4>1 DEF HasChildren, Holds, Serving
        <4> QED
          BY <2>1, <2>2, <2>4, <4>1, <4>2 DEF Serving
      <3> QED
        BY <2>2, <3>1, <3>2, <3>3, <3>4, <3>5
    <2> QED
      BY <1>1, <2>3, <2>5, SameStores
  <1> QED
    BY <1>2, <1>3

\* The last call of a creation, a move or a filing.
LEMMA WriteKeepsTree ==
  ASSUME TreeInv, NEW w \in Worker, \A v \in Worker : v = w, Write(w)
  PROVE  TreeInv'
  <1> DEFINE r == req[w]
  <1>1. /\ r \in Requests /\ r.op \in {"create", "update", "file"}
        /\ r.parent \in DOMAIN cats \cup {Root}
        /\ r.op = "update" => ~ CategoryParentWouldCycle(cats, r.id, r.parent)
    BY DEF Write, At, TreeInv, Serving
  <1>2. r.op # "file" => r.id \in Category
    BY <1>1 DEF Requests
  <1>3. /\ DOMAIN pc' = Worker /\ DOMAIN req' = Worker /\ DOMAIN listed' = Worker
        /\ \A v \in Worker : Serving(v)'
    BY Ends DEF Write
  <1>4. /\ DOMAIN cats \subseteq Category /\ NothingDangles
        /\ Free(Tree) => Free(cats)
    BY DEF TreeInv
  <1>5. CASE r.op # "file" /\ cats' = Put(cats, r.id, r.parent) /\ products' = products
    <2>1. DOMAIN cats' \subseteq Category /\ DOMAIN cats \subseteq DOMAIN cats'
      BY <1>2, <1>4, <1>5 DEF Put
    <2>2. \A c \in DOMAIN cats' : cats'[c] \in DOMAIN cats' \cup {Root}
      BY <1>1, <1>4, <1>5, <2>1 DEF Put, NothingDangles
    <2>3. \A p \in DOMAIN products' : products'[p] \in DOMAIN cats' \cup {Root}
      BY <1>4, <1>5, <2>1 DEF NothingDangles
    <2>4. CASE r.id \in DOMAIN cats /\ r.op = "update"
      <3>1. Free(Tree) => Free(cats')
        BY <1>1, <1>4, <1>5, <2>4, MoveKeepsFree
      <3> QED
        BY <1>3, <2>1, <2>2, <2>3, <3>1 DEF TreeInv, NothingDangles
    <2>5. CASE r.id \notin DOMAIN cats
      <3>1. Free(Tree) => Free(cats')
        BY <1>1, <1>2, <1>4, <1>5, <2>5, CreationKeepsFree DEF NothingDangles
      <3> QED
        BY <1>3, <2>1, <2>2, <2>3, <3>1 DEF TreeInv, NothingDangles
    <2>6. r.op = "create" /\ r.id \in DOMAIN cats => cats' = cats
      BY DEF Write
    <2>7. CASE cats' = cats
      BY <1>3, <1>4, <1>5, <2>7 DEF TreeInv, NothingDangles
    <2> QED
      BY <1>1, <1>5, <2>4, <2>5, <2>6, <2>7
  <1>6. CASE cats' = cats /\ products' = products
    BY <1>3, <1>6, SameStores DEF stores
  <1>7. CASE r.op = "file" /\ cats' = cats /\ products' = Put(products, r.id, r.parent)
    <2>1. \A p \in DOMAIN products' : products'[p] \in DOMAIN cats' \cup {Root}
      BY <1>1, <1>4, <1>7 DEF NothingDangles, Put
    <2> QED
      BY <1>3, <1>4, <1>7, <2>1 DEF TreeInv, NothingDangles
  <1> QED
    BY <1>1, <1>5, <1>6, <1>7 DEF Write

\* The last call of a deletion.
LEMMA DeleteKeepsTree ==
  ASSUME TreeInv, NEW w \in Worker, \A v \in Worker : v = w, Delete(w)
  PROVE  TreeInv'
  <1> DEFINE id == req[w].id
  <1>1. ~ HasChildren(id) /\ ~ Holds(id)
    BY DEF Delete, At, TreeInv, Serving
  <1>2. /\ DOMAIN pc' = Worker /\ DOMAIN req' = Worker /\ DOMAIN listed' = Worker
        /\ \A v \in Worker : Serving(v)'
    BY Ends DEF Delete
  <1>3. cats' = Without(cats, id) /\ products' = products
    BY DEF Delete
  <1>4. /\ DOMAIN cats \subseteq Category /\ NothingDangles
        /\ Free(Tree) => Free(cats)
    BY DEF TreeInv
  <1>5. Free(Tree) => Free(cats')
    BY <1>3, <1>4, RemovalKeepsFree
  <1>6. /\ DOMAIN cats' = DOMAIN cats \ {id}
        /\ \A c \in DOMAIN cats' : cats'[c] = cats[c]
    BY <1>3 DEF Without
  <1>7. /\ \A c \in DOMAIN cats : cats[c] # id
        /\ \A p \in DOMAIN products : products[p] # id
    BY <1>1 DEF HasChildren, Holds
  <1>8. NothingDangles'
    BY <1>3, <1>4, <1>6, <1>7 DEF NothingDangles
  <1> QED
    BY <1>2, <1>4, <1>5, <1>6, <1>8 DEF TreeInv

\* Every step of the only worker keeps the tree.
LEMMA TreeStep ==
  ASSUME \A v, w \in Worker : v = w
  PROVE  TreeInv /\ [Next]_vars => TreeInv'
  <1> SUFFICES ASSUME TreeInv, [Next]_vars PROVE TreeInv'
    OBVIOUS
  <1>1. CASE UNCHANGED vars
    <2>1. UNCHANGED <<stores, pc, req, listed>>
      BY <1>1 DEF vars
    <2>2. \A w \in Worker : Serving(w)'
      BY <2>1 DEF TreeInv, Serving, stores, HasChildren, Holds
    <2> QED
      BY <2>1, <2>2, SameStores DEF TreeInv
  <1>2. ASSUME NEW w \in Worker,
               \/ Arrive(w) \/ List(w) \/ CheckCycle(w) \/ EnsureParent(w) \/ Write(w)
               \/ CheckChildren(w) \/ CheckProducts(w) \/ Delete(w)
        PROVE  TreeInv'
    <2>1. \A v \in Worker : v = w
      OBVIOUS
    <2> QED
      BY <1>2, <2>1, ArriveKeepsTree, LooksKeepTree, WriteKeepsTree, DeleteKeepsTree
  <1> QED
    BY <1>1, <1>2 DEF Next

\* It is a tree at first.
LEMMA TreeInit == Init => TreeInv
  <1> SUFFICES ASSUME Init PROVE TreeInv
    OBVIOUS
  <1>1. DOMAIN Tree \subseteq Category /\ \A c \in DOMAIN Tree : Tree[c] \in DOMAIN Tree \cup {Root}
    BY CategoriesAssumption
  <1>2. NothingDangles
    BY <1>1 DEF Init, NothingDangles
  <1>3. \A w \in Worker : Serving(w)
    BY DEF Init, Serving
  <1> QED
    BY <1>1, <1>2, <1>3 DEF Init, TreeInv

\* No category disappears from the tree (category.go:21-28, 44-65): the check of
\* UpdateCategory refuses every circle when nobody moves a category between the
\* list and the write, for any tree that is shown at first.
THEOREM CategoriesShown ==
  ASSUME \A v, w \in Worker : v = w, \A c \in DOMAIN Tree : EndsAtRoot(Tree, c)
  PROVE  Spec => []EveryCategoryShown
  <1>1. Free(Tree)
    BY FreeWhenShown, CategoriesAssumption
  <1>2. TreeInv => EveryCategoryShown
    BY <1>1, ShownWhenFree DEF TreeInv, EveryCategoryShown, Shown
  <1> QED
    BY <1>2, TreeInit, TreeStep, PTL DEF Spec

\* Nothing refers to a category that is gone (service.go:85-93, 106-122,
\* 124-130), when requests are served one after another.
THEOREM ReferencesHold ==
  ASSUME \A v, w \in Worker : v = w
  PROVE  Spec => []NothingDangles
  <1>1. TreeInv => NothingDangles
    BY DEF TreeInv
  <1> QED
    BY <1>1, TreeInit, TreeStep, PTL DEF Spec
=============================================================================
