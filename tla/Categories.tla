----------------------------- MODULE Categories -----------------------------
(***************************************************************************)
(* The category tree and the products filed under it: CreateCategory,      *)
(* UpdateCategory, DeleteCategory, and what CreateProduct and              *)
(* UpdateProduct do about the category of a product                        *)
(* (internal/application/service.go), over the two Mongo collections.      *)
(* MongoDB does each call of a repository in one step; nothing holds       *)
(* between two calls, and requests of several workers interleave there.    *)
(***************************************************************************)
EXTENDS Integers, FiniteSets

CONSTANTS
  Category, Product,   \* identifiers
  Root,                \* "" as a parent or as a product's category
  Worker,
  May,                 \* worker -> the operations its requests ask for
  Tree,                \* the categories there are at first -> their parents
  MaxRequests,         \* bound: requests per worker
  NoRequest

ASSUME CategoriesAssumption ==
  /\ Root \notin Category /\ IsFiniteSet(Category)
  /\ DOMAIN Tree \subseteq Category
  /\ \A c \in DOMAIN Tree : Tree[c] \in DOMAIN Tree \cup {Root}
  /\ \A w \in Worker : May[w] \subseteq {"create", "update", "delete", "file"}
  /\ MaxRequests \in Nat

VARIABLES
  cats,      \* collection categories: id -> parent
  products,  \* collection products: id -> category
  pc, req,   \* worker -> where its handler is, and its request
  listed,    \* worker -> the categories UpdateCategory listed
  served     \* worker -> how many requests it served

stores == <<cats, products>>
vars == <<stores, pc, req, listed, served>>

Parent == Category \cup {Root}
Requests ==
  [op : {"create", "update"}, id : Category, parent : Parent]
    \cup [op : {"delete"}, id : Category]
    \cup [op : {"file"}, id : Product, parent : Parent]   \* a product, its category

Init ==
  /\ cats = Tree
  /\ products = [p \in {} |-> Root]
  /\ pc = [w \in Worker |-> "idle"]
  /\ req = [w \in Worker |-> NoRequest]
  /\ listed = [w \in Worker |-> Tree]
  /\ served = [w \in Worker |-> 0]

At(w, label) == pc[w] = label
Jump(w, label) == pc' = [pc EXCEPT ![w] = label]
Put(f, k, v) == [x \in DOMAIN f \cup {k} |-> IF x = k THEN v ELSE f[x]]
Without(f, k) == [x \in DOMAIN f \ {k} |-> f[x]]

Arrive(w) ==
  /\ At(w, "idle")
  /\ served[w] < MaxRequests
  /\ \E r \in Requests :
       /\ r.op \in May[w]
       /\ req' = [req EXCEPT ![w] = r]
       /\ Jump(w, CASE r.op = "update" -> "list"
                    [] r.op = "delete" -> "children"
                    [] OTHER -> "parent")
  /\ served' = [served EXCEPT ![w] = @ + 1]
  /\ UNCHANGED <<stores, listed>>

\* The handler answers; an error and a success look the same from here.
Answer(w) ==
  /\ Jump(w, "idle")
  /\ req' = [req EXCEPT ![w] = NoRequest]
  /\ UNCHANGED <<listed, served>>

Continue(w, label) == Jump(w, label) /\ UNCHANGED <<stores, req, served>>

(***************************************************************************)
(* UpdateCategory lists the categories, walks up from the new parent, and  *)
(* then asks again for the parent.                                         *)
(***************************************************************************)

\* The category reached from p by n steps up in the tree t; the walk ends at
\* Root, or where a parent is missing.
Above(t, p) ==
  LET walk[n \in 0 .. Cardinality(Category) + 1] ==
        IF n = 0 THEN p
        ELSE IF walk[n - 1] \in DOMAIN t THEN t[walk[n - 1]] ELSE Root
  IN  walk
Met(t, p) == {Above(t, p)[n] : n \in DOMAIN Above(t, p)}
EndsAtRoot(t, p) == Root \in Met(t, p)

\* Mutant of CategoryParentWouldCycle: only the category itself is refused.
IsItself(t, id, parent) == parent = id

CategoryParentWouldCycle(t, id, parent) ==
  parent # Root /\ (id \in Met(t, parent) \/ ~EndsAtRoot(t, parent))

List(w) ==
  /\ At(w, "list")
  /\ listed' = [listed EXCEPT ![w] = cats]
  /\ Continue(w, "cycle")

CheckCycle(w) ==
  /\ At(w, "cycle")
  /\ IF CategoryParentWouldCycle(listed[w], req[w].id, req[w].parent)
     THEN Answer(w) /\ UNCHANGED stores
     ELSE Continue(w, "parent") /\ UNCHANGED listed

\* ensureCategoryParent.
EnsureParent(w) ==
  /\ At(w, "parent")
  /\ IF req[w].parent = Root \/ req[w].parent \in DOMAIN cats
     THEN Continue(w, "write") /\ UNCHANGED listed
     ELSE Answer(w) /\ UNCHANGED stores

\* The last call of CreateCategory, UpdateCategory, CreateProduct and
\* UpdateProduct: an insert with an id that exists fails, and so does the
\* update of a document that is gone.
Write(w) ==
  /\ At(w, "write")
  /\ LET r == req[w]
     IN  CASE r.op = "create" ->
                /\ cats' = IF r.id \in DOMAIN cats THEN cats ELSE Put(cats, r.id, r.parent)
                /\ UNCHANGED products
           [] r.op = "update" ->
                /\ cats' = IF r.id \in DOMAIN cats THEN Put(cats, r.id, r.parent) ELSE cats
                /\ UNCHANGED products
           [] r.op = "file" ->
                products' = Put(products, r.id, r.parent) /\ UNCHANGED cats
  /\ Answer(w)

(***************************************************************************)
(* DeleteCategory                                                          *)
(***************************************************************************)

\* Mutant of HasChildren: nobody asks.
HasNoChildren(id) == FALSE

HasChildren(id) == \E c \in DOMAIN cats : cats[c] = id

Holds(id) == \E p \in DOMAIN products : products[p] = id

CheckChildren(w) ==
  /\ At(w, "children")
  /\ IF HasChildren(req[w].id) THEN Answer(w) /\ UNCHANGED stores
     ELSE Continue(w, "products") /\ UNCHANGED listed

CheckProducts(w) ==
  /\ At(w, "products")
  /\ IF Holds(req[w].id) THEN Answer(w) /\ UNCHANGED stores
     ELSE Continue(w, "delete") /\ UNCHANGED listed

Delete(w) ==
  /\ At(w, "delete")
  /\ cats' = Without(cats, req[w].id)
  /\ Answer(w)
  /\ UNCHANGED products

Next ==
  \E w \in Worker :
    \/ Arrive(w) \/ List(w) \/ CheckCycle(w) \/ EnsureParent(w) \/ Write(w)
    \/ CheckChildren(w) \/ CheckProducts(w) \/ Delete(w)

Spec == Init /\ [][Next]_vars

(***************************************************************************)
(* Properties                                                              *)
(***************************************************************************)

\* What BuildCategoryTree shows: the categories that hang, through parents
\* that exist, on one without a parent or with a parent that does not exist.
Shown == {c \in DOMAIN cats : EndsAtRoot(cats, c)}

\* No category disappears from the tree: "descendant" as a parent is refused
\* (category_test.go:49-51), for a category on a cycle hangs on no root
\* (category.go:21-28).
EveryCategoryShown == Shown = DOMAIN cats

\* Requests served one after another leave no category without its parent and
\* no product without its category (service.go:85-93, 106-122, 124-130).
NothingDangles ==
  /\ \A c \in DOMAIN cats : cats[c] \in DOMAIN cats \cup {Root}
  /\ \A p \in DOMAIN products : products[p] \in DOMAIN cats \cup {Root}
=============================================================================
