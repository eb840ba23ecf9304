------------------------------ MODULE PoolTree ------------------------------
(***************************************************************************)
(* The tree of memory pools (afw_pool_multithreaded.c; the pools of        *)
(* afw_pool_singlethreaded.c have the same list, and a count that is not   *)
(* atomic).  A pool has a reference on its parent and is in the parent's   *)
(* list of children; whoever drops its last reference destroys it.         *)
(*                                                                         *)
(* Calls nest: to destroy a pool is to run its cleanups, which release     *)
(* other pools, to destroy its children, and to release its parent.        *)
(* calls[t] is the C stack of thread t: a frame for each destroy it is in, *)
(* and one for a create.  No lock is held, so that a step is one access to *)
(* a count or to a pointer of the list.                                    *)
(***************************************************************************)
EXTENDS Integers, FiniteSets, Sequences

CONSTANTS Threads,
          Pools,      (* the pools that can be created                     *)
          Base,       (* the pool of the environment, which nobody         *)
                      (* destroys (afw_environment.c:445)                  *)
          NoPool,     (* NULL                                              *)
          MaxShared   (* bound: pools with a second user or with a cleanup *)

ASSUME PoolsAssumption ==
    /\ IsFiniteSet(Pools) /\ IsFiniteSet(Threads)
    /\ Base \notin Pools
    /\ NoPool \notin Pools \cup {Base}
    /\ Threads \cap (Pools \cup {Base}) = {}
    /\ MaxShared \in Nat

AllPools == Pools \cup {Base}

VARIABLES
    memory,         (* of each pool: "unused", "live" or "freed"           *)
    lineage,        (* a pool and those whose apr pools its own is in      *)
    parent,
    reference_count,
    first_child, next_sibling,
    first_cleanup,  (* the pools that a pool's cleanups release            *)
    users,          (* who has a reference on a pool that is not a child's:
                       a thread, or a pool with a cleanup                  *)
    calls,          (* the frames of each thread, innermost first          *)
    broken,         (* "no"; "freed" once freed memory was used; "lost"
                       once a child was not in its parent's list.  What
                       the program does then is not modelled.              *)
    early,          (* a pool with a child has lost its last user          *)
    overlapped      (* two threads were at work in one list                *)

structVars == <<memory, lineage, parent, first_cleanup>>
listVars == <<first_child, next_sibling>>
countVars == <<reference_count, users>>
history == <<early, overlapped>>
vars == <<structVars, listVars, countVars, calls, broken, history>>

Live(p) == memory[p] = "live"

(* The apr pools that go when that of p is destroyed. *)
Under(p) == {q \in Pools : Live(q) /\ p \in lineage[q]}

Places == {"first", "link", "destroy", "search", "unlink", "parent", "free"}

(* Where the pool of a frame is being put into, or looked for in, a list. *)
InList == {"first", "link", "search", "unlink"}

Frames == [pool : AllPools, at : Places, left : SUBSET Pools,
           prev : Pools \cup {NoPool}, sibling : Pools \cup {NoPool}]

TypeOK ==
    /\ memory \in [AllPools -> {"unused", "live", "freed"}]
    /\ lineage \in [AllPools -> SUBSET AllPools]
    /\ parent \in [AllPools -> AllPools \cup {NoPool}]
    /\ reference_count \in [AllPools -> Int]
    /\ first_child \in [AllPools -> Pools \cup {NoPool}]
    /\ next_sibling \in [AllPools -> Pools \cup {NoPool}]
    /\ first_cleanup \in [AllPools -> SUBSET Pools]
    /\ users \in [AllPools -> SUBSET (Threads \cup AllPools)]
    /\ calls \in [Threads -> Seq(Frames)]
    /\ broken \in {"no", "freed", "lost"}
    /\ early \in BOOLEAN /\ overlapped \in BOOLEAN

Init ==
    /\ memory = [p \in AllPools |-> IF p = Base THEN "live" ELSE "unused"]
    /\ lineage = [p \in AllPools |-> {p}]
    /\ parent = [p \in AllPools |-> NoPool]
    /\ reference_count = [p \in AllPools |-> IF p = Base THEN 1 ELSE 0]
    /\ first_child = [p \in AllPools |-> NoPool]
    /\ next_sibling = [p \in AllPools |-> NoPool]
    /\ first_cleanup = [p \in AllPools |-> {}]
    /\ users = [p \in AllPools |-> IF p = Base THEN {Base} ELSE {}]
    /\ calls = [t \in Threads |-> <<>>]
    /\ broken = "no" /\ early = FALSE /\ overlapped = FALSE
-----------------------------------------------------------------------------
(* Frames *)

(* left: the cleanups not run yet; prev, sibling: where the search is *)
Frame(p, place) ==
    [pool |-> p, at |-> place, left |-> first_cleanup[p],
     prev |-> NoPool, sibling |-> NoPool]

Idle(t) == calls[t] = <<>>

Top(t) == Head(calls[t])

At(t, place) ==
    broken = "no" /\ ~Idle(t) /\ Top(t).at = place /\ Live(Top(t).pool)

(* Thread t goes on with this as its innermost frame, and new calls on it. *)
Continue(t, new, frame) ==
    calls' = [calls EXCEPT ![t] = new \o <<frame>> \o Tail(@)]

Return(t) == calls' = [calls EXCEPT ![t] = Tail(@)]

(* Thread t begins to work in the list of p's children. *)
EnterList(t, p) ==
    overlapped' = (overlapped \/
        \E u \in Threads \ {t} :
            ~Idle(u) /\ Top(u).at \in InList /\ parent[Top(u).pool] = p)

(* The user x of p lets go of it: too early if it is the last of them and a
   child is left. *)
LetGo(x, p) ==
    /\ users' = [users EXCEPT ![p] = @ \ {x}]
    /\ early' = (early \/ (users[p] = {x} /\ \E c \in Pools : Live(c) /\ parent[c] = p))

(* afw_pool_release: the count goes down, and the pool at zero *)
Decrement(p) == reference_count' = [reference_count EXCEPT ![p] = @ - 1]

DestroyAtZero(p) ==
    IF reference_count[p] = 1 THEN <<Frame(p, "destroy")>> ELSE <<>>
-----------------------------------------------------------------------------
(* Calls of a thread that is not in one *)

Uses(t, p) == broken = "no" /\ Idle(t) /\ Live(p) /\ (p = Base \/ t \in users[p])

Unused == {p \in Pools : memory[p] = "unused"}

NewPool == CHOOSE c \in Unused : TRUE

(* A new struct: count 1, nothing in it. *)
Allocates(c, within, t) ==
    /\ memory' = [memory EXCEPT ![c] = "live"]
    /\ lineage' = [lineage EXCEPT ![c] = within \cup {c}]
    /\ users' = [users EXCEPT ![c] = {t}]
    /\ UNCHANGED <<first_cleanup, listVars, broken, early>>

(* afw_pool_create and afw_pool_create_multithreaded, up to the first access
   to the list: the parent's count is incremented. *)
Create(t, p) ==
    /\ Uses(t, p) /\ Unused # {}
    /\ Allocates(NewPool, lineage[p], t)
    /\ parent' = [parent EXCEPT ![NewPool] = p]
    /\ reference_count' = [reference_count EXCEPT ![NewPool] = 1, ![p] = @ + 1]
    /\ calls' = [calls EXCEPT ![t] = <<Frame(NewPool, "first")>>]
    /\ EnterList(t, p)

(* afw_pool_internal_create_thread: a root *)
CreateThread(t) ==
    /\ broken = "no" /\ Idle(t) /\ Unused # {}
    /\ Allocates(NewPool, {}, t)
    /\ reference_count' = [reference_count EXCEPT ![NewPool] = 1]
    /\ UNCHANGED <<parent, calls, overlapped>>

(* What the bound counts. *)
Shared == {p \in Pools : \E x \in users[p], y \in users[p] : x # y}
Cleaned == {p \in Pools : first_cleanup[p] # {}}
MoreShared == Cardinality(Shared) + Cardinality(Cleaned) < MaxShared

(* afw_pool_add_reference.  Thread u gets the reference, with the instance or
   the object whose pool it is; one that has two counts as two users. *)
AddReference(t, u, p) ==
    /\ Uses(t, p) /\ p # Base /\ u \notin users[p] /\ MoreShared
    /\ reference_count' = [reference_count EXCEPT ![p] = @ + 1]
    /\ users' = [users EXCEPT ![p] = @ \cup {u}]
    /\ UNCHANGED <<structVars, listVars, calls, broken, history>>

(* afw_pool_release *)
Release(t, p) ==
    /\ Uses(t, p) /\ p # Base
    /\ Decrement(p)
    /\ LetGo(t, p)
    /\ calls' = [calls EXCEPT ![t] = DestroyAtZero(p)]
    /\ UNCHANGED <<structVars, listVars, broken, overlapped>>

(* afw_pool_destroy, by the last user of a pool and of all that is in it:
   nothing of it is in the hands of another thread, and the cleanups that
   release a pool are those of pools that it is in. *)
Destroy(t, p) ==
    /\ Uses(t, p) /\ p # Base
    /\ \A q \in Under(p) :
          /\ users[q] \ {t} \subseteq Under(p) \cap lineage[q]
          /\ \A u \in Threads : \A i \in 1..Len(calls[u]) : calls[u][i].pool # q
    /\ calls' = [calls EXCEPT ![t] = <<Frame(p, "destroy")>>]
    /\ UNCHANGED <<structVars, listVars, countVars, broken, history>>

(* afw_pool_register_cleanup_before: the thread's reference on q will go with
   p, as that on an object does with the pool of the request. *)
RegisterCleanup(t, p, q) ==
    /\ Uses(t, p) /\ Uses(t, q) /\ p # Base /\ q # Base /\ MoreShared
    /\ q \notin lineage[p] /\ q \notin first_cleanup[p]
    /\ first_cleanup' = [first_cleanup EXCEPT ![p] = @ \cup {q}]
    /\ users' = [users EXCEPT ![q] = (@ \ {t}) \cup {p}]
    /\ UNCHANGED <<memory, lineage, parent, reference_count, listVars, calls,
                   broken, history>>

(* afw_pool_deregister_cleanup *)
DeregisterCleanup(t, p, q) ==
    /\ Uses(t, p) /\ q \in first_cleanup[p] /\ t \notin users[q]
    /\ first_cleanup' = [first_cleanup EXCEPT ![p] = @ \ {q}]
    /\ users' = [users EXCEPT ![q] = (@ \ {p}) \cup {t}]
    /\ UNCHANGED <<memory, lineage, parent, reference_count, listVars, calls,
                   broken, history>>
-----------------------------------------------------------------------------
(* impl_add_child *)

(* child->next_sibling = parent->first_child *)
AddChild(t) ==
    /\ At(t, "first")
    /\ LET c == Top(t).pool
       IN  next_sibling' = [next_sibling EXCEPT ![c] = first_child[parent[c]]]
    /\ Continue(t, <<>>, [Top(t) EXCEPT !.at = "link"])
    /\ UNCHANGED <<structVars, first_child, countVars, broken, history>>

(* parent->first_child = child, and the new pool is the caller's *)
LinkChild(t) ==
    /\ At(t, "link")
    /\ LET c == Top(t).pool
       IN  first_child' = [first_child EXCEPT ![parent[c]] = c]
    /\ Return(t)
    /\ UNCHANGED <<structVars, next_sibling, countVars, broken, history>>
-----------------------------------------------------------------------------
(* impl_afw_pool_destroy *)

(* The cleanups come first: the pool of the cleanup lets go of q. *)
RunCleanup(t) ==
    /\ At(t, "destroy")
    /\ \E q \in Top(t).left :
          /\ Live(q)
          /\ Decrement(q)
          /\ LetGo(Top(t).pool, q)
          /\ Continue(t, DestroyAtZero(q), [Top(t) EXCEPT !.left = @ \ {q}])
    /\ UNCHANGED <<structVars, listVars, broken, overlapped>>

(* mutant: the loop over the children does not wait for the cleanups *)
InChildrenAtOnce(t) == At(t, "destroy")

(* The loop over the children. *)
InChildren(t) == At(t, "destroy") /\ Top(t).left = {}

DestroyChild(t) ==
    /\ InChildren(t)
    /\ LET child == first_child[Top(t).pool]
       IN  /\ child # NoPool /\ Live(child)
           /\ Continue(t, <<Frame(child, "destroy")>>, Top(t))
    /\ UNCHANGED <<structVars, listVars, countVars, broken, history>>

(* No child is left: to the list of the parent, if there is one. *)
ChildrenGone(t) ==
    /\ InChildren(t)
    /\ first_child[Top(t).pool] = NoPool
    /\ LET up == parent[Top(t).pool]
       IN  IF up = NoPool
           THEN /\ Continue(t, <<>>, [Top(t) EXCEPT !.at = "free"])
                /\ UNCHANGED overlapped
           ELSE /\ Continue(t, <<>>, [Top(t) EXCEPT !.at = "search",
                                                    !.sibling = first_child[up]])
                /\ EnterList(t, up)
    /\ UNCHANGED <<structVars, listVars, countVars, broken, early>>

(* impl_remove_child: one turn of the loop that looks for the child *)
Search(t) ==
    /\ At(t, "search")
    /\ LET f == Top(t)
       IN  /\ f.sibling # NoPool /\ Live(f.sibling)
           /\ Continue(t, <<>>,
                IF f.sibling = f.pool
                THEN [f EXCEPT !.at = "unlink", !.sibling = next_sibling[f.pool]]
                ELSE [f EXCEPT !.prev = f.sibling, !.sibling = next_sibling[f.sibling]])
    /\ UNCHANGED <<structVars, listVars, countVars, broken, history>>

(* "Not a child of parent" *)
NotAChild(t) ==
    /\ At(t, "search") /\ Top(t).sibling = NoPool
    /\ calls' = [calls EXCEPT ![t] = <<>>]
    /\ broken' = "lost"
    /\ UNCHANGED <<structVars, listVars, countVars, history>>

(* mutant: the child is always taken for the first *)
UnlinkFirst(t) ==
    /\ At(t, "unlink")
    /\ first_child' = [first_child EXCEPT ![parent[Top(t).pool]] = Top(t).sibling]
    /\ Continue(t, <<>>, [Top(t) EXCEPT !.at = "parent", !.prev = NoPool,
                                        !.sibling = NoPool])
    /\ UNCHANGED <<structVars, next_sibling, countVars, broken, history>>

Unlink(t) ==
    /\ At(t, "unlink")
    /\ LET f == Top(t)
       IN  /\ IF f.prev = NoPool
              THEN /\ first_child' = [first_child EXCEPT ![parent[f.pool]] = f.sibling]
                   /\ UNCHANGED next_sibling
              ELSE /\ Live(f.prev)
                   /\ next_sibling' = [next_sibling EXCEPT ![f.prev] = f.sibling]
                   /\ UNCHANGED first_child
           /\ Continue(t, <<>>, [f EXCEPT !.at = "parent", !.prev = NoPool,
                                          !.sibling = NoPool])
    /\ UNCHANGED <<structVars, countVars, broken, history>>

(* mutant: it does not *)
ReleaseParentNever(t) ==
    /\ At(t, "parent")
    /\ Continue(t, <<>>, [Top(t) EXCEPT !.at = "free"])
    /\ UNCHANGED <<structVars, listVars, countVars, broken, history>>

(* The child gives its reference on the parent back, which may be the last. *)
ReleaseParent(t) ==
    /\ At(t, "parent")
    /\ LET up == parent[Top(t).pool]
       IN  /\ Decrement(up)
           /\ Continue(t, DestroyAtZero(up), [Top(t) EXCEPT !.at = "free"])
    /\ UNCHANGED <<structVars, listVars, users, broken, history>>

(* apr_pool_destroy: with the pool goes every apr pool created in it. *)
Free(t) ==
    /\ At(t, "free")
    /\ LET gone == Under(Top(t).pool)
           Without(f, none) == [q \in AllPools |-> IF q \in gone THEN none ELSE f[q]]
       IN  /\ memory' = Without(memory, "freed")
           /\ parent' = Without(parent, NoPool)
           /\ first_child' = Without(first_child, NoPool)
           /\ next_sibling' = Without(next_sibling, NoPool)
           /\ first_cleanup' = Without(first_cleanup, {})
           /\ reference_count' = Without(reference_count, 0)
           /\ users' = Without(users, {})
    /\ Return(t)
    /\ UNCHANGED <<lineage, broken, history>>

(* What the next step of a frame reads or writes.  The parent of a live pool
   is live, since its apr pool is in the parent's. *)
Accesses(f) ==
    {f.pool} \cup
        CASE f.at = "destroy" -> IF f.left # {} THEN f.left ELSE {first_child[f.pool]}
          [] f.at = "search"  -> {f.sibling}
          [] f.at = "unlink"  -> {f.prev}
          [] OTHER            -> {}

UseFreed(t) ==
    /\ broken = "no" /\ ~Idle(t)
    /\ \E p \in Accesses(Top(t)) \ {NoPool} : memory[p] = "freed"
    /\ broken' = "freed"
    /\ UNCHANGED <<structVars, listVars, countVars, calls, history>>
-----------------------------------------------------------------------------
Begin(t) ==
    \/ CreateThread(t)
    \/ \E p \in AllPools : Create(t, p)
    \/ \E p \in Pools : Release(t, p) \/ Destroy(t, p)
    \/ \E p \in Pools, u \in Threads : AddReference(t, u, p)
    \/ \E p, q \in Pools : RegisterCleanup(t, p, q) \/ DeregisterCleanup(t, p, q)

GoOn(t) ==
    \/ AddChild(t) \/ LinkChild(t)
    \/ RunCleanup(t) \/ DestroyChild(t) \/ ChildrenGone(t)
    \/ Search(t) \/ NotAChild(t) \/ Unlink(t) \/ ReleaseParent(t)
    \/ Free(t) \/ UseFreed(t)

(* The model ends where the tree is broken, and where the bound on the pools
   is used up and no thread has one left. *)
Ended ==
    /\ \/ broken # "no"
       \/ /\ Unused = {}
          /\ \A t \in Threads : Idle(t) /\ \A p \in Pools : t \notin users[p]
    /\ UNCHANGED vars

Next == Ended \/ \E t \in Threads : Begin(t) \/ GoOn(t)

Spec == Init /\ [][Next]_vars
-----------------------------------------------------------------------------
(* Properties *)

(* What is said below of counts and calls needs the tree to be intact and no pool
   to have been let go by its last user before its children; what is said of
   lists, also that no two threads were in one. *)
Orderly == broken = "no" /\ ~early

Children(p) == {c \in Pools : Live(c) /\ parent[c] = p}

(* A frame at work on c, if there is one, is at one of these places. *)
Stands(c, places) ==
    \A t \in Threads : \A i \in 1..Len(calls[t]) :
        calls[t][i].pool = c => calls[t][i].at \in places

(* A child has its reference on its parent until it gives it back, and is in
   the list from the end of its creation until it is taken out. *)
Counted(p) == {c \in Children(p) : Stands(c, Places \ {"free"})}

Listed(p) == {c \in Children(p) : Stands(c, {"destroy", "search", "unlink"})}

(* Whatever threads do in the lists at the same time, the count of a pool is
   the users and the children that it has: every add_reference finds its
   release, those of children and of cleanups included. *)
CountExact ==
    Orderly =>
        \A p \in AllPools : Live(p) =>
            reference_count[p] = Cardinality(users[p]) + Cardinality(Counted(p))

(* The numberings of the listed children of p, and the one along the links. *)
Orders(p) == [1..Cardinality(Listed(p)) -> Listed(p)]

Nth(s, k) == IF k \in DOMAIN s THEN s[k] ELSE NoPool

Linked(p, s) ==
    /\ \A c \in Listed(p) : \E k \in DOMAIN s : s[k] = c
    /\ \A j, k \in DOMAIN s : s[j] = s[k] => j = k
    /\ first_child[p] = Nth(s, 1)
    /\ \A k \in DOMAIN s : next_sibling[s[k]] = Nth(s, k + 1)

(* The links of a pool lead once to each of its children and to the end, at
   every moment of a create and of a destroy. *)
ListIsChildren ==
    Orderly /\ ~overlapped =>
        \A p \in AllPools : Live(p) => \E s \in Orders(p) : Linked(p, s)

(* A pool is in the apr pools of its ancestors, up to one that has no parent;
   they are live, each is in the next, and has a child on the way. *)
LineageInv ==
    /\ Live(Base) /\ lineage[Base] = {Base} /\ parent[Base] = NoPool
    /\ \A p \in Pools : Live(p) =>
          /\ p \in lineage[p]
          /\ parent[p] # NoPool =>
                /\ parent[p] \in lineage[p] /\ parent[p] # p
                /\ lineage[p] = lineage[parent[p]] \cup {p}
          /\ \A a, b \in lineage[p] : a \in lineage[b] \/ b \in lineage[a]
          /\ \A a \in lineage[p] :
                /\ Live(a) /\ lineage[a] \subseteq lineage[p]
                /\ a # p => /\ p \notin lineage[a]
                            /\ \E c \in Children(a) : c \in lineage[p]

(* Nothing points to a pool that is not created yet. *)
UnusedInv ==
    \A p \in Unused :
        /\ parent[p] = NoPool /\ users[p] = {} /\ first_cleanup[p] = {}
        /\ first_child[p] = NoPool /\ next_sibling[p] = NoPool
        /\ \A q \in AllPools :
              /\ p \notin {parent[q], first_child[q], next_sibling[q]}
              /\ p \notin users[q] \cup first_cleanup[q]
        /\ \A t \in Threads : \A i \in 1..Len(calls[t]) :
              LET f == calls[t][i]
              IN  p \notin {f.pool, f.prev, f.sibling} \cup f.left

Siblings(c, d) ==
    c \in Pools /\ d \in Pools /\ Live(c) /\ Live(d) => parent[c] = parent[d]

(* A link never leads out of the family, even where it leads to a pool that is
   not in the list any more. *)
FamilyInv ==
    /\ \A p \in AllPools, c \in Pools : first_child[p] = c /\ Live(c) => parent[c] = p
    /\ \A c \in Pools : Siblings(c, next_sibling[c])
    /\ \A t \in Threads : \A i \in 1..Len(calls[t]) :
          LET f == calls[t][i]
          IN  /\ Siblings(f.pool, f.sibling) /\ Siblings(f.pool, f.prev)
              /\ f.at \in InList \cup {"parent"} /\ Live(f.pool) => parent[f.pool] # NoPool

(* The pools that thread t is at work on. *)
AtWork(t) == {calls[t][i].pool : i \in 1..Len(calls[t])}

(* What a thread destroys because its count is zero has no children; *)
Spent(p) == users[p] = {} /\ Children(p) = {}

(* and what it destroys without asking for the count is its own. *)
Owns(t, p) ==
    /\ t \in users[p]
    /\ \A q \in Under(p) : users[q] \ {t} \subseteq Under(p) \cap lineage[q]
    /\ \A u \in Threads \ {t} : AtWork(u) \cap Under(p) = {}

(* The pool of the outermost call of t *)
Root(t) == calls[t][Len(calls[t])].pool

(* A call, of frame f, that is inside another, of frame g, is for a pool that is
   spent, or for one below the pool of the outer call, which has run its cleanups. *)
Inside(f, g) ==
    /\ f.pool # g.pool /\ g.at = "destroy"
    /\ Spent(f.pool) \/ (g.pool \in lineage[f.pool] /\ g.left = {})

(* A thread creates a pool in no other call, and until it is created has it alone; *)
Creates(t, f) ==
    /\ Len(calls[t]) = 1
    /\ users[f.pool] = {t} /\ first_cleanup[f.pool] = {}

(* and what it destroys is spent, or in what it owns, where it came down from. *)
Destroys(t, p) ==
    \/ Spent(p)
    \/ /\ Owns(t, Root(t)) /\ Root(t) \in lineage[p]
       /\ \A a \in lineage[p] : Root(t) \in lineage[a] => a \in AtWork(t)

StackInv(t) ==
    LET s == calls[t]
    IN  /\ \A i, k \in 1..Len(s) : i < k => Inside(s[i], s[k])
        /\ \A i \in 1..Len(s) :
              /\ Live(s[i].pool)
              /\ IF s[i].at \in {"first", "link"} THEN Creates(t, s[i])
                                                ELSE Destroys(t, s[i].pool)

CallsInv ==
    /\ \A t \in Threads : StackInv(t)
    /\ \A t \in Threads, u \in Threads : t # u => AtWork(t) \cap AtWork(u) = {}

(* The user of a pool that is a pool has a cleanup that is still to run. *)
CleanupsInv ==
    /\ \A p, q \in Pools : p \in users[q] =>
          /\ q \notin lineage[p]
          /\ Live(p) => q \in first_cleanup[p]
    /\ \A p, q \in Pools :
          Live(p) /\ q \in first_cleanup[p] /\ (\A t \in Threads : p \notin AtWork(t)) =>
              p \in users[q]
    /\ \A t \in Threads : \A i \in 1..Len(calls[t]) :
          \A q \in Pools : q \in calls[t][i].left <=> calls[t][i].pool \in users[q]

(* A pool with a child has a user, and one without either is being destroyed. *)
UsersInv ==
    /\ users[Base] = {Base}
    /\ \A p \in Pools :
          /\ Base \notin users[p]
          /\ users[p] # {} => Live(p)
          /\ Children(p) # {} => users[p] # {}
          /\ Live(p) /\ users[p] = {} => \E t \in Threads : p \in AtWork(t)

(* Where the search for a child is: it has not passed it. *)
Searching(f, s, k) ==
    /\ k \in DOMAIN s
    /\ f.sibling = s[k] /\ f.prev = Nth(s, k - 1)
    /\ \A i \in DOMAIN s : i < k => s[i] # f.pool

(* Where a thread is in a list. *)
ListStep(f) ==
    LET up == parent[f.pool]
    IN  /\ f.at = "link" => next_sibling[f.pool] = first_child[up]
        /\ f.at = "search" =>
              \E s \in Orders(up) : Linked(up, s) /\ \E k \in DOMAIN s : Searching(f, s, k)
        /\ f.at = "unlink" =>
              \E s \in Orders(up) : Linked(up, s) /\ \E k \in DOMAIN s :
                  s[k] = f.pool /\ f.prev = Nth(s, k - 1) /\ f.sibling = Nth(s, k + 1)

ListsInv ==
    Orderly /\ ~overlapped =>
        /\ \A t \in Threads : ~Idle(t) => ListStep(Top(t))
        /\ \A t, u \in Threads :
              /\ t # u /\ ~Idle(t) /\ ~Idle(u)
              /\ Top(t).at \in InList /\ Top(u).at \in InList
              => parent[Top(t).pool] # parent[Top(u).pool]

PoolInv ==
    /\ TypeOK /\ LineageInv /\ UnusedInv /\ FamilyInv
    /\ Orderly => CallsInv /\ CleanupsInv /\ UsersInv
    /\ CountExact /\ ListIsChildren /\ ListsInv

(* Freed memory is never used, and no child is ever missing from the list of
   its parent, as long as the last user of a pool lets go of it after the
   pool's children, and no two threads are in one list; and what a thread
   destroys, or what is freed with it, no other thread has. *)
TouchesOnlyLive ==
    /\ broken # "no" => early \/ overlapped
    /\ Orderly => \A t \in Threads : \A i \in 1..Len(calls[t]) :
          calls[t][i].at \notin {"first", "link"} =>
              \A q \in Under(calls[t][i].pool) : users[q] \cap Threads \subseteq {t}

(* No pool is left behind: when all calls have returned, what is not freed is
   in use, or has something in it that is. *)
NothingLeftBehind ==
    broken = "no" /\ (\A t \in Threads : Idle(t)) =>
        \A p \in Pools : Live(p) => \E q \in Under(p) : users[q] # {}
=============================================================================
