---------------------------- MODULE PoolTreeProofs ----------------------------
(***************************************************************************)
(* For any number of threads and pools: counts are exact, the links of a   *)
(* pool lead to its children, nothing is used after it is freed, and       *)
(* nothing is left behind.                                                 *)
(***************************************************************************)
EXTENDS PoolTree, FiniteSetTheorems, WellFoundedInduction, TLAPS

USE PoolsAssumption

-----------------------------------------------------------------------------
(* Stacks *)

LEMMA FrameIsFrame ==
    ASSUME TypeOK, NEW p \in AllPools, NEW place \in Places
    PROVE  /\ Frame(p, place) \in Frames
           /\ Frame(p, place).pool = p /\ Frame(p, place).at = place
           /\ Frame(p, place).left = first_cleanup[p]
           /\ Frame(p, place).prev = NoPool /\ Frame(p, place).sibling = NoPool
BY DEF TypeOK, Frame, Frames, AllPools

LEMMA StackTyped ==
    ASSUME TypeOK, NEW t \in Threads
    PROVE  /\ calls[t] \in Seq(Frames) /\ Len(calls[t]) \in Nat
           /\ \A i \in 1..Len(calls[t]) : calls[t][i] \in Frames
           /\ Idle(t) <=> Len(calls[t]) = 0
           /\ ~Idle(t) => Top(t) = calls[t][1] /\ 1 \in 1..Len(calls[t]) /\ Top(t) \in Frames
BY DEF TypeOK, Idle, Top

(* A thread goes on with its innermost frame. *)
LEMMA TopReplaced ==
    ASSUME TypeOK, NEW t \in Threads, ~Idle(t), NEW f \in Frames, Continue(t, <<>>, f)
    PROVE  /\ calls' \in [Threads -> Seq(Frames)]
           /\ Len(calls'[t]) = Len(calls[t])
           /\ calls'[t][1] = f
           /\ \A i \in 2..Len(calls[t]) : calls'[t][i] = calls[t][i]
           /\ \A u \in Threads \ {t} : calls'[u] = calls[u]
<1>1. calls[t] \in Seq(Frames) /\ Len(calls[t]) >= 1 /\ Len(calls[t]) \in Nat
    BY StackTyped
<1>2. /\ Tail(calls[t]) \in Seq(Frames) /\ Len(Tail(calls[t])) = Len(calls[t]) - 1
      /\ \A i \in 1..(Len(calls[t]) - 1) : Tail(calls[t])[i] = calls[t][i + 1]
    BY <1>1
<1> DEFINE new == <<>> \o <<f>> \o Tail(calls[t])
<1>3. new \in Seq(Frames) /\ Len(new) = Len(calls[t]) /\ new[1] = f
      /\ \A i \in 2..Len(calls[t]) : new[i] = calls[t][i]
    BY <1>1, <1>2
<1>4. calls' = [calls EXCEPT ![t] = new] /\ calls \in [Threads -> Seq(Frames)]
    BY DEF Continue, TypeOK
<1> HIDE DEF new
<1>5. QED
    BY <1>3, <1>4

(* A call is made inside it. *)
LEMMA TopCalls ==
    ASSUME TypeOK, NEW t \in Threads, ~Idle(t), NEW g \in Frames, NEW f \in Frames,
           Continue(t, <<g>>, f)
    PROVE  /\ calls' \in [Threads -> Seq(Frames)]
           /\ Len(calls'[t]) = Len(calls[t]) + 1
           /\ calls'[t][1] = g /\ calls'[t][2] = f
           /\ \A i \in 3..(Len(calls[t]) + 1) : calls'[t][i] = calls[t][i - 1]
           /\ \A u \in Threads \ {t} : calls'[u] = calls[u]
<1>1. calls[t] \in Seq(Frames) /\ Len(calls[t]) >= 1 /\ Len(calls[t]) \in Nat
    BY StackTyped
<1>2. /\ Tail(calls[t]) \in Seq(Frames) /\ Len(Tail(calls[t])) = Len(calls[t]) - 1
      /\ \A i \in 1..(Len(calls[t]) - 1) : Tail(calls[t])[i] = calls[t][i + 1]
    BY <1>1
<1> DEFINE new == <<g>> \o <<f>> \o Tail(calls[t])
<1>3. new \in Seq(Frames) /\ Len(new) = Len(calls[t]) + 1 /\ new[1] = g /\ new[2] = f
      /\ \A i \in 3..(Len(calls[t]) + 1) : new[i] = calls[t][i - 1]
    BY <1>1, <1>2
<1>4. calls' = [calls EXCEPT ![t] = new] /\ calls \in [Threads -> Seq(Frames)]
    BY DEF Continue, TypeOK
<1> HIDE DEF new
<1>5. QED
    BY <1>3, <1>4

(* It returns. *)
LEMMA TopReturns ==
    ASSUME TypeOK, NEW t \in Threads, ~Idle(t), Return(t)
    PROVE  /\ calls' \in [Threads -> Seq(Frames)]
           /\ Len(calls'[t]) = Len(calls[t]) - 1
           /\ \A i \in 1..(Len(calls[t]) - 1) : calls'[t][i] = calls[t][i + 1]
           /\ \A u \in Threads \ {t} : calls'[u] = calls[u]
<1>1. calls[t] \in Seq(Frames) /\ Len(calls[t]) >= 1 /\ Len(calls[t]) \in Nat
    BY StackTyped
<1>2. /\ Tail(calls[t]) \in Seq(Frames) /\ Len(Tail(calls[t])) = Len(calls[t]) - 1
      /\ \A i \in 1..(Len(calls[t]) - 1) : Tail(calls[t])[i] = calls[t][i + 1]
    BY <1>1
<1>4. calls' = [calls EXCEPT ![t] = Tail(calls[t])] /\ calls \in [Threads -> Seq(Frames)]
    BY DEF Return, TypeOK
<1>5. QED
    BY <1>2, <1>4

(* A thread that is in no call begins one. *)
LEMMA CallBegins ==
    ASSUME TypeOK, NEW t \in Threads, NEW f \in Frames, calls' = [calls EXCEPT ![t] = <<f>>]
    PROVE  /\ calls' \in [Threads -> Seq(Frames)]
           /\ Len(calls'[t]) = 1 /\ calls'[t][1] = f
           /\ \A u \in Threads \ {t} : calls'[u] = calls[u]
<1>1. <<f>> \in Seq(Frames) /\ Len(<<f>>) = 1 /\ <<f>>[1] = f
    OBVIOUS
<1>2. QED
    BY <1>1 DEF TypeOK

-----------------------------------------------------------------------------
(* Types *)

LEMMA TopIsLive ==
    ASSUME TypeOK, NEW t \in Threads, NEW place \in Places, At(t, place)
    PROVE  /\ ~Idle(t) /\ Top(t) \in Frames /\ Top(t) = calls[t][1]
           /\ Top(t).at = place /\ Top(t).pool \in AllPools /\ Live(Top(t).pool)
           /\ broken = "no" /\ Len(calls[t]) \in Nat /\ Len(calls[t]) >= 1
           /\ Top(t).left \in SUBSET Pools
           /\ Top(t).prev \in Pools \cup {NoPool} /\ Top(t).sibling \in Pools \cup {NoPool}
BY StackTyped DEF At, Frames

LEMMA NewPoolIsUnused ==
    ASSUME Unused # {}
    PROVE  NewPool \in Pools /\ memory[NewPool] = "unused"
BY DEF NewPool, Unused

LEMMA DestroyAtZeroIs ==
    ASSUME TypeOK, NEW q \in AllPools
    PROVE  /\ Frame(q, "destroy") \in Frames
           /\ \/ reference_count[q] = 1 /\ DestroyAtZero(q) = <<Frame(q, "destroy")>>
              \/ reference_count[q] # 1 /\ DestroyAtZero(q) = <<>>
BY FrameIsFrame DEF DestroyAtZero, Places

LEMMA InListHasParent ==
    ASSUME TypeOK, LineageInv, FamilyInv, NEW t \in Threads,
           NEW place \in InList \cup {"parent"}, At(t, place)
    PROVE  /\ Top(t).pool \in Pools /\ parent[Top(t).pool] \in AllPools
           /\ Live(parent[Top(t).pool]) /\ parent[Top(t).pool] \in lineage[Top(t).pool]
<1>1. /\ Top(t) = calls[t][1] /\ 1 \in 1..Len(calls[t]) /\ Top(t).at = place
      /\ Live(Top(t).pool) /\ Top(t).pool \in AllPools
    BY TopIsLive DEF InList, Places
<1>2. parent[Top(t).pool] # NoPool
    BY <1>1 DEF FamilyInv
<1>3. Top(t).pool \in Pools
    BY <1>1, <1>2 DEF LineageInv, AllPools
<1>4. QED
    BY <1>1, <1>2, <1>3 DEF LineageInv, TypeOK, AllPools

LEMMA CreateType ==
    ASSUME TypeOK, NEW t \in Threads, NEW p \in AllPools, Create(t, p)
    PROVE  TypeOK'
<1>1. NewPool \in Pools
    BY NewPoolIsUnused DEF Create
<1>2. Frame(NewPool, "first") \in Frames
    BY <1>1, FrameIsFrame DEF Places, AllPools
<1>3. calls' \in [Threads -> Seq(Frames)]
    BY <1>2, CallBegins DEF Create
<1>4. overlapped' \in BOOLEAN
    BY DEF Create, EnterList, TypeOK
<1>5. QED
    BY <1>1, <1>3, <1>4 DEF Create, Allocates, TypeOK, AllPools, listVars

LEMMA CreateThreadType ==
    ASSUME TypeOK, NEW t \in Threads, CreateThread(t)
    PROVE  TypeOK'
<1>1. NewPool \in Pools
    BY NewPoolIsUnused DEF CreateThread
<1>2. QED
    BY <1>1 DEF CreateThread, Allocates, TypeOK, AllPools, listVars

LEMMA ShareType ==
    ASSUME TypeOK, NEW t \in Threads, NEW p \in Pools, NEW q \in Pools, NEW u \in Threads,
           \/ AddReference(t, u, p)
           \/ RegisterCleanup(t, p, q)
           \/ DeregisterCleanup(t, p, q)
    PROVE  TypeOK'
<1>1. CASE AddReference(t, u, p)
    BY <1>1 DEF AddReference, TypeOK, AllPools, structVars, listVars, history
<1>2. CASE RegisterCleanup(t, p, q)
    BY <1>2 DEF RegisterCleanup, TypeOK, AllPools, listVars, history
<1>3. CASE DeregisterCleanup(t, p, q)
    BY <1>3 DEF DeregisterCleanup, TypeOK, AllPools, listVars, history
<1>4. QED
    BY <1>1, <1>2, <1>3

LEMMA ReleaseType ==
    ASSUME TypeOK, NEW t \in Threads, NEW p \in Pools, Release(t, p)
    PROVE  TypeOK'
<1>1. Frame(p, "destroy") \in Frames
    BY FrameIsFrame DEF Places, AllPools
<1>2. DestroyAtZero(p) \in Seq(Frames)
    <2>1. <<Frame(p, "destroy")>> \in Seq(Frames) /\ <<>> \in Seq(Frames)
        BY <1>1
    <2>2. QED
        BY <2>1, DestroyAtZeroIs DEF AllPools
<1>3. calls' \in [Threads -> Seq(Frames)]
    BY <1>2 DEF Release, TypeOK
<1>4. early' \in BOOLEAN
    BY DEF Release, LetGo, TypeOK
<1>5. QED
    BY <1>3, <1>4 DEF Release, LetGo, Decrement, TypeOK, AllPools, structVars, listVars

LEMMA DestroyType ==
    ASSUME TypeOK, NEW t \in Threads, NEW p \in Pools, Destroy(t, p)
    PROVE  TypeOK'
<1>1. Frame(p, "destroy") \in Frames
    BY FrameIsFrame DEF Places, AllPools
<1>2. calls' \in [Threads -> Seq(Frames)]
    BY <1>1, CallBegins DEF Destroy
<1>3. QED
    BY <1>2 DEF Destroy, TypeOK, structVars, listVars, countVars, history

LEMMA ListType ==
    ASSUME TypeOK, LineageInv, FamilyInv, NEW t \in Threads,
           AddChild(t) \/ LinkChild(t) \/ ChildrenGone(t) \/ Search(t) \/ Unlink(t)
    PROVE  TypeOK'
<1>1. CASE AddChild(t)
    <2>1. At(t, "first")
        BY <1>1 DEF AddChild
    <2>2. [Top(t) EXCEPT !.at = "link"] \in Frames
        BY <2>1, TopIsLive DEF Frames, Places
    <2>3. calls' \in [Threads -> Seq(Frames)]
        BY <1>1, <2>1, <2>2, TopIsLive, TopReplaced DEF AddChild, Places
    <2>4. next_sibling' \in [AllPools -> Pools \cup {NoPool}]
        <3>1. parent[Top(t).pool] \in AllPools
            BY <2>1, InListHasParent DEF InList
        <3>2. QED
            BY <1>1, <3>1 DEF AddChild, TypeOK
    <2>5. QED
        BY <1>1, <2>3, <2>4 DEF AddChild, TypeOK, structVars, countVars, history
<1>2. CASE LinkChild(t)
    <2>1. At(t, "link")
        BY <1>2 DEF LinkChild
    <2>2. calls' \in [Threads -> Seq(Frames)]
        BY <1>2, <2>1, TopIsLive, TopReturns DEF LinkChild, Places
    <2>3. Top(t).pool \in Pools
        BY <2>1, InListHasParent DEF InList
    <2>4. QED
        BY <1>2, <2>2, <2>3 DEF LinkChild, TypeOK, structVars, countVars, history
<1>3. CASE ChildrenGone(t)
    <2>1. At(t, "destroy")
        BY <1>3 DEF ChildrenGone, InChildren
    <2> DEFINE up == parent[Top(t).pool]
    <2>2. up \in AllPools \cup {NoPool}
        BY <2>1, TopIsLive DEF TypeOK, AllPools, Places
    <2>3. CASE up = NoPool
        <3>1. [Top(t) EXCEPT !.at = "free"] \in Frames
            BY <2>1, TopIsLive DEF Frames, Places
        <3>2. calls' \in [Threads -> Seq(Frames)]
            BY <1>3, <2>1, <2>3, <3>1, TopIsLive, TopReplaced DEF ChildrenGone, Places
        <3>3. QED
            BY <1>3, <2>3, <3>2 DEF ChildrenGone, TypeOK, structVars, listVars, countVars
    <2>4. CASE up # NoPool
        <3>1. [Top(t) EXCEPT !.at = "search", !.sibling = first_child[up]] \in Frames
            BY <2>1, <2>2, <2>4, TopIsLive DEF Frames, Places, TypeOK
        <3>2. calls' \in [Threads -> Seq(Frames)]
            BY <1>3, <2>1, <2>4, <3>1, TopIsLive, TopReplaced DEF ChildrenGone, Places
        <3>3. overlapped' \in BOOLEAN
            BY <1>3, <2>4 DEF ChildrenGone, EnterList, TypeOK
        <3>4. QED
            BY <1>3, <3>2, <3>3 DEF ChildrenGone, TypeOK, structVars, listVars, countVars
    <2>5. QED
        BY <2>3, <2>4
<1>4. CASE Search(t)
    <2>1. At(t, "search")
        BY <1>4 DEF Search
    <2> DEFINE f == Top(t)
               g == IF f.sibling = f.pool
                    THEN [f EXCEPT !.at = "unlink", !.sibling = next_sibling[f.pool]]
                    ELSE [f EXCEPT !.prev = f.sibling, !.sibling = next_sibling[f.sibling]]
    <2>2. f.sibling \in Pools /\ f.pool \in Pools /\ Continue(t, <<>>, g) /\ f \in Frames
        BY <1>4, <2>1, TopIsLive, InListHasParent DEF Search, Places, InList
    <2>3. /\ next_sibling[f.pool] \in Pools \cup {NoPool}
          /\ next_sibling[f.sibling] \in Pools \cup {NoPool}
        BY <2>2 DEF TypeOK, AllPools
    <2>4. g \in Frames
        BY <2>2, <2>3 DEF Frames, Places
    <2>5. calls' \in [Threads -> Seq(Frames)]
        <3> HIDE DEF g
        <3>1. QED
            BY <2>1, <2>2, <2>4, TopIsLive, TopReplaced DEF Places
    <2>6. QED
        BY <1>4, <2>5 DEF Search, TypeOK, structVars, listVars, countVars, history
<1>5. CASE Unlink(t)
    <2>1. At(t, "unlink")
        BY <1>5 DEF Unlink
    <2> DEFINE f == Top(t)
               g == [f EXCEPT !.at = "parent", !.prev = NoPool, !.sibling = NoPool]
    <2>2. f.sibling \in Pools \cup {NoPool} /\ Continue(t, <<>>, g) /\ f \in Frames
        BY <1>5, <2>1, TopIsLive DEF Unlink, Places
    <2>3. g \in Frames
        BY <2>2 DEF Frames, Places
    <2>4. calls' \in [Threads -> Seq(Frames)]
        <3> HIDE DEF g
        <3>1. QED
            BY <2>1, <2>2, <2>3, TopIsLive, TopReplaced DEF Places
    <2>5. /\ first_child' \in [AllPools -> Pools \cup {NoPool}]
          /\ next_sibling' \in [AllPools -> Pools \cup {NoPool}]
        BY <1>5, <2>2 DEF Unlink, TypeOK
    <2>6. QED
        BY <1>5, <2>4, <2>5 DEF Unlink, TypeOK, structVars, countVars, history
<1>6. QED
    BY <1>1, <1>2, <1>3, <1>4, <1>5

LEMMA DestroyStepType ==
    ASSUME TypeOK, LineageInv, FamilyInv, NEW t \in Threads,
           RunCleanup(t) \/ DestroyChild(t) \/ ReleaseParent(t) \/ Free(t)
    PROVE  TypeOK'
<1>1. CASE RunCleanup(t)
    <2>1. At(t, "destroy")
        BY <1>1 DEF RunCleanup
    <2>2. PICK q \in Top(t).left :
              /\ Decrement(q) /\ LetGo(Top(t).pool, q)
              /\ Continue(t, DestroyAtZero(q), [Top(t) EXCEPT !.left = @ \ {q}])
        BY <1>1 DEF RunCleanup
    <2>3. q \in AllPools /\ [Top(t) EXCEPT !.left = @ \ {q}] \in Frames
        BY <2>1, TopIsLive DEF Frames, Places, AllPools
    <2>5. calls' \in [Threads -> Seq(Frames)]
        BY <2>1, <2>2, <2>3, DestroyAtZeroIs, TopIsLive, TopReplaced, TopCalls DEF Places
    <2>6. early' \in BOOLEAN
        BY <2>2 DEF LetGo, TypeOK
    <2>7. users' \in [AllPools -> SUBSET (Threads \cup AllPools)]
        BY <2>2, <2>3 DEF LetGo, TypeOK
    <2>8. UNCHANGED <<structVars, listVars, broken, overlapped>>
        BY <1>1 DEF RunCleanup
    <2>9. reference_count' \in [AllPools -> Int]
        BY <2>2, <2>3 DEF Decrement, TypeOK
    <2>10. QED
        BY <2>5, <2>6, <2>7, <2>8, <2>9 DEF TypeOK, structVars, listVars
<1>2. CASE DestroyChild(t)
    <2>1. At(t, "destroy")
        BY <1>2 DEF DestroyChild, InChildren
    <2> DEFINE child == first_child[Top(t).pool]
    <2>2. child \in Pools /\ Continue(t, <<Frame(child, "destroy")>>, Top(t))
        BY <1>2, <2>1, TopIsLive DEF DestroyChild, TypeOK, AllPools, Places
    <2>3. Frame(child, "destroy") \in Frames
        BY <2>2, FrameIsFrame DEF Places, AllPools
    <2>4. calls' \in [Threads -> Seq(Frames)]
        BY <2>1, <2>2, <2>3, TopIsLive, TopCalls DEF Places
    <2>5. QED
        BY <1>2, <2>4 DEF DestroyChild, TypeOK, structVars, listVars, countVars, history
<1>3. CASE ReleaseParent(t)
    <2>1. At(t, "parent")
        BY <1>3 DEF ReleaseParent
    <2> DEFINE up == parent[Top(t).pool]
    <2>2. [Top(t) EXCEPT !.at = "free"] \in Frames
        BY <2>1, TopIsLive DEF Frames, Places
    <2>3. up \in AllPools
        BY <2>1, InListHasParent
    <2>4. calls' \in [Threads -> Seq(Frames)]
        BY <1>3, <2>1, <2>2, <2>3, DestroyAtZeroIs, TopIsLive, TopReplaced, TopCalls
           DEF Places, ReleaseParent
    <2>5. QED
        BY <1>3, <2>3, <2>4 DEF ReleaseParent, Decrement, TypeOK, structVars, listVars, history
<1>4. CASE Free(t)
    <2>1. At(t, "free")
        BY <1>4 DEF Free
    <2>2. calls' \in [Threads -> Seq(Frames)]
        BY <1>4, <2>1, TopIsLive, TopReturns DEF Free, Places
    <2>3. QED
        BY <1>4, <2>2 DEF Free, TypeOK, AllPools, history
<1>5. QED
    BY <1>1, <1>2, <1>3, <1>4

-----------------------------------------------------------------------------
(* Lineage *)

LEMMA LineageKept ==
    ASSUME LineageInv, UNCHANGED <<memory, lineage, parent>>
    PROVE  LineageInv'
BY DEF LineageInv, Live, Children

LEMMA LineageCreated ==
    ASSUME TypeOK, LineageInv, UnusedInv, NEW c \in Pools, memory[c] = "unused",
           NEW p \in AllPools \cup {NoPool}, p # NoPool => Live(p),
           memory' = [memory EXCEPT ![c] = "live"],
           lineage' = [lineage EXCEPT ![c] = IF p = NoPool THEN {c} ELSE lineage[p] \cup {c}],
           parent' = [parent EXCEPT ![c] = p]
    PROVE  LineageInv'
<1> USE DEF AllPools
<1>1. \A q \in Pools : Live(q)' <=> Live(q) \/ q = c
    BY DEF Live, TypeOK
<1>2. \A q \in AllPools : q # c => lineage'[q] = lineage[q] /\ parent'[q] = parent[q]
    BY DEF TypeOK
<1>3. parent'[c] = p /\ lineage'[c] = IF p = NoPool THEN {c} ELSE lineage[p] \cup {c}
    BY DEF TypeOK
<1>4. \A q \in Pools : Live(q) => c \notin lineage[q]
    BY DEF LineageInv, Live
<1>5. p # c
    BY DEF Live, TypeOK
<1>6. \A a \in AllPools : Children(a) \subseteq Children(a)'
    <2>1. ~ Live(c)
        BY DEF Live
    <2>2. QED
        BY <1>1, <1>2, <2>1 DEF Children
<1>7. p # NoPool => c \in Children(p)'
    BY <1>1, <1>3 DEF Children
<1>8. Live(Base)' /\ (lineage[Base] = {Base})' /\ (parent[Base] = NoPool)'
    BY DEF LineageInv, Live, TypeOK
<1>12. ASSUME NEW q \in Pools, Live(q)', NEW a \in lineage'[q], NEW b \in lineage'[q]
       PROVE  a \in lineage'[b] \/ b \in lineage'[a]
    <2>1. CASE q # c
        <3>1. lineage'[q] = lineage[q] /\ a # c /\ b # c /\ a \in AllPools /\ b \in AllPools
            BY <1>1, <1>2, <1>4, <1>12, <2>1 DEF TypeOK
        <3>2. a \in lineage[b] \/ b \in lineage[a]
            BY <1>1, <1>12, <2>1, <3>1 DEF LineageInv
        <3>3. QED
            BY <3>1, <3>2, <1>2
    <2>2. CASE q = c /\ (a = c \/ b = c)
        BY <2>2, <1>12
    <2>3. CASE q = c /\ a # c /\ b # c
        <3>1. p # NoPool /\ a \in lineage[p] /\ b \in lineage[p] /\ a \in AllPools /\ b \in AllPools
            BY <1>3, <1>12, <2>3 DEF TypeOK
        <3>2. a \in lineage[b] \/ b \in lineage[a]
            BY <3>1 DEF LineageInv
        <3>3. QED
            BY <3>1, <3>2, <2>3, <1>2
    <2>4. QED
        BY <2>1, <2>2, <2>3
<1>9. /\ p # NoPool => /\ p \in lineage[p]
                       /\ \A a \in lineage[p] :
                             /\ Live(a) /\ lineage[a] \subseteq lineage[p]
                             /\ a # p => p \notin lineage[a] /\ \E d \in Children(a) : d \in lineage[p]
    BY DEF LineageInv
<1>10. ASSUME NEW q \in Pools, Live(q)'
       PROVE  /\ q \in lineage'[q]
              /\ parent'[q] # NoPool =>
                    /\ parent'[q] \in lineage'[q] /\ parent'[q] # q
                    /\ lineage'[q] = lineage'[parent'[q]] \cup {q}
              /\ \A a \in lineage'[q] :
                    /\ Live(a)' /\ lineage'[a] \subseteq lineage'[q]
                    /\ a # q => q \notin lineage'[a] /\ \E d \in Children(a)' : d \in lineage'[q]
    <2>1. CASE q # c
        <3>1. Live(q) /\ lineage'[q] = lineage[q] /\ parent'[q] = parent[q]
            BY <1>1, <1>2, <2>1, <1>10
        <3>2. \A a \in lineage[q] : a \in AllPools /\ Live(a) /\ a # c
            BY <3>1, <1>4 DEF LineageInv, TypeOK
        <3>3. \A a \in lineage[q] : lineage'[a] = lineage[a] /\ Live(a)'
            BY <3>2, <1>1, <1>2, <1>8
        <3>4. parent[q] # NoPool => parent[q] \in lineage[q]
            BY <3>1 DEF LineageInv
        <3>5. QED
            BY <3>1, <3>2, <3>3, <3>4, <1>6 DEF LineageInv
    <2>2. CASE q = c
        <3>1. CASE p = NoPool
            BY <2>2, <3>1, <1>1, <1>3
        <3>2. CASE p # NoPool
            <4>1. \A a \in lineage[p] : a \in AllPools /\ Live(a) /\ a # c
                <5>1. c \notin lineage[p]
                    BY <3>2, <1>4, <1>5 DEF LineageInv
                <5>2. QED
                    BY <3>2, <1>9, <5>1 DEF TypeOK
            <4>2. \A a \in lineage[p] : lineage'[a] = lineage[a] /\ Live(a)'
                BY <4>1, <1>1, <1>2, <1>8
            <4>3. /\ lineage'[c] = lineage[p] \cup {c} /\ parent'[c] = p
                BY <1>3, <3>2
            <4>4. \A a \in lineage[p] : c \notin lineage[a]
                BY <1>9, <3>2, <4>1
            <4>5. ASSUME NEW a \in lineage[p]
                  PROVE  \E d \in Children(a)' : d \in lineage'[c]
                <5>1. CASE a = p
                    BY <5>1, <1>7, <3>2, <4>3
                <5>2. CASE a # p
                    BY <5>2, <1>9, <1>6, <3>2, <4>1, <4>3
                <5>3. QED
                    BY <5>1, <5>2
            <4>6. p \in lineage[p]
                BY <1>9, <3>2
            <4>7. \A a \in lineage[p] : lineage[a] \subseteq lineage[p]
                BY <1>9, <3>2
            <4>8. Live(c)'
                BY <1>1
            <4>9. lineage'[p] = lineage[p]
                BY <1>2, <1>5, <3>2
            <4>10. QED
                BY <2>2, <1>5, <4>2, <4>3, <4>4, <4>5, <4>6, <4>7, <4>8, <4>9
        <3>3. QED
            BY <3>1, <3>2
    <2>3. QED
        BY <2>1, <2>2
<1>11. QED
    BY <1>8, <1>10, <1>12 DEF LineageInv

(* What is freed with p, and what is left. *)
LEMMA WhatIsFreed ==
    ASSUME TypeOK, LineageInv, NEW t \in Threads, Free(t)
    PROVE  LET p == Top(t).pool
           IN  /\ p \in AllPools /\ Live(p)
               /\ \A q \in AllPools : Live(q)' <=> Live(q) /\ q \notin Under(p)
               /\ \A q \in AllPools : q \notin Under(p) =>
                     /\ parent'[q] = parent[q] /\ first_child'[q] = first_child[q]
                     /\ next_sibling'[q] = next_sibling[q] /\ users'[q] = users[q]
                     /\ first_cleanup'[q] = first_cleanup[q]
                     /\ reference_count'[q] = reference_count[q] /\ memory'[q] = memory[q]
               /\ \A q \in Under(p) :
                     /\ memory'[q] = "freed"
                     /\ parent'[q] = NoPool /\ first_child'[q] = NoPool
                     /\ next_sibling'[q] = NoPool /\ parent'[q] = NoPool /\ users'[q] = {} /\ first_cleanup'[q] = {}
               /\ lineage' = lineage
               /\ Under(p) \subseteq Pools /\ \A q \in Under(p) : Live(q) /\ p \in lineage[q]
               /\ p \in Pools => p \in Under(p)
<1>1. At(t, "free")
    BY DEF Free
<1>2. Top(t).pool \in AllPools /\ Live(Top(t).pool)
    BY <1>1, TopIsLive DEF Places
<1>3. QED
    BY <1>2 DEF Free, Under, Live, TypeOK, AllPools, LineageInv

LEMMA LineageFreed ==
    ASSUME TypeOK, LineageInv, NEW t \in Threads, Free(t)
    PROVE  LineageInv'
<1> USE DEF AllPools
<1> DEFINE p == Top(t).pool
<1>1. /\ p \in AllPools /\ Live(p)
      /\ \A q \in AllPools : Live(q)' <=> Live(q) /\ q \notin Under(p)
      /\ \A q \in AllPools : q \notin Under(p) => parent'[q] = parent[q]
      /\ lineage' = lineage /\ Under(p) \subseteq Pools
    BY WhatIsFreed
<1> HIDE DEF p
<1>2. Live(Base)' /\ (lineage[Base] = {Base})' /\ (parent[Base] = NoPool)'
    BY <1>1 DEF LineageInv
<1>3. ASSUME NEW q \in Pools, Live(q)'
      PROVE  /\ q \in lineage'[q]
             /\ parent'[q] # NoPool =>
                   /\ parent'[q] \in lineage'[q] /\ parent'[q] # q
                   /\ lineage'[q] = lineage'[parent'[q]] \cup {q}
             /\ \A a \in lineage'[q] :
                   /\ Live(a)' /\ lineage'[a] \subseteq lineage'[q]
                   /\ a # q => q \notin lineage'[a] /\ \E d \in Children(a)' : d \in lineage'[q]
    <2>1. Live(q) /\ q \notin Under(p) /\ p \notin lineage[q]
        BY <1>1, <1>3 DEF Under
    <2>2. \A a \in lineage[q] : a \in AllPools /\ Live(a) /\ p \notin lineage[a]
        BY <2>1 DEF LineageInv, TypeOK
    <2>3. \A a \in lineage[q] : Live(a)' /\ a \notin Under(p)
        BY <2>2, <1>1 DEF Under
    <2>4. \A a \in lineage[q] : a # q => \E d \in Children(a)' : d \in lineage[q]
        <3>1. SUFFICES ASSUME NEW a \in lineage[q], a # q
                       PROVE  \E d \in Children(a)' : d \in lineage[q]
            OBVIOUS
        <3>2. PICK d \in Children(a) : d \in lineage[q]
            BY <2>1, <3>1 DEF LineageInv
        <3>3. d \in Children(a)'
            BY <3>2, <2>3, <1>1 DEF Children
        <3>4. QED
            BY <3>2, <3>3
    <2>5. QED
        BY <2>1, <2>3, <2>4, <1>1 DEF LineageInv
<1>4. ASSUME NEW q \in Pools, Live(q)', NEW a \in lineage'[q], NEW b \in lineage'[q]
      PROVE  a \in lineage'[b] \/ b \in lineage'[a]
    BY <1>1, <1>4 DEF LineageInv
<1>5. QED
    BY <1>2, <1>3, <1>4 DEF LineageInv

-----------------------------------------------------------------------------
(* Names: what frames and links refer to *)

(* A frame after a step is one from before it, or one of these. *)
NewFrames(N) ==
    \A u \in Threads : \A i \in 1..Len(calls'[u]) :
        calls'[u][i] \in N \/ \E k \in 1..Len(calls[u]) : calls'[u][i] = calls[u][k]

LEMMA FramesReplaced ==
    ASSUME TypeOK, NEW t \in Threads, ~Idle(t), NEW f \in Frames, Continue(t, <<>>, f)
    PROVE  NewFrames({f})
<1>1. Len(calls[t]) \in Nat
    BY StackTyped
<1>2. QED
    BY <1>1, TopReplaced DEF NewFrames

LEMMA FramesCalled ==
    ASSUME TypeOK, NEW t \in Threads, ~Idle(t), NEW g \in Frames, NEW f \in Frames,
           Continue(t, <<g>>, f)
    PROVE  NewFrames({f, g})
<1>1. Len(calls[t]) \in Nat
    BY StackTyped
<1>2. ASSUME NEW i \in 1..(Len(calls[t]) + 1)
      PROVE  calls'[t][i] \in {f, g} \/ \E k \in 1..Len(calls[t]) : calls'[t][i] = calls[t][k]
    <2>1. i = 1 \/ i = 2 \/ (i \in 3..(Len(calls[t]) + 1) /\ i - 1 \in 1..Len(calls[t]))
        BY <1>1
    <2>2. QED
        BY <2>1, TopCalls
<1>3. Len(calls'[t]) = Len(calls[t]) + 1 /\ \A u \in Threads \ {t} : calls'[u] = calls[u]
    BY TopCalls
<1>4. QED
    BY <1>2, <1>3 DEF NewFrames

LEMMA FramesReturned ==
    ASSUME TypeOK, NEW t \in Threads, ~Idle(t), Return(t)
    PROVE  NewFrames({})
<1>1. Len(calls[t]) \in Nat
    BY StackTyped
<1>2. \A i \in 1..(Len(calls[t]) - 1) : i + 1 \in 1..Len(calls[t])
    BY <1>1
<1>3. QED
    BY <1>2, TopReturns DEF NewFrames

LEMMA FramesBegun ==
    ASSUME TypeOK, NEW t \in Threads, NEW f \in Frames, calls' = [calls EXCEPT ![t] = <<f>>]
    PROVE  NewFrames({f})
BY CallBegins DEF NewFrames

LEMMA FramesKept ==
    ASSUME calls' = calls
    PROVE  NewFrames({})
BY DEF NewFrames

Names(f) == {f.pool, f.prev, f.sibling} \cup f.left

LEMMA UnusedFrames ==
    ASSUME UnusedInv, Unused' \subseteq Unused, NEW N, NewFrames(N),
           \A f \in N : \A p \in Unused' : p \notin Names(f)
    PROVE  \A p \in Unused' : \A t \in Threads : \A i \in 1..Len(calls'[t]) :
              p \notin Names(calls'[t][i])
BY DEF UnusedInv, NewFrames, Names

LEMMA UnusedStep ==
    ASSUME UnusedInv, memory' = memory, NEW N, NewFrames(N),
           \A f \in N : \A p \in Unused : p \notin Names(f),
           \A p \in Unused :
               /\ parent'[p] = NoPool /\ users'[p] = {} /\ first_cleanup'[p] = {}
               /\ first_child'[p] = NoPool /\ next_sibling'[p] = NoPool
               /\ \A q \in AllPools :
                     /\ p \notin {parent'[q], first_child'[q], next_sibling'[q]}
                     /\ p \notin users'[q] \cup first_cleanup'[q]
    PROVE  UnusedInv'
<1>1. Unused' = Unused
    BY DEF Unused
<1>2. \A p \in Unused' : \A t \in Threads : \A i \in 1..Len(calls'[t]) :
          p \notin Names(calls'[t][i])
    BY <1>1, UnusedFrames
<1>3. QED
    BY <1>1, <1>2 DEF UnusedInv, Names

LEMMA UnusedIs ==
    ASSUME TypeOK, UnusedInv, NEW p \in Unused
    PROVE  /\ p \in Pools /\ p \in AllPools /\ p # NoPool /\ p # Base /\ p \notin Threads /\ ~Live(p)
           /\ parent[p] = NoPool /\ users[p] = {} /\ first_cleanup[p] = {}
           /\ first_child[p] = NoPool /\ next_sibling[p] = NoPool
           /\ \A q \in AllPools :
                 /\ p # parent[q] /\ p # first_child[q] /\ p # next_sibling[q]
                 /\ p \notin users[q] /\ p \notin first_cleanup[q]
           /\ \A t \in Threads : \A i \in 1..Len(calls[t]) : p \notin Names(calls[t][i])
BY DEF UnusedInv, Unused, Live, AllPools, Names

(* The names of the frames that a step begins or goes on with are in use. *)
LEMMA UnusedFrame ==
    ASSUME TypeOK, UnusedInv, NEW p \in Unused, NEW q \in AllPools, Live(q), NEW place \in Places
    PROVE  p \notin Names(Frame(q, place))
BY UnusedIs, FrameIsFrame DEF Names

LEMMA UnusedTop ==
    ASSUME TypeOK, UnusedInv, NEW p \in Unused, NEW t \in Threads, ~Idle(t)
    PROVE  p \notin Names(Top(t)) /\ Top(t) \in Frames
BY UnusedIs, StackTyped

FamilyOf(f) ==
    /\ Siblings(f.pool, f.sibling) /\ Siblings(f.pool, f.prev)
    /\ f.at \in InList \cup {"parent"} /\ Live(f.pool) => parent[f.pool] # NoPool

LEMMA FamilyOfTop ==
    ASSUME TypeOK, FamilyInv, NEW t \in Threads, ~Idle(t)
    PROVE  FamilyOf(Top(t))
BY StackTyped DEF FamilyInv, FamilyOf

LEMMA FamilyStep ==
    ASSUME TypeOK, FamilyInv, NEW N, NewFrames(N), UNCHANGED <<memory, parent>>,
           \A f \in N : FamilyOf(f),
           \A p \in AllPools, c \in Pools :
               first_child'[p] = c /\ Live(c) => first_child[p] = c \/ parent[c] = p,
           \A c \in Pools :
               next_sibling'[c] = next_sibling[c] \/ Siblings(c, next_sibling'[c])
    PROVE  FamilyInv'
<1>1. \A p : Live(p)' <=> Live(p)
    BY DEF Live
<1>2. \A c, d : Siblings(c, d) <=> (c \in Pools /\ d \in Pools /\ Live(c)' /\ Live(d)' => parent'[c] = parent'[d])
    BY <1>1 DEF Siblings
<1>3. \A p \in AllPools, c \in Pools : first_child'[p] = c /\ Live(c)' => parent'[c] = p
    BY <1>1 DEF FamilyInv
<1>4. \A c \in Pools : Siblings(c, next_sibling'[c])
    BY DEF FamilyInv
<1>5. \A t \in Threads : \A i \in 1..Len(calls'[t]) : FamilyOf(calls'[t][i])
    BY DEF FamilyInv, NewFrames, FamilyOf
<1>6. QED
    BY <1>1, <1>2, <1>3, <1>4, <1>5 DEF FamilyInv, FamilyOf, Siblings

-----------------------------------------------------------------------------
(* What holds whatever has happened to the tree. *)

TreeInv == TypeOK /\ LineageInv /\ UnusedInv /\ FamilyInv

LEMMA UsesLive ==
    ASSUME NEW t \in Threads, NEW p, Uses(t, p)
    PROVE  Live(p) /\ Idle(t) /\ broken = "no"
BY DEF Uses

(* A new pool, with its frame or without *)
LEMMA UnusedCreated ==
    ASSUME TypeOK, UnusedInv, NEW c \in Unused, NEW p \in AllPools \cup {NoPool}, NEW t \in Threads,
           p # NoPool => Live(p),
           NewFrames({Frame(c, "first")}),
           memory' = [memory EXCEPT ![c] = "live"],
           parent' = [parent EXCEPT ![c] = p],
           users' = [users EXCEPT ![c] = {t}],
           UNCHANGED <<first_cleanup, first_child, next_sibling>>
    PROVE  UnusedInv'
<1>1. Unused' = Unused \ {c}
    BY DEF Unused, TypeOK, AllPools
<1>2. Names(Frame(c, "first")) = {c, NoPool}
    BY UnusedIs, FrameIsFrame DEF Names, Places
<1>3. \A q \in Unused' : q \notin Names(Frame(c, "first"))
    BY <1>1, <1>2, UnusedIs
<1>4. \A q \in Unused' : \A u \in Threads : \A i \in 1..Len(calls'[u]) : q \notin Names(calls'[u][i])
    BY <1>1, <1>3, UnusedFrames
<1>5. \A q \in Unused' :
        /\ parent'[q] = NoPool /\ users'[q] = {} /\ first_cleanup'[q] = {}
        /\ first_child'[q] = NoPool /\ next_sibling'[q] = NoPool
        /\ \A a \in AllPools :
              /\ q \notin {parent'[a], first_child'[a], next_sibling'[a]}
              /\ q \notin users'[a] \cup first_cleanup'[a]
    <2>1. SUFFICES ASSUME NEW q \in Unused'
                   PROVE  /\ parent'[q] = NoPool /\ users'[q] = {} /\ first_cleanup'[q] = {}
                          /\ first_child'[q] = NoPool /\ next_sibling'[q] = NoPool
                          /\ \A a \in AllPools :
                                /\ q \notin {parent'[a], first_child'[a], next_sibling'[a]}
                                /\ q \notin users'[a] \cup first_cleanup'[a]
        OBVIOUS
    <2>2. q \in Unused /\ q # c /\ q \in AllPools /\ c \in AllPools /\ ~Live(q) /\ q # NoPool /\ q \notin Threads
        BY <1>1, UnusedIs
    <2>3. q # p
        BY <2>2
    <2>4. \A a \in AllPools : parent'[a] = (IF a = c THEN p ELSE parent[a])
                              /\ users'[a] = (IF a = c THEN {t} ELSE users[a])
        BY <2>2 DEF TypeOK
    <2>5. QED
        BY <2>2, <2>3, <2>4, UnusedIs
<1>6. QED
    BY <1>4, <1>5 DEF UnusedInv, Names

LEMMA FamilyCreated ==
    ASSUME TypeOK, UnusedInv, FamilyInv, NEW c \in Unused, NEW p \in AllPools \cup {NoPool},
           \/ p # NoPool /\ NewFrames({Frame(c, "first")})
           \/ NewFrames({}),
           memory' = [memory EXCEPT ![c] = "live"],
           parent' = [parent EXCEPT ![c] = p],
           UNCHANGED <<first_child, next_sibling>>
    PROVE  FamilyInv'
<1>1. /\ c \in Pools /\ c # NoPool /\ c \in AllPools /\ Frame(c, "first").pool = c
      /\ Frame(c, "first").prev = NoPool /\ Frame(c, "first").sibling = NoPool
      /\ Frame(c, "first").at = "first"
    BY UnusedIs, FrameIsFrame DEF Places
<1>2. \A q \in AllPools \ {c} : (Live(q)' <=> Live(q)) /\ parent'[q] = parent[q]
    BY <1>1 DEF TypeOK, Live
<1>3. parent'[c] = p
    BY <1>1 DEF TypeOK
<1>4. ASSUME NEW a, NEW b, a # c, b # c, Siblings(a, b)
      PROVE  Siblings(a, b)'
    BY <1>2, <1>4 DEF Siblings, AllPools
<1>5. ASSUME NEW a \in AllPools, NEW b \in Pools, first_child'[a] = b, Live(b)'
      PROVE  parent'[b] = a
    <2>1. b # c
        BY <1>5, UnusedIs
    <2>2. QED
        BY <1>5, <2>1, <1>2 DEF FamilyInv, AllPools
<1>6. ASSUME NEW a \in Pools
      PROVE  Siblings(a, next_sibling[a])'
    <2>1. next_sibling[a] # c
        BY UnusedIs DEF AllPools
    <2>2. CASE a = c
        <3>1. next_sibling[a] = NoPool
            BY <2>2, UnusedIs
        <3>2. QED
            BY <3>1, <1>6 DEF Siblings
    <2>3. CASE a # c
        BY <2>1, <2>3, <1>4 DEF FamilyInv
    <2>4. QED
        BY <2>2, <2>3
<1>7. ASSUME NEW u \in Threads, NEW i \in 1..Len(calls'[u]), NEW f, f = calls'[u][i]
      PROVE  FamilyOf(f)'
    <2>1. CASE p # NoPool /\ f = Frame(c, "first")
        <3>1. f.prev \notin Pools /\ f.sibling \notin Pools /\ parent'[f.pool] # NoPool
            BY <2>1, <1>1, <1>3
        <3>2. QED
            BY <3>1 DEF FamilyOf, Siblings
    <2>2. CASE \E k \in 1..Len(calls[u]) : f = calls[u][k]
        <3>1. PICK k \in 1..Len(calls[u]) : f = calls[u][k]
            BY <2>2
        <3>2. f \in Frames /\ c \notin Names(f)
            BY <3>1, UnusedIs, StackTyped
        <3>3. f.pool \in AllPools /\ f.pool # c /\ f.sibling # c /\ f.prev # c
            BY <3>2 DEF Frames, Names
        <3>4. FamilyOf(f)
            BY <3>1 DEF FamilyInv, FamilyOf
        <3>5. Siblings(f.pool, f.sibling)' /\ Siblings(f.pool, f.prev)'
            BY <3>3, <3>4, <1>4 DEF FamilyOf
        <3>6. QED
            BY <3>3, <3>4, <3>5, <1>2 DEF FamilyOf
    <2>3. QED
        BY <1>7, <2>1, <2>2 DEF NewFrames
<1>8. \A u \in Threads : \A i \in 1..Len(calls'[u]) : FamilyOf(calls[u][i])'
    BY <1>7
<1>9. QED
    BY <1>5, <1>6, <1>8 DEF FamilyInv, FamilyOf

LEMMA CreateTree ==
    ASSUME TreeInv, NEW t \in Threads, NEW p \in AllPools, Create(t, p)
    PROVE  TreeInv'
<1> USE DEF TreeInv
<1>1. NewPool \in Unused /\ NewPool \in Pools /\ memory[NewPool] = "unused" /\ Live(p)
    BY NewPoolIsUnused, UsesLive DEF Create, Unused
<1>2. TypeOK'
    BY CreateType
<1>3. /\ memory' = [memory EXCEPT ![NewPool] = "live"]
      /\ lineage' = [lineage EXCEPT ![NewPool] = lineage[p] \cup {NewPool}]
      /\ parent' = [parent EXCEPT ![NewPool] = p]
      /\ users' = [users EXCEPT ![NewPool] = {t}]
      /\ UNCHANGED <<first_cleanup, first_child, next_sibling>>
      /\ calls' = [calls EXCEPT ![t] = <<Frame(NewPool, "first")>>]
    BY DEF Create, Allocates, listVars
<1>4. p # NoPool
    BY DEF AllPools
<1>5. LineageInv'
    BY <1>1, <1>3, <1>4, LineageCreated
<1>6. NewFrames({Frame(NewPool, "first")})
    BY <1>1, <1>3, FramesBegun, FrameIsFrame DEF AllPools, Places
<1>7. UnusedInv'
    BY <1>1, <1>3, <1>6, UnusedCreated
<1>8. FamilyInv'
    BY <1>1, <1>3, <1>4, <1>6, FamilyCreated
<1>9. QED
    BY <1>2, <1>5, <1>7, <1>8

LEMMA CreateThreadTree ==
    ASSUME TreeInv, NEW t \in Threads, CreateThread(t)
    PROVE  TreeInv'
<1> USE DEF TreeInv
<1>1. NewPool \in Unused /\ NewPool \in Pools /\ memory[NewPool] = "unused"
    BY NewPoolIsUnused DEF CreateThread, Unused
<1>2. TypeOK'
    BY CreateThreadType
<1>3. /\ memory' = [memory EXCEPT ![NewPool] = "live"]
      /\ lineage' = [lineage EXCEPT ![NewPool] = {} \cup {NewPool}]
      /\ parent' = parent
      /\ users' = [users EXCEPT ![NewPool] = {t}]
      /\ UNCHANGED <<first_cleanup, first_child, next_sibling>>
      /\ calls' = calls
    BY DEF CreateThread, Allocates, listVars
<1>4. {} \cup {NewPool} = {NewPool}
    OBVIOUS
<1>5. parent[NewPool] = NoPool
    BY <1>1 DEF UnusedInv
<1>6. parent' = [parent EXCEPT ![NewPool] = NoPool]
    BY <1>1, <1>3, <1>5 DEF TypeOK, AllPools
<1>7. LineageInv'
    <2>1. lineage' = [lineage EXCEPT ![NewPool] = IF NoPool = NoPool THEN {NewPool}
                                                 ELSE lineage[NoPool] \cup {NewPool}]
        BY <1>3, <1>4
    <2>2. QED
        BY <1>1, <1>3, <1>6, <2>1, LineageCreated
<1>8. NewFrames({})
    BY <1>3, FramesKept
<1>9. NewFrames({Frame(NewPool, "first")})
    BY <1>8 DEF NewFrames
<1>10. UnusedInv'
    BY <1>1, <1>3, <1>6, <1>9, UnusedCreated
<1>11. FamilyInv'
    BY <1>1, <1>3, <1>6, <1>8, FamilyCreated
<1>12. QED
    BY <1>2, <1>7, <1>10, <1>11

LEMMA TreeKept ==
    ASSUME TreeInv, TypeOK', UNCHANGED <<memory, lineage, parent>>,
           NEW N, NewFrames(N),
           \A f \in N : FamilyOf(f) /\ \A p \in Unused : p \notin Names(f),
           \A p \in Unused :
               /\ users'[p] = {} /\ first_cleanup'[p] = {}
               /\ first_child'[p] = NoPool /\ next_sibling'[p] = NoPool
               /\ \A q \in AllPools :
                     /\ p # first_child'[q] /\ p # next_sibling'[q]
                     /\ p \notin users'[q] /\ p \notin first_cleanup'[q],
           \A p \in AllPools, c \in Pools :
               first_child'[p] = c /\ Live(c) => first_child[p] = c \/ parent[c] = p,
           \A c \in Pools :
               next_sibling'[c] = next_sibling[c] \/ Siblings(c, next_sibling'[c])
    PROVE  TreeInv'
<1> USE DEF TreeInv
<1>1. LineageInv'
    BY LineageKept
<1>2. UnusedInv'
    <2>1. \A p \in Unused :
               /\ parent'[p] = NoPool /\ users'[p] = {} /\ first_cleanup'[p] = {}
               /\ first_child'[p] = NoPool /\ next_sibling'[p] = NoPool
               /\ \A q \in AllPools :
                     /\ p \notin {parent'[q], first_child'[q], next_sibling'[q]}
                     /\ p \notin users'[q] \cup first_cleanup'[q]
        BY UnusedIs
    <2>2. QED
        BY <2>1, UnusedStep
<1>3. FamilyInv'
    BY FamilyStep
<1>4. QED
    BY <1>1, <1>2, <1>3

LEMMA ShareTree ==
    ASSUME TreeInv, NEW t \in Threads, NEW p \in Pools, NEW q \in Pools, NEW u \in Threads,
           \/ AddReference(t, u, p)
           \/ RegisterCleanup(t, p, q)
           \/ DeregisterCleanup(t, p, q)
    PROVE  TreeInv'
<1>1. TypeOK'
    BY ShareType DEF TreeInv
<1>2. UNCHANGED <<memory, lineage, parent, first_child, next_sibling, calls>>
    BY DEF AddReference, RegisterCleanup, DeregisterCleanup, structVars, listVars
<1>3. ASSUME NEW a \in Unused
      PROVE  /\ users'[a] = {} /\ first_cleanup'[a] = {}
             /\ \A b \in AllPools : a \notin users'[b] /\ a \notin first_cleanup'[b]
    <2>1. CASE AddReference(t, u, p)
        <3>1. Live(p) /\ users' = [users EXCEPT ![p] = @ \cup {u}] /\ first_cleanup' = first_cleanup
            BY <2>1, UsesLive DEF AddReference, structVars
        <3>2. QED
            BY <3>1, UnusedIs DEF TreeInv, TypeOK
    <2>2. CASE RegisterCleanup(t, p, q)
        <3>1. Live(p) /\ Live(q)
              /\ first_cleanup' = [first_cleanup EXCEPT ![p] = @ \cup {q}]
              /\ users' = [users EXCEPT ![q] = (@ \ {t}) \cup {p}]
            BY <2>2, UsesLive DEF RegisterCleanup
        <3>2. QED
            BY <3>1, UnusedIs DEF TreeInv, TypeOK
    <2>3. CASE DeregisterCleanup(t, p, q)
        <3>1. Live(p) /\ q \in first_cleanup[p]
              /\ first_cleanup' = [first_cleanup EXCEPT ![p] = @ \ {q}]
              /\ users' = [users EXCEPT ![q] = (@ \ {p}) \cup {t}]
            BY <2>3, UsesLive DEF DeregisterCleanup
        <3>2. a # q
            BY <3>1, UnusedIs DEF TreeInv, AllPools
        <3>3. QED
            BY <3>1, <3>2, UnusedIs DEF TreeInv, TypeOK
    <2>4. QED
        BY <2>1, <2>2, <2>3
<1>4. NewFrames({})
    BY <1>2, FramesKept
<1>5. QED
    BY <1>1, <1>2, <1>3, <1>4, TreeKept, UnusedIs DEF TreeInv, FamilyInv

LEMMA ReleaseTree ==
    ASSUME TreeInv, NEW t \in Threads, NEW p \in Pools, Release(t, p)
    PROVE  TreeInv'
<1> USE DEF TreeInv
<1>1. TypeOK'
    BY ReleaseType
<1>2. UNCHANGED <<memory, lineage, parent, first_child, next_sibling, first_cleanup>>
    BY DEF Release, structVars, listVars
<1>3. Live(p) /\ Idle(t) /\ p \in AllPools
    BY UsesLive DEF Release, AllPools
<1>4. NewFrames({Frame(p, "destroy")})
    <2>1. calls' = [calls EXCEPT ![t] = DestroyAtZero(p)]
        BY DEF Release
    <2>2. CASE DestroyAtZero(p) = <<Frame(p, "destroy")>>
        BY <2>1, <2>2, <1>3, FramesBegun, FrameIsFrame DEF Places
    <2>3. CASE DestroyAtZero(p) = <<>>
        <3>1. calls' = calls
            BY <2>1, <2>3, <1>3 DEF Idle, TypeOK
        <3>2. QED
            BY <3>1 DEF NewFrames
    <2>4. QED
        BY <2>2, <2>3, <1>3, DestroyAtZeroIs
<1>5. FamilyOf(Frame(p, "destroy")) /\ \A a \in Unused : a \notin Names(Frame(p, "destroy"))
    BY <1>3, FrameIsFrame, UnusedFrame DEF FamilyOf, Siblings, Places, InList
<1>6. \A a \in Unused : users'[a] = {} /\ \A b \in AllPools : a \notin users'[b]
    <2>1. users' = [users EXCEPT ![p] = @ \ {t}]
        BY DEF Release, LetGo
    <2>2. QED
        BY <2>1, UnusedIs DEF TypeOK
<1>7. QED
    BY <1>1, <1>2, <1>4, <1>5, <1>6, TreeKept, UnusedIs DEF FamilyInv

LEMMA DestroyTree ==
    ASSUME TreeInv, NEW t \in Threads, NEW p \in Pools, Destroy(t, p)
    PROVE  TreeInv'
<1> USE DEF TreeInv
<1>1. TypeOK'
    BY DestroyType
<1>2. UNCHANGED <<memory, lineage, parent, first_child, next_sibling, first_cleanup, users>>
    BY DEF Destroy, structVars, listVars, countVars
<1>3. Live(p) /\ Idle(t) /\ p \in AllPools
    BY UsesLive DEF Destroy, AllPools
<1>4. NewFrames({Frame(p, "destroy")})
    BY <1>3, FramesBegun, FrameIsFrame DEF Places, Destroy
<1>5. FamilyOf(Frame(p, "destroy")) /\ \A a \in Unused : a \notin Names(Frame(p, "destroy"))
    BY <1>3, FrameIsFrame, UnusedFrame DEF FamilyOf, Siblings, Places, InList
<1>6. QED
    BY <1>1, <1>2, <1>4, <1>5, TreeKept, UnusedIs DEF FamilyInv

LEMMA FramesContinue ==
    ASSUME TypeOK, NEW t \in Threads, ~Idle(t), NEW q \in AllPools, NEW f \in Frames,
           Continue(t, DestroyAtZero(q), f)
    PROVE  NewFrames({f, Frame(q, "destroy")})
<1>1. CASE DestroyAtZero(q) = <<Frame(q, "destroy")>>
    <2>1. Frame(q, "destroy") \in Frames /\ Continue(t, <<Frame(q, "destroy")>>, f)
        BY <1>1, DestroyAtZeroIs
    <2>2. QED
        BY <2>1, FramesCalled
<1>2. CASE DestroyAtZero(q) = <<>>
    <2>1. NewFrames({f})
        BY <1>2, FramesReplaced
    <2>2. QED
        BY <2>1 DEF NewFrames
<1>3. QED
    BY <1>1, <1>2, DestroyAtZeroIs

(* The pools in the lists are those of before. *)
LEMMA InListTree ==
    ASSUME TreeInv, NEW t \in Threads,
           AddChild(t) \/ LinkChild(t) \/ ChildrenGone(t) \/ Search(t) \/ Unlink(t)
    PROVE  TreeInv'
<1> USE DEF TreeInv
<1>1. TypeOK'
    BY ListType
<1>2. UNCHANGED <<memory, lineage, parent, first_cleanup, users>>
    BY DEF AddChild, LinkChild, ChildrenGone, Search, Unlink, structVars, countVars
<1>3. \E place \in Places : At(t, place)
    BY DEF AddChild, LinkChild, ChildrenGone, InChildren, Search, Unlink, Places
<1> DEFINE f == Top(t)
<1>4. /\ ~Idle(t) /\ f \in Frames /\ f = calls[t][1] /\ FamilyOf(f)
      /\ f.pool \in AllPools /\ Live(f.pool) /\ f.left \in SUBSET Pools
      /\ f.prev \in Pools \cup {NoPool} /\ f.sibling \in Pools \cup {NoPool}
      /\ \A a \in Unused : a \notin Names(f)
    BY <1>3, TopIsLive, FamilyOfTop, UnusedTop
<1>5. CASE AddChild(t)
    <2> DEFINE g == [f EXCEPT !.at = "link"]
    <2>1. /\ f.pool \in Pools /\ parent[f.pool] \in AllPools /\ parent[f.pool] # NoPool
          /\ Continue(t, <<>>, g) /\ first_child' = first_child
          /\ next_sibling' = [next_sibling EXCEPT ![f.pool] = first_child[parent[f.pool]]]
        <3>1. At(t, "first")
            BY <1>5 DEF AddChild
        <3>2. QED
            BY <1>5, <3>1, InListHasParent DEF AddChild, InList, AllPools
    <2>2. g \in Frames /\ FamilyOf(g) /\ \A a \in Unused : a \notin Names(g)
        BY <1>4, <2>1 DEF Frames, Places, FamilyOf, Names
    <2>3. NewFrames({g})
        <3> HIDE DEF g
        <3>1. QED
            BY <1>4, <2>1, <2>2, FramesReplaced
    <2>4. Siblings(f.pool, first_child[parent[f.pool]])
        BY <2>1 DEF Siblings, FamilyInv
    <2>5. \A c \in Pools : next_sibling'[c] = next_sibling[c] \/ Siblings(c, next_sibling'[c])
        BY <2>1, <2>4 DEF TypeOK
    <2>6. \A a \in Unused : next_sibling'[a] = NoPool /\ \A b \in AllPools : a # next_sibling'[b]
        BY <2>1, <1>4, UnusedIs DEF TypeOK
    <2> HIDE DEF g
    <2>7. QED
        BY <1>1, <1>2, <2>1, <2>2, <2>3, <2>5, <2>6, TreeKept, UnusedIs DEF FamilyInv
<1>6. CASE LinkChild(t)
    <2>1. /\ f.pool \in Pools /\ parent[f.pool] \in AllPools /\ Live(parent[f.pool])
          /\ Return(t) /\ next_sibling' = next_sibling
          /\ first_child' = [first_child EXCEPT ![parent[f.pool]] = f.pool]
        <3>1. At(t, "link")
            BY <1>6 DEF LinkChild
        <3>2. QED
            BY <1>6, <3>1, InListHasParent DEF LinkChild, InList, AllPools
    <2>2. NewFrames({})
        BY <1>4, <2>1, FramesReturned
    <2>3. \A a \in Unused : first_child'[a] = NoPool /\ \A b \in AllPools : a # first_child'[b]
        BY <2>1, <1>4, UnusedIs DEF TypeOK
    <2>4. \A p \in AllPools, c \in Pools : first_child'[p] = c => first_child[p] = c \/ parent[c] = p
        BY <2>1 DEF TypeOK
    <2>5. QED
        BY <1>1, <1>2, <2>1, <2>2, <2>3, <2>4, TreeKept, UnusedIs DEF FamilyInv
<1>7. CASE ChildrenGone(t)
    <2>1. \E g \in Frames : Continue(t, <<>>, g) /\ FamilyOf(g) /\ \A a \in Unused : a \notin Names(g)
        <3> DEFINE up == parent[f.pool]
        <3>1. up \in AllPools \cup {NoPool}
            BY <1>4 DEF TypeOK, AllPools
        <3>2. CASE up = NoPool
            <4> DEFINE g == [f EXCEPT !.at = "free"]
            <4>1. g \in Frames /\ FamilyOf(g) /\ \A a \in Unused : a \notin Names(g)
                BY <1>4 DEF Frames, Places, FamilyOf, Names, InList
            <4>2. Continue(t, <<>>, g)
                BY <1>7, <3>2 DEF ChildrenGone
            <4> HIDE DEF g
            <4>3. QED
                BY <4>1, <4>2
        <3>3. CASE up # NoPool
            <4> DEFINE g == [f EXCEPT !.at = "search", !.sibling = first_child[up]]
            <4>1. Continue(t, <<>>, g)
                BY <1>7, <3>3 DEF ChildrenGone
            <4>2. Siblings(f.pool, first_child[up])
                BY <3>1, <3>3 DEF Siblings, FamilyInv
            <4>3. g \in Frames /\ FamilyOf(g)
                BY <1>4, <3>1, <3>3, <4>2 DEF Frames, Places, FamilyOf, TypeOK
            <4>4. \A a \in Unused : a \notin Names(g)
                BY <1>4, <3>1, <3>3, UnusedIs DEF Names
            <4> HIDE DEF g
            <4>5. QED
                BY <4>1, <4>3, <4>4
        <3>4. QED
            BY <3>2, <3>3
    <2>2. PICK g \in Frames : Continue(t, <<>>, g) /\ FamilyOf(g) /\ \A a \in Unused : a \notin Names(g)
        BY <2>1
    <2>3. NewFrames({g}) /\ first_child' = first_child /\ next_sibling' = next_sibling
        BY <1>4, <1>7, <2>2, FramesReplaced DEF ChildrenGone, listVars
    <2>4. QED
        BY <1>1, <1>2, <2>2, <2>3, TreeKept, UnusedIs DEF FamilyInv
<1>8. CASE Search(t)
    <2> DEFINE g == IF f.sibling = f.pool
                    THEN [f EXCEPT !.at = "unlink", !.sibling = next_sibling[f.pool]]
                    ELSE [f EXCEPT !.prev = f.sibling, !.sibling = next_sibling[f.sibling]]
    <2>1. /\ f.at = "search" /\ Continue(t, <<>>, g) /\ f.sibling \in Pools /\ Live(f.sibling)
          /\ f.pool \in Pools
        <3>1. At(t, "search")
            BY <1>8 DEF Search
        <3>2. QED
            BY <1>4, <1>8, <3>1, InListHasParent DEF Search, At, InList
    <2>2. \A c \in Pools : next_sibling[c] \in Pools \cup {NoPool} /\ Siblings(c, next_sibling[c])
        BY DEF TypeOK, FamilyInv, AllPools
    <2>3. parent[f.sibling] = parent[f.pool] /\ parent[f.pool] # NoPool
        BY <1>4, <2>1 DEF FamilyOf, Siblings, InList
    <2>4. g \in Frames
        BY <1>4, <2>1, <2>2 DEF Frames, Places
    <2>5. FamilyOf(g)
        BY <1>4, <2>1, <2>2, <2>3 DEF Frames, FamilyOf, Siblings
    <2>6. \A a \in Unused : a \notin Names(g)
        BY <1>4, <2>1, UnusedIs DEF Names, Frames, AllPools
    <2>7. UNCHANGED <<first_child, next_sibling>>
        BY <1>8 DEF Search, listVars
    <2> HIDE DEF g
    <2>8. NewFrames({g})
        BY <1>4, <2>1, <2>4, FramesReplaced
    <2>9. QED
        BY <1>1, <1>2, <2>5, <2>6, <2>7, <2>8, TreeKept, UnusedIs DEF FamilyInv
<1>9. CASE Unlink(t)
    <2> DEFINE g == [f EXCEPT !.at = "parent", !.prev = NoPool, !.sibling = NoPool]
    <2>1. /\ Continue(t, <<>>, g) /\ f.pool \in Pools /\ parent[f.pool] \in AllPools
          /\ parent[f.pool] # NoPool /\ Live(parent[f.pool])
          /\ \/ f.prev = NoPool /\ next_sibling' = next_sibling
                /\ first_child' = [first_child EXCEPT ![parent[f.pool]] = f.sibling]
             \/ f.prev # NoPool /\ first_child' = first_child /\ Live(f.prev)
                /\ next_sibling' = [next_sibling EXCEPT ![f.prev] = f.sibling]
        <3>1. At(t, "unlink")
            BY <1>9 DEF Unlink
        <3>2. QED
            BY <1>4, <1>9, <3>1, InListHasParent DEF Unlink, InList, AllPools
    <2>2. g \in Frames /\ FamilyOf(g) /\ \A a \in Unused : a \notin Names(g)
        <3>1. \A a \in Unused : a # NoPool
            BY UnusedIs
        <3>2. QED
            BY <1>4, <2>1, <3>1 DEF Frames, Places, FamilyOf, Siblings, Names
    <2>3. NewFrames({g})
        <3> HIDE DEF g
        <3>1. QED
            BY <1>4, <2>1, <2>2, FramesReplaced
    <2>4. \A a \in Unused :
            /\ first_child'[a] = NoPool /\ next_sibling'[a] = NoPool
            /\ \A b \in AllPools : a # first_child'[b] /\ a # next_sibling'[b]
        BY <2>1, <1>4, UnusedIs DEF TypeOK, Names
    <2>5. \A p \in AllPools, c \in Pools :
             first_child'[p] = c /\ Live(c) => first_child[p] = c \/ parent[c] = p
        BY <1>4, <2>1 DEF TypeOK, FamilyOf, Siblings
    <2>6. \A c \in Pools : next_sibling'[c] = next_sibling[c] \/ Siblings(c, next_sibling'[c])
        BY <1>4, <2>1 DEF TypeOK, FamilyOf, Siblings, AllPools
    <2> HIDE DEF g
    <2>7. QED
        BY <1>1, <1>2, <2>1, <2>2, <2>3, <2>4, <2>5, <2>6, TreeKept, UnusedIs
<1>10. QED
    BY <1>5, <1>6, <1>7, <1>8, <1>9

LEMMA DestroyStepTree ==
    ASSUME TreeInv, NEW t \in Threads,
           RunCleanup(t) \/ DestroyChild(t) \/ ReleaseParent(t)
    PROVE  TreeInv'
<1> USE DEF TreeInv
<1>1. TypeOK'
    BY DestroyStepType
<1>2. UNCHANGED <<memory, lineage, parent, first_cleanup, first_child, next_sibling>>
    BY DEF RunCleanup, DestroyChild, ReleaseParent, structVars, listVars
<1>3. \E place \in Places : At(t, place)
    BY DEF RunCleanup, DestroyChild, InChildren, ReleaseParent, Places
<1> DEFINE f == Top(t)
<1>4. /\ ~Idle(t) /\ f \in Frames /\ f = calls[t][1] /\ FamilyOf(f)
      /\ f.pool \in AllPools /\ Live(f.pool) /\ f.left \in SUBSET Pools
      /\ f.prev \in Pools \cup {NoPool} /\ f.sibling \in Pools \cup {NoPool}
      /\ \A a \in Unused : a \notin Names(f)
    BY <1>3, TopIsLive, FamilyOfTop, UnusedTop
<1>5. ASSUME NEW q \in AllPools, Live(q)
      PROVE  /\ FamilyOf(Frame(q, "destroy")) /\ Frame(q, "destroy") \in Frames
             /\ \A a \in Unused : a \notin Names(Frame(q, "destroy"))
    BY <1>5, FrameIsFrame, UnusedFrame DEF FamilyOf, Siblings, Places, InList
<1>6. CASE RunCleanup(t)
    <2>1. PICK q \in f.left :
              /\ Live(q) /\ LetGo(f.pool, q)
              /\ Continue(t, DestroyAtZero(q), [f EXCEPT !.left = @ \ {q}])
        BY <1>6 DEF RunCleanup
    <2> DEFINE g == [f EXCEPT !.left = @ \ {q}]
    <2>2. g \in Frames /\ FamilyOf(g) /\ q \in AllPools /\ \A a \in Unused : a \notin Names(g)
        BY <1>4, <2>1 DEF Frames, FamilyOf, Names, AllPools
    <2>3. \A a \in Unused : users'[a] = {} /\ \A b \in AllPools : a \notin users'[b]
        BY <2>1, <2>2, UnusedIs DEF LetGo, TypeOK
    <2>4. Continue(t, DestroyAtZero(q), g)
        BY <2>1
    <2> HIDE DEF g
    <2>5. NewFrames({g, Frame(q, "destroy")})
        BY <1>4, <2>2, <2>4, FramesContinue
    <2>6. \A h \in {g, Frame(q, "destroy")} : FamilyOf(h) /\ \A a \in Unused : a \notin Names(h)
        BY <1>5, <2>1, <2>2
    <2>7. QED
        BY <1>1, <1>2, <2>3, <2>5, <2>6, TreeKept, UnusedIs DEF FamilyInv
<1>7. CASE DestroyChild(t)
    <2> DEFINE child == first_child[f.pool]
    <2>1. child \in AllPools /\ Live(child) /\ Continue(t, <<Frame(child, "destroy")>>, f)
        BY <1>4, <1>7 DEF DestroyChild, TypeOK, AllPools
    <2>2. NewFrames({f, Frame(child, "destroy")})
        BY <1>4, <1>5, <2>1, FramesCalled
    <2>3. \A h \in {f, Frame(child, "destroy")} : FamilyOf(h) /\ \A a \in Unused : a \notin Names(h)
        BY <1>4, <1>5, <2>1
    <2>4. users' = users
        BY <1>7 DEF DestroyChild, countVars
    <2>5. QED
        BY <1>1, <1>2, <2>2, <2>3, <2>4, TreeKept, UnusedIs DEF FamilyInv
<1>8. CASE ReleaseParent(t)
    <2> DEFINE up == parent[f.pool]
    <2>1. /\ up \in AllPools /\ Live(up)
          /\ Continue(t, DestroyAtZero(up), [f EXCEPT !.at = "free"])
        <3>1. At(t, "parent")
            BY <1>8 DEF ReleaseParent
        <3>2. QED
            BY <1>8, <3>1, InListHasParent DEF ReleaseParent
    <2> DEFINE g == [f EXCEPT !.at = "free"]
    <2>2. g \in Frames /\ FamilyOf(g) /\ \A a \in Unused : a \notin Names(g)
        BY <1>4 DEF Frames, FamilyOf, Names, Places, InList
    <2>3. Continue(t, DestroyAtZero(up), g)
        BY <2>1
    <2> HIDE DEF g
    <2>4. NewFrames({g, Frame(up, "destroy")})
        BY <1>4, <2>1, <2>2, <2>3, FramesContinue
    <2>5. \A h \in {g, Frame(up, "destroy")} : FamilyOf(h) /\ \A a \in Unused : a \notin Names(h)
        BY <1>5, <2>1, <2>2
    <2>6. users' = users
        BY <1>8 DEF ReleaseParent
    <2>7. QED
        BY <1>1, <1>2, <2>4, <2>5, <2>6, TreeKept, UnusedIs DEF FamilyInv
<1>9. QED
    BY <1>6, <1>7, <1>8

LEMMA FreeTree ==
    ASSUME TreeInv, NEW t \in Threads, Free(t)
    PROVE  TreeInv'
<1> USE DEF TreeInv
<1>1. TypeOK'
    BY DestroyStepType
<1>2. LineageInv'
    BY LineageFreed
<1> DEFINE p == Top(t).pool
<1>3. /\ \A q \in AllPools : Live(q)' <=> Live(q) /\ q \notin Under(p)
      /\ \A q \in AllPools : q \notin Under(p) =>
            /\ parent'[q] = parent[q] /\ first_child'[q] = first_child[q]
            /\ next_sibling'[q] = next_sibling[q] /\ users'[q] = users[q]
            /\ first_cleanup'[q] = first_cleanup[q] /\ memory'[q] = memory[q]
      /\ \A q \in Under(p) :
            /\ memory'[q] = "freed" /\ parent'[q] = NoPool /\ first_child'[q] = NoPool
            /\ next_sibling'[q] = NoPool /\ users'[q] = {} /\ first_cleanup'[q] = {}
      /\ Under(p) \subseteq Pools /\ \A q \in Under(p) : p \in lineage[q]
    BY WhatIsFreed
<1>4. NewFrames({})
    <2>1. At(t, "free") /\ Return(t)
        BY DEF Free
    <2>2. QED
        BY <2>1, TopIsLive, FramesReturned DEF Places
<1> HIDE DEF p
<1>5. Unused' = Unused
    BY <1>3, UnusedIs DEF Unused, Under, Live, AllPools
<1>6. UnusedInv'
    <2>1. \A a \in Unused : \A u \in Threads : \A i \in 1..Len(calls'[u]) : a \notin Names(calls'[u][i])
        BY <1>4, <1>5, UnusedFrames
    <2>2. \A a \in Unused : \A q \in AllPools : a # NoPool /\ a \notin Under(p)
        BY UnusedIs DEF Under
    <2>3. \A a \in Unused :
            /\ parent'[a] = NoPool /\ users'[a] = {} /\ first_cleanup'[a] = {}
            /\ first_child'[a] = NoPool /\ next_sibling'[a] = NoPool
            /\ \A q \in AllPools :
                  /\ a \notin {parent'[q], first_child'[q], next_sibling'[q]}
                  /\ a \notin users'[q] \cup first_cleanup'[q]
        BY <1>3, <2>2, UnusedIs
    <2>4. QED
        BY <1>5, <2>1, <2>3 DEF UnusedInv, Names
<1>7. ASSUME NEW c, NEW d, Siblings(c, d)
      PROVE  Siblings(c, d)'
    BY <1>3, <1>7 DEF Siblings, AllPools
<1>8. \A a \in AllPools, c \in Pools : first_child'[a] = c /\ Live(c)' => parent'[c] = a
    BY <1>3 DEF FamilyInv, AllPools
<1>9. ASSUME NEW c \in Pools
      PROVE  Siblings(c, next_sibling[c])'
    <2>1. CASE c \in Under(p)
        BY <1>3, <2>1 DEF Siblings, AllPools
    <2>2. CASE c \notin Under(p)
        <3>1. Siblings(c, next_sibling[c]) /\ next_sibling'[c] = next_sibling[c]
            BY <1>3, <2>2 DEF FamilyInv, AllPools
        <3>2. QED
            BY <3>1, <1>3 DEF Siblings, AllPools
    <2>3. QED
        BY <2>1, <2>2
<1>10. ASSUME NEW u \in Threads, NEW i \in 1..Len(calls'[u]), NEW f, f = calls'[u][i]
       PROVE  FamilyOf(f)'
    <2>1. PICK k \in 1..Len(calls[u]) : f = calls[u][k]
        BY <1>4, <1>10 DEF NewFrames
    <2>2. f \in Frames /\ FamilyOf(f)
        BY <2>1, StackTyped DEF FamilyInv, FamilyOf
    <2>3. f.pool \in AllPools /\ (Live(f.pool)' => Live(f.pool) /\ parent'[f.pool] = parent[f.pool])
        BY <2>2, <1>3 DEF Frames
    <2>4. Siblings(f.pool, f.sibling)' /\ Siblings(f.pool, f.prev)'
        BY <2>2, <1>7 DEF FamilyOf
    <2>5. QED
        BY <2>2, <2>3, <2>4 DEF FamilyOf
<1>13. \A u \in Threads : \A i \in 1..Len(calls'[u]) : FamilyOf(calls[u][i])'
    BY <1>10
<1>11. FamilyInv'
    BY <1>8, <1>9, <1>13 DEF FamilyInv, FamilyOf
<1>12. QED
    BY <1>1, <1>2, <1>6, <1>11

LEMMA BrokenTree ==
    ASSUME TreeInv, NEW t \in Threads, NotAChild(t) \/ UseFreed(t)
    PROVE  TreeInv'
<1> USE DEF TreeInv
<1>1. /\ UNCHANGED <<memory, lineage, parent, first_child, next_sibling, first_cleanup,
                     users, reference_count, early, overlapped>>
      /\ broken' \in {"no", "freed", "lost"}
    BY DEF NotAChild, UseFreed, structVars, listVars, countVars, history
<1>2. calls' = calls \/ calls' = [calls EXCEPT ![t] = <<>>]
    BY DEF NotAChild, UseFreed
<1>3. NewFrames({}) /\ calls' \in [Threads -> Seq(Frames)]
    <2>1. CASE calls' = calls
        BY <2>1, FramesKept DEF TypeOK
    <2>2. CASE calls' = [calls EXCEPT ![t] = <<>>]
        <3>1. \A u \in Threads : calls'[u] = <<>> \/ calls'[u] = calls[u]
            BY <2>2 DEF TypeOK
        <3>2. <<>> \in Seq(Frames) /\ 1..Len(<<>>) = {}
            OBVIOUS
        <3>3. calls' \in [Threads -> Seq(Frames)]
            BY <2>2, <3>2 DEF TypeOK
        <3>4. QED
            BY <3>1, <3>2, <3>3 DEF NewFrames
    <2>3. QED
        BY <1>2, <2>1, <2>2
<1>4. TypeOK'
    BY <1>1, <1>3 DEF TypeOK
<1>5. QED
    BY <1>1, <1>3, <1>4, TreeKept, UnusedIs DEF FamilyInv

LEMMA TreeStuttering ==
    ASSUME TreeInv, UNCHANGED vars
    PROVE  TreeInv'
<1>1. UNCHANGED <<memory, lineage, parent, reference_count, first_child, next_sibling,
                  first_cleanup, users, calls, broken, early, overlapped>>
    BY DEF vars, structVars, listVars, countVars, history
<1>2. TypeOK' /\ LineageInv'
    BY <1>1, LineageKept DEF TreeInv, TypeOK
<1>3. (\A p : Live(p)' <=> Live(p)) /\ Unused' = Unused
    BY <1>1 DEF Live, Unused
<1>4. UnusedInv'
    BY <1>1, <1>3 DEF TreeInv, UnusedInv
<1>5. \A c, d : Siblings(c, d)' <=> Siblings(c, d)
    BY <1>1, <1>3 DEF Siblings
<1>6. FamilyInv'
    BY <1>1, <1>3, <1>5 DEF TreeInv, FamilyInv
<1>7. QED
    BY <1>2, <1>4, <1>6 DEF TreeInv

LEMMA TreeStep ==
    ASSUME TreeInv, Next
    PROVE  TreeInv'
<1>1. CASE Ended
    BY <1>1, TreeStuttering DEF Ended
<1>2. ASSUME NEW t \in Threads, Begin(t) \/ GoOn(t)
      PROVE  TreeInv'
    BY <1>2, CreateTree, CreateThreadTree, ShareTree, ReleaseTree, DestroyTree, InListTree,
       DestroyStepTree, FreeTree, BrokenTree DEF Begin, GoOn
<1>3. QED
    BY <1>1, <1>2 DEF Next

LEMMA TreeInit ==
    ASSUME Init
    PROVE  TreeInv
<1>1. \A t \in Threads : calls[t] = <<>> /\ Len(calls[t]) = 0 /\ 1..Len(calls[t]) = {}
    BY DEF Init
<1>2. calls \in [Threads -> Seq(Frames)]
    <2>1. <<>> \in Seq(Frames)
        OBVIOUS
    <2>2. QED
        BY <2>1 DEF Init
<1>3. TypeOK
    <2>1. AllPools # {} /\ \A p \in AllPools : p = Base \/ p \in Pools
        BY DEF AllPools
    <2>2. /\ memory \in [AllPools -> {"unused", "live", "freed"}]
          /\ lineage \in [AllPools -> SUBSET AllPools]
          /\ parent \in [AllPools -> AllPools \cup {NoPool}]
          /\ reference_count \in [AllPools -> Int]
        BY DEF Init
    <2>3. /\ first_child \in [AllPools -> Pools \cup {NoPool}]
          /\ next_sibling \in [AllPools -> Pools \cup {NoPool}]
          /\ first_cleanup \in [AllPools -> SUBSET Pools]
          /\ users \in [AllPools -> SUBSET (Threads \cup AllPools)]
        BY DEF Init
    <2>4. QED
        BY <1>2, <2>2, <2>3 DEF Init, TypeOK
<1>4. Live(Base) /\ \A p \in Pools : ~Live(p)
    BY DEF Init, Live, AllPools
<1>5. LineageInv
    BY <1>4 DEF Init, LineageInv, AllPools
<1>6. UnusedInv
    BY <1>1 DEF Init, UnusedInv, Unused, AllPools
<1>7. FamilyInv
    BY <1>1, <1>4 DEF Init, FamilyInv, Siblings, AllPools
<1>8. QED
    BY <1>3, <1>5, <1>6, <1>7 DEF TreeInv

(* The type invariant; and however pools are created, shared and destroyed, the
   tree has the shape that the apr pools give it. *)
THEOREM TreeInvariant == Spec => []TreeInv
<1>1. Init => TreeInv
    BY TreeInit
<1>2. TreeInv /\ [Next]_vars => TreeInv'
    <2>1. CASE UNCHANGED vars
        BY <2>1, TreeStuttering
    <2>2. QED
        BY <2>1, TreeStep
<1>3. QED
    BY <1>1, <1>2, PTL DEF Spec

-----------------------------------------------------------------------------
(* What holds in addition as long as the tree is in order. *)

Good == Orderly /\ TreeInv /\ CallsInv /\ CleanupsInv /\ UsersInv /\ CountExact

LEMMA AtWorkIs ==
    ASSUME TypeOK, NEW t \in Threads
    PROVE  /\ AtWork(t) \subseteq AllPools
           /\ Idle(t) <=> AtWork(t) = {}
           /\ ~Idle(t) => Top(t).pool \in AtWork(t) /\ Root(t) \in AtWork(t)
                          /\ Len(calls[t]) \in 1..Len(calls[t])
           /\ \A p : p \in AtWork(t) <=> \E i \in 1..Len(calls[t]) : calls[t][i].pool = p
<1>1. \A i \in 1..Len(calls[t]) : calls[t][i] \in Frames /\ calls[t][i].pool \in AllPools
    BY StackTyped DEF Frames
<1>2. ~Idle(t) => 1 \in 1..Len(calls[t]) /\ Len(calls[t]) \in 1..Len(calls[t]) /\ Top(t) = calls[t][1]
    BY StackTyped
<1>3. Idle(t) => 1..Len(calls[t]) = {}
    BY StackTyped
<1>4. QED
    BY <1>1, <1>2, <1>3 DEF AtWork, Root

LEMMA GoodFrame ==
    ASSUME Good, NEW t \in Threads, NEW i \in 1..Len(calls[t])
    PROVE  /\ calls[t][i] \in Frames /\ calls[t][i].pool \in Pools /\ Live(calls[t][i].pool)
           /\ calls[t][i].pool \in AtWork(t)
           /\ IF calls[t][i].at \in {"first", "link"} THEN Creates(t, calls[t][i])
                                                      ELSE Destroys(t, calls[t][i].pool)
<1>1. /\ calls[t][i] \in Frames /\ Live(calls[t][i].pool) /\ calls[t][i].pool \in AllPools
      /\ IF calls[t][i].at \in {"first", "link"} THEN Creates(t, calls[t][i])
                                                 ELSE Destroys(t, calls[t][i].pool)
    BY StackTyped DEF Good, TreeInv, CallsInv, StackInv, Frames
<1>2. calls[t][i].pool # Base
    <2>1. users[Base] = {Base} /\ lineage[Base] = {Base} /\ Base \notin Threads
        BY DEF Good, UsersInv, TreeInv, LineageInv
    <2>2. t # Base
        BY <2>1
    <2>3. ~Spent(Base) /\ users[Base] # {t}
        BY <2>1, <2>2 DEF Spent
    <2>4. ~Destroys(t, Base)
        BY <2>1, <2>2, <2>3 DEF Destroys, Owns
    <2>5. QED
        BY <1>1, <2>3, <2>4 DEF Creates
<1>3. QED
    BY <1>1, <1>2 DEF AllPools, AtWork

LEMMA GoodAtWork ==
    ASSUME Good, NEW t \in Threads
    PROVE  /\ AtWork(t) \subseteq Pools /\ \A p \in AtWork(t) : Live(p)
           /\ \A u \in Threads \ {t} : AtWork(t) \cap AtWork(u) = {}
           /\ ~Idle(t) => Root(t) \in AtWork(t)
           /\ \A i, k \in 1..Len(calls[t]) : calls[t][i].pool = calls[t][k].pool => i = k
<1>1. AtWork(t) \subseteq Pools /\ \A p \in AtWork(t) : Live(p)
    BY GoodFrame DEF AtWork
<1>2. ASSUME NEW i \in 1..Len(calls[t]), NEW k \in 1..Len(calls[t]), i # k
      PROVE  calls[t][i].pool # calls[t][k].pool
    <2>1. (i < k => Inside(calls[t][i], calls[t][k])) /\ (k < i => Inside(calls[t][k], calls[t][i]))
        BY DEF Good, CallsInv, StackInv
    <2>2. i < k \/ k < i
        BY <1>2
    <2>3. QED
        BY <2>1, <2>2 DEF Inside
<1>3. QED
    BY <1>1, <1>2, AtWorkIs DEF Good, CallsInv, TreeInv

(* What somebody else has is not in what a thread owns. *)
LEMMA NotOwned ==
    ASSUME Good, NEW t \in Threads, NEW u \in Threads \ {t}, NEW p \in AllPools,
           p = Base \/ t \in users[p], NEW r, Owns(u, r)
    PROVE  p \notin Under(r)
<1>1. t \notin AllPools
    BY DEF AllPools
<1>2. Under(r) \subseteq Pools /\ Base \notin Pools
    BY DEF Under
<1>3. QED
    BY <1>1, <1>2 DEF Owns, AllPools

(* Nobody is at work on a pool that a thread uses. *)
LEMMA UserNotAtWork ==
    ASSUME Good, NEW t \in Threads, NEW p \in AllPools, Uses(t, p), NEW u \in Threads
    PROVE  p \notin AtWork(u)
<1>1. SUFFICES ASSUME p \in AtWork(u), u # t, p \in Pools, t \in users[p] PROVE FALSE
    BY GoodAtWork, AtWorkIs DEF Uses, Good, TreeInv
<1>2. PICK i \in 1..Len(calls[u]) : calls[u][i].pool = p
    BY <1>1 DEF AtWork
<1>3. Creates(u, calls[u][i]) \/ Destroys(u, p)
    BY <1>2, GoodFrame
<1>4. users[p] # {u} /\ ~Spent(p)
    BY <1>1 DEF Spent
<1>5. Owns(u, Root(u)) /\ Root(u) \in lineage[p]
    BY <1>2, <1>3, <1>4 DEF Creates, Destroys
<1>6. p \in Under(Root(u))
    BY <1>1, <1>5 DEF Under, Uses
<1>7. QED
    BY <1>1, <1>5, <1>6, NotOwned

(* A pool without children is alone in its apr pool. *)
LEMMA SpentAlone ==
    ASSUME LineageInv, NEW p \in Pools, Live(p), Children(p) = {}
    PROVE  Under(p) = {p} /\ \A q \in Pools : Live(q) /\ p \in lineage[q] => q = p
<1>1. \A q \in Pools : Live(q) /\ p \in lineage[q] => q = p
    BY DEF LineageInv
<1>2. p \in lineage[p]
    BY DEF LineageInv
<1>3. QED
    BY <1>1, <1>2 DEF Under

LEMMA ChildBelow ==
    ASSUME LineageInv, NEW p \in AllPools, NEW c \in Children(p)
    PROVE  /\ c \in Pools /\ Live(c) /\ parent[c] = p /\ p # c
           /\ lineage[c] = lineage[p] \cup {c} /\ p \in lineage[c] /\ c \notin lineage[p]
<1>1. c \in Pools /\ Live(c) /\ parent[c] = p /\ p # NoPool
    BY DEF Children, AllPools
<1>2. p \in lineage[c] /\ p # c /\ lineage[c] = lineage[p] \cup {c} /\ c \in lineage[c]
    BY <1>1 DEF LineageInv
<1>3. c \notin lineage[p]
    BY <1>1, <1>2 DEF LineageInv
<1>4. QED
    BY <1>1, <1>2, <1>3

(* Stacks whose pools a step leaves alone *)
LEMMA StackKept ==
    ASSUME TreeInv, NEW u \in Threads, StackInv(u),
           Len(calls'[u]) = Len(calls[u]),
           \A i \in 1..Len(calls[u]) :
               /\ calls'[u][i].pool = calls[u][i].pool
               /\ i # 1 => calls'[u][i] = calls[u][i]
               /\ calls'[u][i].at \in {"first", "link"} <=> calls[u][i].at \in {"first", "link"},
           \A p \in AtWork(u) :
               /\ Live(p)' /\ lineage'[p] = lineage[p] /\ users'[p] = users[p]
               /\ first_cleanup'[p] = first_cleanup[p]
               /\ Children(p) = {} => Children(p)' = {}
               /\ \A a \in lineage[p] : lineage'[a] = lineage[a],
           ~Idle(u) /\ Owns(u, Root(u)) => Owns(u, Root(u))'
    PROVE  StackInv(u)'
<1>1. AtWork(u)' = AtWork(u)
    BY DEF AtWork
<1>2. ~Idle(u) => Root(u)' = Root(u)
    BY AtWorkIs DEF Root, TreeInv
<1>3. \A i \in 1..Len(calls[u]) : calls[u][i].pool \in AtWork(u) /\ ~Idle(u)
    BY StackTyped DEF AtWork, TreeInv
<1>4. \A p \in AtWork(u) : Spent(p) => Spent(p)'
    BY DEF Spent
<1>5. ASSUME NEW i \in 1..Len(calls[u]), NEW k \in 1..Len(calls[u]), i < k
      PROVE  Inside(calls[u][i], calls[u][k])'
    <2>1. Inside(calls[u][i], calls[u][k])
        BY <1>5 DEF StackInv
    <2>2. calls'[u][k] = calls[u][k] /\ calls'[u][i].pool = calls[u][i].pool
        BY <1>5
    <2>3. QED
        BY <2>1, <2>2, <1>3, <1>4 DEF Inside
<1>6. ASSUME NEW i \in 1..Len(calls[u]), NEW p, p = calls[u][i].pool, Destroys(u, p)
      PROVE  Destroys(u, p)'
    <2>1. p \in AtWork(u) /\ ~Idle(u)
        BY <1>6, <1>3
    <2>2. Root(u)' = Root(u) /\ lineage'[p] = lineage[p] /\ \A a \in lineage[p] : lineage'[a] = lineage[a]
        BY <2>1, <1>2
    <2>3. CASE Spent(p)
        BY <2>1, <2>3, <1>4 DEF Destroys
    <2>4. CASE ~Spent(p)
        BY <2>1, <2>2, <2>4, <1>1, <1>6 DEF Destroys
    <2>5. QED
        BY <2>3, <2>4
<1>7. ASSUME NEW i \in 1..Len(calls[u]), Creates(u, calls[u][i])
      PROVE  Creates(u, calls[u][i])'
    BY <1>3, <1>7 DEF Creates
<1>8. \A i \in 1..Len(calls[u]) :
          /\ Live(calls[u][i].pool)'
          /\ IF calls'[u][i].at \in {"first", "link"} THEN Creates(u, calls[u][i])'
                                                      ELSE Destroys(u, calls[u][i].pool)'
    <2>1. SUFFICES ASSUME NEW i \in 1..Len(calls[u])
                   PROVE  /\ Live(calls[u][i].pool)'
                          /\ IF calls'[u][i].at \in {"first", "link"} THEN Creates(u, calls[u][i])'
                                                      ELSE Destroys(u, calls[u][i].pool)'
        OBVIOUS
    <2>2. calls'[u][i].pool = calls[u][i].pool /\ Live(calls[u][i].pool)'
        BY <1>3
    <2>3. IF calls[u][i].at \in {"first", "link"} THEN Creates(u, calls[u][i])
                                                 ELSE Destroys(u, calls[u][i].pool)
        BY DEF StackInv
    <2>4. QED
        BY <2>2, <2>3, <1>6, <1>7 DEF Live
<1>9. QED
    BY <1>5, <1>8 DEF StackInv

LEMMA OthersKept ==
    ASSUME Good, UNCHANGED <<memory, lineage, parent>>, NEW t \in Threads, NEW u \in Threads \ {t},
           \A v \in Threads \ {t} : calls'[v] = calls[v],
           NEW S, S \cap AtWork(u) = {},
           \A p \in AllPools \ S : users'[p] = users[p] /\ first_cleanup'[p] = first_cleanup[p],
           ~Idle(u) /\ Owns(u, Root(u)) =>
               /\ AtWork(t)' \cap Under(Root(u)) = {}
               /\ \A p \in S \cap Under(Root(u)) : users'[p] \subseteq users[p]
    PROVE  StackInv(u)'
<1>1. \A p : (Live(p)' <=> Live(p)) /\ Under(p)' = Under(p) /\ Children(p)' = Children(p)
    BY DEF Live, Under, Children
<1>2. \A p \in AtWork(u) :
          /\ Live(p)' /\ users'[p] = users[p] /\ first_cleanup'[p] = first_cleanup[p]
          /\ p \in AllPools
    BY <1>1, GoodAtWork DEF AllPools
<1>3. ASSUME ~Idle(u), NEW r, r = Root(u), Owns(u, r)
      PROVE  Owns(u, r)'
    <2>1. r \in AtWork(u)
        BY <1>3, GoodAtWork
    <2>2. u \in users'[r]
        BY <1>2, <1>3, <2>1 DEF Owns
    <2>3. \A q \in Under(r) : users'[q] \subseteq users[q]
        BY <1>3 DEF Under, AllPools
    <2>4. \A q \in Under(r)' : users'[q] \ {u} \subseteq Under(r)' \cap lineage'[q]
        BY <1>1, <1>3, <2>3 DEF Owns
    <2>5. \A v \in Threads \ {u} : AtWork(v)' \cap Under(r)' = {}
        <3>1. \A v \in Threads \ {t} : AtWork(v)' = AtWork(v)
            BY DEF AtWork
        <3>2. QED
            BY <3>1, <1>1, <1>3 DEF Owns
    <2>6. QED
        BY <2>2, <2>4, <2>5 DEF Owns
<1>4. ~Idle(u) => Root(u)' = Root(u)
    BY DEF Root
<1>5. QED
    BY <1>1, <1>2, <1>3, <1>4, StackKept DEF Good, CallsInv

(* The same for the thread that has taken the step, when it goes on in its call *)
LEMMA OwnKept ==
    ASSUME Good, TreeInv', UNCHANGED <<memory, lineage, parent>>, NEW t \in Threads, ~Idle(t),
           \A v \in Threads \ {t} : calls'[v] = calls[v],
           NEW S, S \cap AtWork(t) = {},
           \A p \in AllPools \ S : users'[p] = users[p] /\ first_cleanup'[p] = first_cleanup[p],
           \A p \in S : users'[p] \subseteq users[p],
           NEW r \in AtWork(t), Owns(t, r)
    PROVE  Owns(t, r)'
<1>1. \A p : (Live(p)' <=> Live(p)) /\ Under(p)' = Under(p)
    BY DEF Live, Under
<1>2. r \in AllPools /\ t \in users'[r]
    BY GoodAtWork DEF AllPools, Owns
<1>3. \A q \in Under(r) : users'[q] \subseteq users[q]
    BY DEF Under, AllPools
<1>4. \A v \in Threads \ {t} : AtWork(v)' = AtWork(v)
    BY DEF AtWork
<1>5. QED
    BY <1>1, <1>2, <1>3, <1>4 DEF Owns

LEMMA StackReplaced ==
    ASSUME Good, TreeInv', UNCHANGED <<memory, lineage, parent>>, NEW t \in Threads, ~Idle(t),
           NEW f \in Frames, Continue(t, <<>>, f), f.pool = Top(t).pool,
           f.at \in {"first", "link"} <=> Top(t).at \in {"first", "link"},
           NEW S, S \cap AtWork(t) = {},
           \A p \in AllPools \ S : users'[p] = users[p] /\ first_cleanup'[p] = first_cleanup[p],
           \A p \in S : users'[p] \subseteq users[p]
    PROVE  StackInv(t)' /\ AtWork(t)' = AtWork(t)
<1>1. /\ Len(calls'[t]) = Len(calls[t]) /\ Len(calls[t]) \in Nat /\ Top(t) = calls[t][1]
      /\ calls'[t][1] = f /\ \A i \in 2..Len(calls[t]) : calls'[t][i] = calls[t][i]
      /\ \A v \in Threads \ {t} : calls'[v] = calls[v]
    BY TopReplaced, StackTyped DEF Good, TreeInv
<1>2. \A i \in 1..Len(calls[t]) :
               /\ calls'[t][i].pool = calls[t][i].pool
               /\ i # 1 => calls'[t][i] = calls[t][i]
               /\ calls'[t][i].at \in {"first", "link"} <=> calls[t][i].at \in {"first", "link"}
    <2>1. \A i \in 1..Len(calls[t]) : i = 1 \/ i \in 2..Len(calls[t])
        BY <1>1
    <2>2. QED
        BY <2>1, <1>1
<1>3. \A p : (Live(p)' <=> Live(p)) /\ Children(p)' = Children(p)
    BY DEF Live, Children
<1>4. \A p \in AtWork(t) :
          /\ Live(p)' /\ users'[p] = users[p] /\ first_cleanup'[p] = first_cleanup[p]
    BY <1>3, GoodAtWork DEF AllPools
<1>5. Root(t)' = Root(t) /\ Root(t) \in AtWork(t)
    <2>1. Len(calls[t]) \in 1..Len(calls[t])
        BY AtWorkIs DEF Good, TreeInv
    <2>2. QED
        BY <1>1, <1>2, <2>1, GoodAtWork DEF Root
<1>6. Owns(t, Root(t)) => Owns(t, Root(t))'
    <2>1. ASSUME NEW r, r = Root(t), Owns(t, r) PROVE Owns(t, r)'
        BY <1>1, <1>5, <2>1, OwnKept
    <2>2. QED
        BY <1>5, <2>1
<1>7. StackInv(t)'
    BY <1>1, <1>2, <1>3, <1>4, <1>6, StackKept DEF Good, CallsInv
<1>8. AtWork(t)' = AtWork(t)
    BY <1>1, <1>2 DEF AtWork
<1>9. QED
    BY <1>7, <1>8

LEMMA StackPushed ==
    ASSUME Good, TreeInv', UNCHANGED <<memory, lineage, parent>>, NEW t \in Threads, ~Idle(t),
           NEW f \in Frames, NEW g \in Frames, Continue(t, <<g>>, f),
           f.pool = Top(t).pool, f.at = "destroy", Top(t).at = "destroy",
           g.pool \notin AtWork(t), Live(g.pool), g.at = "destroy",
           \/ Spent(g.pool)'
           \/ Top(t).left = {} /\ f.left = {} /\ g.pool \in Children(f.pool),
           NEW S, S \cap AtWork(t) = {},
           \A p \in AllPools \ S : users'[p] = users[p] /\ first_cleanup'[p] = first_cleanup[p],
           \A p \in S : users'[p] \subseteq users[p]
    PROVE  StackInv(t)' /\ AtWork(t)' = AtWork(t) \cup {g.pool}
<1> DEFINE n == Len(calls[t])
<1>1. /\ Len(calls'[t]) = n + 1 /\ n \in Nat /\ n >= 1 /\ Top(t) = calls[t][1]
      /\ calls'[t][1] = g /\ calls'[t][2] = f
      /\ \A i \in 3..(n + 1) : calls'[t][i] = calls[t][i - 1]
      /\ \A v \in Threads \ {t} : calls'[v] = calls[v]
    BY TopCalls, StackTyped DEF Good, TreeInv
<1>2. \A p : (Live(p)' <=> Live(p)) /\ Children(p)' = Children(p)
    BY DEF Live, Children
<1>3. \A p \in AtWork(t) :
          /\ Live(p)' /\ users'[p] = users[p] /\ first_cleanup'[p] = first_cleanup[p]
          /\ Spent(p) <=> Spent(p)'
    BY <1>2, GoodAtWork DEF AllPools, Spent
(* A frame of the stack that has become the k-th was the one before. *)
<1>4. \A k \in 1..(n + 1) : k = 1 \/ (k \in 2..(n + 1) /\ k - 1 \in 1..n)
    BY <1>1
<1>5. \A k \in 2..(n + 1) :
          /\ calls'[t][k].pool = calls[t][k - 1].pool
          /\ k # 2 => calls'[t][k] = calls[t][k - 1]
          /\ calls'[t][k].pool \in AtWork(t) /\ k - 1 \in 1..n
    <2>1. \A k \in 2..(n + 1) : (k = 2 \/ k \in 3..(n + 1)) /\ k - 1 \in 1..n
        BY <1>1
    <2>2. \A i \in 1..n : calls[t][i].pool \in AtWork(t)
        BY DEF AtWork
    <2>3. SUFFICES ASSUME NEW k \in 2..(n + 1)
                   PROVE  /\ calls'[t][k].pool = calls[t][k - 1].pool
                          /\ k # 2 => calls'[t][k] = calls[t][k - 1]
        BY <2>1, <2>2
    <2>4. k = 2 \/ k \in 3..(n + 1)
        BY <2>1
    <2>5. QED
        BY <1>1, <2>4
<1>6. Root(t)' = Root(t) /\ Root(t) \in AtWork(t)
    <2>1. n + 1 \in 2..(n + 1) /\ (n + 1) - 1 = n
        BY <1>1
    <2>2. QED
        BY <1>1, <1>5, <2>1, GoodAtWork DEF Root
<1>7. AtWork(t)' = AtWork(t) \cup {g.pool}
    <2>1. \A i \in 1..n : i + 1 \in 2..(n + 1) /\ (i + 1) - 1 = i
        BY <1>1
    <2>2. 1 \in 1..(n + 1) /\ \A k \in 2..(n + 1) : k \in 1..(n + 1)
        BY <1>1
    <2>3. \A i \in 1..n : \E k \in 1..(n + 1) : calls'[t][k].pool = calls[t][i].pool
        BY <2>1, <2>2, <1>5
    <2>4. AtWork(t)' = {calls'[t][i].pool : i \in 1..(n + 1)}
        BY <1>1 DEF AtWork
    <2>5. AtWork(t) = {calls[t][i].pool : i \in 1..n}
        BY DEF AtWork
    <2>7. ASSUME NEW p \in AtWork(t) PROVE p \in AtWork(t)'
        BY <2>3, <2>4, <2>5
    <2>8. g.pool \in AtWork(t)'
        BY <1>1, <2>2, <2>4
    <2>9. ASSUME NEW k \in 1..(n + 1) PROVE calls'[t][k].pool \in AtWork(t) \cup {g.pool}
        BY <1>1, <1>4, <1>5
    <2>6. QED
        BY <2>4, <2>7, <2>8, <2>9
<1>8. Owns(t, Root(t)) => Owns(t, Root(t))'
    <2>1. ASSUME NEW r, r = Root(t), Owns(t, r) PROVE Owns(t, r)'
        BY <1>1, <1>6, <2>1, OwnKept
    <2>2. QED
        BY <1>6, <2>1
<1>9. ASSUME NEW k \in 2..(n + 1)
      PROVE  Inside(calls[t][1], calls[t][k])'
    <2>1. calls'[t][k].at = "destroy"
        <3>1. CASE k = 2
            BY <1>1, <3>1
        <3>2. CASE k # 2
            <4>1. 1 < k - 1 /\ k - 1 \in 1..n /\ 1 \in 1..n
                BY <1>1, <3>2
            <4>2. calls[t][k - 1].at = "destroy"
                BY <4>1 DEF Good, CallsInv, StackInv, Inside
            <4>3. QED
                BY <1>5, <3>2, <4>2
        <3>3. QED
            BY <3>1, <3>2
    <2>2. calls'[t][k].pool # g.pool
        BY <1>5
    <2>3. CASE Spent(g.pool)'
        BY <1>1, <2>1, <2>2, <2>3 DEF Inside
    <2>4. CASE Top(t).left = {} /\ f.left = {} /\ g.pool \in Children(f.pool)
        <3>1. f.pool \in lineage[g.pool] /\ lineage[f.pool] \subseteq lineage[g.pool]
            BY <2>4, ChildBelow, GoodAtWork, AtWorkIs DEF Good, TreeInv, AllPools
        <3>2. CASE k = 2
            BY <1>1, <2>1, <2>2, <2>4, <3>1, <3>2 DEF Inside
        <3>3. CASE k # 2
            <4>1. 1 < k - 1 /\ k - 1 \in 1..n /\ 1 \in 1..n
                BY <1>1, <3>3
            <4>2. Inside(calls[t][1], calls[t][k - 1]) /\ ~Spent(f.pool)
                BY <4>1, <2>4 DEF Good, CallsInv, StackInv, Spent
            <4>3. calls[t][k - 1].pool \in lineage[f.pool] /\ calls[t][k - 1].left = {}
                BY <1>1, <4>2 DEF Inside
            <4>4. QED
                BY <1>1, <1>5, <2>1, <2>2, <3>1, <3>3, <4>3 DEF Inside
        <3>4. QED
            BY <3>2, <3>3
    <2>5. QED
        BY <2>3, <2>4
<1>10. ASSUME NEW i \in 2..(n + 1), NEW k \in 2..(n + 1), i < k
       PROVE  Inside(calls[t][i], calls[t][k])'
    <2>1. i - 1 < k - 1 /\ k # 2
        BY <1>10, <1>1
    <2>2. Inside(calls[t][i - 1], calls[t][k - 1])
        BY <1>5, <2>1 DEF Good, CallsInv, StackInv
    <2>3. calls'[t][k] = calls[t][k - 1] /\ calls'[t][i].pool = calls[t][i - 1].pool
          /\ calls'[t][i].pool \in AtWork(t)
        BY <1>5, <2>1
    <2>4. QED
        BY <2>2, <2>3, <1>3 DEF Inside
<1>11. ASSUME NEW p \in AtWork(t), Destroys(t, p)
       PROVE  Destroys(t, p)'
    BY <1>3, <1>6, <1>7, <1>8, <1>11 DEF Destroys
<1>12. Destroys(t, g.pool)'
    <2>1. CASE Spent(g.pool)'
        BY <2>1 DEF Destroys
    <2>2. CASE g.pool \in Children(f.pool)
        <3>1. Destroys(t, f.pool) /\ ~Spent(f.pool)
            BY <1>1, <2>2, GoodFrame DEF Spent
        <3>2. f.pool \in AllPools
            BY DEF Frames
        <3>3. lineage[g.pool] = lineage[f.pool] \cup {g.pool}
            BY <2>2, <3>2, ChildBelow DEF Good, TreeInv
        <3>4. QED
            BY <1>6, <1>7, <1>8, <3>1, <3>3 DEF Destroys
    <2>3. QED
        BY <2>1, <2>2
<1>13. ASSUME NEW k \in 1..(n + 1)
       PROVE  /\ Live(calls[t][k].pool)'
              /\ IF calls'[t][k].at \in {"first", "link"} THEN Creates(t, calls[t][k])'
                                                         ELSE Destroys(t, calls[t][k].pool)'
    <2>1. CASE k = 1
        BY <1>1, <1>2, <1>12, <2>1 DEF Live
    <2>2. CASE k # 1
        <3>1. k \in 2..(n + 1)
            BY <1>4, <2>2
        <3>2. calls'[t][k].at = "destroy"
            BY <1>9, <3>1 DEF Inside
        <3>3. calls[t][k - 1].at = "destroy"
            <4>1. CASE k = 2
                BY <1>1, <4>1
            <4>2. CASE k # 2
                BY <1>5, <3>1, <3>2, <4>2
            <4>3. QED
                BY <4>1, <4>2
        <3>4. Destroys(t, calls[t][k - 1].pool)
            BY <1>5, <3>1, <3>3, GoodFrame
        <3>5. QED
            BY <1>3, <1>5, <1>11, <3>1, <3>2, <3>4 DEF Live
    <2>3. QED
        BY <2>1, <2>2
<1>14. StackInv(t)'
    <2>1. \A i, k \in 1..(n + 1) : i < k => Inside(calls[t][i], calls[t][k])'
        <3>1. SUFFICES ASSUME NEW i \in 1..(n + 1), NEW k \in 1..(n + 1), i < k
                       PROVE  Inside(calls[t][i], calls[t][k])'
            OBVIOUS
        <3>2. k \in 2..(n + 1) /\ (i = 1 \/ i \in 2..(n + 1))
            BY <1>1, <3>1
        <3>3. QED
            BY <1>9, <1>10, <3>1, <3>2
    <2>2. QED
        BY <1>1, <1>13, <2>1 DEF StackInv
<1>15. QED
    BY <1>7, <1>14

-----------------------------------------------------------------------------
(* Counts *)

LEMMA CountsFinite ==
    ASSUME TypeOK, NEW p \in AllPools
    PROVE  /\ IsFiniteSet(AllPools)
           /\ IsFiniteSet(users[p]) /\ Cardinality(users[p]) \in Nat
           /\ IsFiniteSet(Counted(p)) /\ Cardinality(Counted(p)) \in Nat
<1>1. IsFiniteSet({Base}) /\ IsFiniteSet(AllPools)
    BY FS_Singleton, FS_Union DEF AllPools
<1>2. IsFiniteSet(Threads \cup AllPools)
    BY <1>1, FS_Union
<1>3. users[p] \subseteq Threads \cup AllPools /\ Counted(p) \subseteq Pools
    BY DEF TypeOK, Counted, Children
<1>4. QED
    BY <1>1, <1>2, <1>3, FS_Subset, FS_CardinalityType

(* The count of a pool goes to zero exactly with its last user. *)
LEMMA ZeroIs ==
    ASSUME Good, NEW q \in AllPools, Live(q), NEW x \in users[q],
           ~(users[q] = {x} /\ \E c \in Pools : Live(c) /\ parent[c] = q)
    PROVE  /\ reference_count[q] = 1 <=> users[q] = {x}
           /\ users[q] = {x} => Children(q) = {}
<1>1. /\ IsFiniteSet(users[q]) /\ Cardinality(users[q]) \in Nat
      /\ IsFiniteSet(Counted(q)) /\ Cardinality(Counted(q)) \in Nat
    BY CountsFinite DEF Good, TreeInv
<1>2. reference_count[q] = Cardinality(users[q]) + Cardinality(Counted(q))
    BY DEF Good, CountExact
<1>3. users[q] = {x} => Children(q) = {}
    BY DEF Children
<1>4. Children(q) = {} => Cardinality(Counted(q)) = 0
    <2>1. Counted(q) \subseteq Children(q)
        BY DEF Counted
    <2>2. QED
        BY <2>1, <1>1, FS_EmptySet
<1>5. users[q] = {x} => reference_count[q] = 1
    <2>1. Cardinality({x}) = 1
        BY FS_Singleton
    <2>2. QED
        BY <1>2, <1>3, <1>4, <2>1
<1>6. ASSUME reference_count[q] = 1 PROVE users[q] = {x}
    <2>1. Cardinality(users[q] \ {x}) = Cardinality(users[q]) - 1
          /\ IsFiniteSet(users[q] \ {x}) /\ Cardinality(users[q] \ {x}) \in Nat
        BY <1>1, FS_RemoveElement, FS_CardinalityType
    <2>2. Cardinality(users[q] \ {x}) = 0
        BY <1>1, <1>2, <1>6, <2>1
    <2>3. users[q] \ {x} = {}
        BY <2>1, <2>2, FS_EmptySet
    <2>4. QED
        BY <2>3
<1>7. QED
    BY <1>3, <1>5, <1>6

(* The only frame of a pool says where it stands. *)
LEMMA TopStands ==
    ASSUME Good, NEW t \in Threads, ~Idle(t), NEW P
    PROVE  Stands(Top(t).pool, P) <=> Top(t).at \in P
<1>1. 1 \in 1..Len(calls[t]) /\ Top(t) = calls[t][1]
    BY StackTyped DEF Good, TreeInv
<1>2. ASSUME NEW u \in Threads, NEW i \in 1..Len(calls[u]), calls[u][i].pool = Top(t).pool
      PROVE  calls[u][i] = Top(t)
    <2>1. u = t
        BY <1>1, <1>2, GoodAtWork DEF AtWork
    <2>2. \A k, m \in 1..Len(calls[t]) : calls[t][k].pool = calls[t][m].pool => k = m
        BY GoodAtWork
    <2>3. i = 1
        BY <1>1, <1>2, <2>1, <2>2
    <2>4. QED
        BY <1>1, <2>1, <2>3
<1>3. QED
    BY <1>1, <1>2 DEF Stands

(* A child that gives its reference back does not give the last: its parent has
   a user, who is not to let go before it. *)
LEMMA ParentStays ==
    ASSUME Good, NEW t \in Threads, At(t, "parent")
    PROVE  LET c == Top(t).pool
               up == parent[c]
           IN  /\ c \in Pools /\ up \in AllPools /\ Live(up) /\ c \in Counted(up)
               /\ reference_count[up] # 1 /\ users[up] # {}
<1> DEFINE c == Top(t).pool
           up == parent[c]
<1>1. /\ c \in Pools /\ up \in AllPools /\ Live(up) /\ Live(c)
      /\ ~Idle(t) /\ Top(t).at = "parent"
    BY InListHasParent DEF At, Good, TreeInv
<1>2. c \in Children(up)
    BY <1>1 DEF Children
<1>3. c \in Counted(up)
    BY <1>1, <1>2, TopStands DEF Counted, Places
<1>4. users[up] # {}
    BY <1>1, <1>2 DEF Good, UsersInv, AllPools
<1>5. /\ IsFiniteSet(users[up]) /\ Cardinality(users[up]) \in Nat
      /\ IsFiniteSet(Counted(up)) /\ Cardinality(Counted(up)) \in Nat
    BY <1>1, CountsFinite DEF Good, TreeInv
<1>6. Cardinality(users[up]) # 0 /\ Cardinality(Counted(up)) # 0
    BY <1>3, <1>4, <1>5, FS_EmptySet
<1>7. reference_count[up] = Cardinality(users[up]) + Cardinality(Counted(up))
    BY <1>1 DEF Good, CountExact
<1>8. reference_count[up] # 1
    BY <1>5, <1>6, <1>7
<1>9. QED
    BY <1>1, <1>3, <1>4, <1>8

-----------------------------------------------------------------------------
(* CallsInv *)

LEMMA StackEmpty ==
    ASSUME NEW t \in Threads, Len(calls'[t]) = 0
    PROVE  StackInv(t)' /\ AtWork(t)' = {}
<1>1. 1..Len(calls'[t]) = {}
    OBVIOUS
<1>2. QED
    BY <1>1 DEF StackInv, AtWork

LEMMA StackBegun ==
    ASSUME NEW t \in Threads, NEW f, Len(calls'[t]) = 1, calls'[t][1] = f, Live(f.pool)',
           IF f.at \in {"first", "link"} THEN Creates(t, f)' ELSE Destroys(t, f.pool)'
    PROVE  StackInv(t)' /\ AtWork(t)' = {f.pool}
<1>1. 1..Len(calls'[t]) = {1}
    OBVIOUS
<1>2. \A i, k \in {1} : ~(i < k)
    OBVIOUS
<1>3. QED
    BY <1>1, <1>2 DEF StackInv, AtWork, Creates, Live

LEMMA CallsStep ==
    ASSUME Good, NEW t \in Threads, \A u \in Threads \ {t} : calls'[u] = calls[u],
           StackInv(t)', \A u \in Threads \ {t} : StackInv(u)',
           \A u \in Threads \ {t} : AtWork(t)' \cap AtWork(u) = {}
    PROVE  CallsInv'
<1>1. \A u \in Threads \ {t} : AtWork(u)' = AtWork(u)
    BY DEF AtWork
<1>2. QED
    BY <1>1 DEF CallsInv, Good

(* Where no users change *)
LEMMA OthersQuiet ==
    ASSUME Good, UNCHANGED <<memory, lineage, parent, users, first_cleanup>>,
           NEW t \in Threads, NEW u \in Threads \ {t},
           \A v \in Threads \ {t} : calls'[v] = calls[v],
           ~Idle(u) /\ Owns(u, Root(u)) => AtWork(t)' \cap Under(Root(u)) = {}
    PROVE  StackInv(u)'
<1>1. PICK S : S = {}
    OBVIOUS
<1>2. S \cap AtWork(u) = {} /\ \A p \in S \cap Under(Root(u)) : users'[p] \subseteq users[p]
    BY <1>1
<1>3. \A p \in AllPools \ S : users'[p] = users[p] /\ first_cleanup'[p] = first_cleanup[p]
    OBVIOUS
<1>4. QED
    BY <1>2, <1>3, OthersKept

LEMMA ReplacedQuiet ==
    ASSUME Good, TreeInv', UNCHANGED <<memory, lineage, parent, users, first_cleanup>>,
           NEW t \in Threads, ~Idle(t),
           NEW f \in Frames, Continue(t, <<>>, f), f.pool = Top(t).pool,
           f.at \in {"first", "link"} <=> Top(t).at \in {"first", "link"}
    PROVE  /\ StackInv(t)' /\ AtWork(t)' = AtWork(t)
           /\ CallsInv'
<1>1. PICK S : S = {}
    OBVIOUS
<1>2. S \cap AtWork(t) = {} /\ \A p \in S : users'[p] \subseteq users[p]
    BY <1>1
<1>3. \A p \in AllPools \ S : users'[p] = users[p] /\ first_cleanup'[p] = first_cleanup[p]
    OBVIOUS
<1>4. StackInv(t)' /\ AtWork(t)' = AtWork(t)
    BY <1>2, <1>3, StackReplaced
<1>5. \A v \in Threads \ {t} : calls'[v] = calls[v]
    BY TopReplaced DEF Good, TreeInv
<1>6. \A u \in Threads \ {t} : StackInv(u)'
    BY <1>4, <1>5, OthersQuiet DEF Owns
<1>7. \A u \in Threads \ {t} : AtWork(t)' \cap AtWork(u) = {}
    BY <1>4, GoodAtWork
<1>8. QED
    BY <1>4, <1>5, <1>6, <1>7, CallsStep

LEMMA ShareCalls ==
    ASSUME Good, TreeInv', NEW t \in Threads, NEW p \in Pools, NEW q \in Pools, NEW w \in Threads,
           \/ AddReference(t, w, p)
           \/ RegisterCleanup(t, p, q)
           \/ DeregisterCleanup(t, p, q)
    PROVE  CallsInv' /\ (DeregisterCleanup(t, p, q) => p \in users[q])
<1>1. /\ UNCHANGED <<memory, lineage, parent, calls>> /\ Uses(t, p) /\ Idle(t)
      /\ RegisterCleanup(t, p, q) => Uses(t, q)
      /\ t \in users[p] /\ Live(p) /\ p \in AllPools /\ q \in AllPools
    BY DEF AddReference, RegisterCleanup, DeregisterCleanup, structVars, Uses, AllPools
<1>2. \A u \in Threads : p \notin AtWork(u)
    BY <1>1, UserNotAtWork
<1>3. \A u \in Threads \ {t} : \A r : Owns(u, r) => p \notin Under(r)
    BY <1>1, NotOwned
<1>4. ASSUME NEW S, S \subseteq AllPools, \A u \in Threads : S \cap AtWork(u) = {},
             \A u \in Threads \ {t} : \A r : Owns(u, r) => S \cap Under(r) = {},
             \A a \in AllPools \ S : users'[a] = users[a] /\ first_cleanup'[a] = first_cleanup[a]
      PROVE  CallsInv'
    <2>1. AtWork(t)' = {} /\ StackInv(t)'
        <3>1. Len(calls'[t]) = 0
            BY <1>1 DEF Idle
        <3>2. QED
            BY <3>1, StackEmpty
    <2>2. \A u \in Threads \ {t} : StackInv(u)'
        BY <1>1, <1>4, <2>1, OthersKept
    <2>3. QED
        BY <1>1, <2>1, <2>2, CallsStep
<1>5. CASE AddReference(t, w, p)
    <2>1. \A a \in AllPools \ {p} : users'[a] = users[a] /\ first_cleanup'[a] = first_cleanup[a]
        BY <1>5 DEF AddReference, structVars, Good, TreeInv, TypeOK
    <2>2. ~DeregisterCleanup(t, p, q) \/ p \in users[q]
        BY <1>5 DEF AddReference, DeregisterCleanup, structVars, Good, TreeInv, TypeOK, AllPools
    <2>3. /\ {p} \subseteq AllPools /\ \A u \in Threads : {p} \cap AtWork(u) = {}
          /\ \A u \in Threads \ {t} : \A r : Owns(u, r) => {p} \cap Under(r) = {}
        BY <1>1, <1>2, <1>3
    <2>4. CallsInv'
        BY <1>4, <2>1, <2>3
    <2>5. QED
        BY <2>2, <2>4
<1>6. CASE RegisterCleanup(t, p, q)
    <2>1. \A a \in AllPools \ {p, q} : users'[a] = users[a] /\ first_cleanup'[a] = first_cleanup[a]
        BY <1>6 DEF RegisterCleanup, Good, TreeInv, TypeOK
    <2>2. t \in users[q] /\ \A u \in Threads : q \notin AtWork(u)
        BY <1>1, <1>6, UserNotAtWork DEF RegisterCleanup, Uses
    <2>3. \A u \in Threads \ {t} : \A r : Owns(u, r) => q \notin Under(r)
        BY <1>1, <2>2, NotOwned
    <2>7. /\ {p, q} \subseteq AllPools /\ \A u \in Threads : {p, q} \cap AtWork(u) = {}
          /\ \A u \in Threads \ {t} : \A r : Owns(u, r) => {p, q} \cap Under(r) = {}
        BY <1>1, <1>2, <1>3, <2>2, <2>3
    <2>4. CallsInv'
        BY <1>4, <2>1, <2>7
    <2>5. ~DeregisterCleanup(t, p, q)
        BY <1>6 DEF RegisterCleanup, DeregisterCleanup
    <2>6. QED
        BY <2>4, <2>5
<1>7. CASE DeregisterCleanup(t, p, q)
    <2>1. \A a \in AllPools \ {p, q} : users'[a] = users[a] /\ first_cleanup'[a] = first_cleanup[a]
        BY <1>7 DEF DeregisterCleanup, Good, TreeInv, TypeOK
    <2>2. p \in users[q]
        BY <1>1, <1>2, <1>7 DEF DeregisterCleanup, Good, CleanupsInv
    <2>3. \A u \in Threads \ {t} : \A r : Owns(u, r) => q \notin Under(r)
        <3>1. p \notin Threads
            BY DEF AllPools
        <3>2. QED
            BY <1>3, <2>2, <3>1 DEF Owns
    <2>4. ASSUME NEW u \in Threads, q \in AtWork(u) PROVE FALSE
        <3>1. PICK i \in 1..Len(calls[u]) : calls[u][i].pool = q
            BY <2>4 DEF AtWork
        <3>2. Creates(u, calls[u][i]) \/ Destroys(u, q)
            BY <3>1, GoodFrame
        <3>3. users[q] # {u} /\ ~Spent(q) /\ u # t /\ Live(q)
            BY <1>1, <2>2, <2>4, <3>1, GoodFrame, AtWorkIs DEF Spent, AllPools, Good, TreeInv
        <3>4. Owns(u, Root(u)) /\ q \in Under(Root(u))
            BY <3>1, <3>2, <3>3 DEF Creates, Destroys, Under
        <3>5. QED
            BY <2>3, <3>3, <3>4
    <2>5. /\ {p, q} \subseteq AllPools /\ \A u \in Threads : {p, q} \cap AtWork(u) = {}
          /\ \A u \in Threads \ {t} : \A r : Owns(u, r) => {p, q} \cap Under(r) = {}
        BY <1>1, <1>2, <1>3, <2>3, <2>4
    <2>6. CallsInv'
        BY <1>4, <2>1, <2>5
    <2>7. QED
        BY <2>2, <2>6
<1>8. QED
    BY <1>5, <1>6, <1>7

LEMMA ReleaseCalls ==
    ASSUME Good, TreeInv', Orderly', NEW t \in Threads, NEW p \in Pools, Release(t, p)
    PROVE  /\ CallsInv'
           /\ users'[p] = users[p] \ {t} /\ t \in users[p]
           /\ users[p] = {t} => AtWork(t)' = {p} /\ Children(p) = {}
           /\ \/ calls' = [calls EXCEPT ![t] = <<Frame(p, "destroy")>>]
              \/ calls' = calls
<1>1. /\ UNCHANGED <<memory, lineage, parent, first_cleanup>> /\ Uses(t, p) /\ Idle(t)
      /\ t \in users[p] /\ Live(p) /\ p \in AllPools /\ p # Base
    BY DEF Release, structVars, Uses, AllPools
<1>2. /\ users' = [users EXCEPT ![p] = @ \ {t}] /\ calls' = [calls EXCEPT ![t] = DestroyAtZero(p)]
      /\ ~(users[p] = {t} /\ \E c \in Pools : Live(c) /\ parent[c] = p)
    BY DEF Release, LetGo, Orderly
<1>3. users'[p] = users[p] \ {t} /\ \A a \in AllPools \ {p} : users'[a] = users[a]
    BY <1>1, <1>2 DEF Good, TreeInv, TypeOK
<1>4. /\ reference_count[p] = 1 <=> users[p] = {t}
      /\ users[p] = {t} => Children(p) = {}
    BY <1>1, <1>2, ZeroIs
<1>5. \A u \in Threads : p \notin AtWork(u)
    BY <1>1, UserNotAtWork
<1>6. \A u \in Threads \ {t} : \A r : Owns(u, r) => p \notin Under(r)
    BY <1>1, NotOwned
<1>7. /\ \A u \in Threads \ {t} : calls'[u] = calls[u]
      /\ StackInv(t)' /\ AtWork(t)' \subseteq {p}
      /\ users[p] = {t} => AtWork(t)' = {p}
      /\ \/ calls' = [calls EXCEPT ![t] = <<Frame(p, "destroy")>>]
         \/ calls' = calls
    <2>1. CASE reference_count[p] = 1
        <3>0. PICK f \in Frames : f = Frame(p, "destroy")
            BY <1>1, FrameIsFrame DEF Good, TreeInv, Places
        <3>1. f.pool = p /\ f.at = "destroy" /\ f.at \notin {"first", "link"}
            BY <1>1, <3>0, FrameIsFrame DEF Good, TreeInv, Places
        <3>2. calls' = [calls EXCEPT ![t] = <<f>>]
            BY <1>2, <2>1, <3>0 DEF DestroyAtZero
        <3>3. Len(calls'[t]) = 1 /\ calls'[t][1] = f /\ \A u \in Threads \ {t} : calls'[u] = calls[u]
            BY <3>1, <3>2, CallBegins DEF Good, TreeInv
        <3>4. Live(p)' /\ Spent(p)'
            BY <1>1, <1>3, <1>4, <2>1 DEF Live, Spent, Children
        <3>5. Live(f.pool)' /\ Destroys(t, f.pool)'
            BY <3>1, <3>4 DEF Destroys
        <3>6. StackInv(t)' /\ AtWork(t)' = {p}
            BY <3>1, <3>3, <3>5, StackBegun
        <3>7. QED
            BY <3>0, <3>2, <3>3, <3>6
    <2>2. CASE reference_count[p] # 1
        <3>1. calls' = calls
            BY <1>1, <1>2, <2>2 DEF DestroyAtZero, Idle, Good, TreeInv, TypeOK
        <3>2. Len(calls'[t]) = 0
            BY <3>1, <1>1 DEF Idle
        <3>3. QED
            BY <3>1, <3>2, <1>4, <2>2, StackEmpty
    <2>3. QED
        BY <2>1, <2>2
<1>8. \A u \in Threads \ {t} : StackInv(u)'
    <2>1. \A u \in Threads \ {t} : {p} \cap AtWork(u) = {}
        BY <1>5
    <2>2. \A a \in AllPools \ {p} : users'[a] = users[a] /\ first_cleanup'[a] = first_cleanup[a]
        BY <1>1, <1>3
    <2>3. \A u \in Threads \ {t} : \A r : Owns(u, r) =>
              AtWork(t)' \cap Under(r) = {} /\ {p} \cap Under(r) = {}
        BY <1>6, <1>7
    <2>4. QED
        BY <1>1, <1>7, <2>1, <2>2, <2>3, OthersKept
<1>9. CallsInv'
    <2>1. \A u \in Threads \ {t} : AtWork(t)' \cap AtWork(u) = {}
        BY <1>5, <1>7
    <2>2. QED
        BY <1>7, <1>8, <2>1, CallsStep
<1>10. QED
    BY <1>1, <1>3, <1>4, <1>7, <1>9

LEMMA DestroyCalls ==
    ASSUME Good, TreeInv', NEW t \in Threads, NEW p \in Pools, Destroy(t, p)
    PROVE  CallsInv' /\ AtWork(t)' = {p}
<1>1. /\ UNCHANGED <<memory, lineage, parent, first_cleanup, users>> /\ Uses(t, p) /\ Idle(t)
      /\ t \in users[p] /\ Live(p) /\ p \in AllPools /\ p # Base
      /\ calls' = [calls EXCEPT ![t] = <<Frame(p, "destroy")>>]
      /\ \A q \in Under(p) :
          /\ users[q] \ {t} \subseteq Under(p) \cap lineage[q]
          /\ \A u \in Threads : \A i \in 1..Len(calls[u]) : calls[u][i].pool # q
    BY DEF Destroy, structVars, countVars, Uses, AllPools
<1>2. \A u \in Threads : p \notin AtWork(u)
    BY <1>1, UserNotAtWork
<1>3. \A u \in Threads \ {t} : \A r : Owns(u, r) => p \notin Under(r)
    BY <1>1, NotOwned
<1>13. PICK f \in Frames : f = Frame(p, "destroy")
    BY <1>1, FrameIsFrame DEF Good, TreeInv, Places
<1>4. f.pool = p /\ f.at = "destroy" /\ f.at \notin {"first", "link"}
    BY <1>1, <1>13, FrameIsFrame DEF Good, TreeInv, Places
<1>5. /\ Len(calls'[t]) = 1 /\ calls'[t][1] = f /\ \A u \in Threads \ {t} : calls'[u] = calls[u]
    BY <1>1, <1>4, <1>13, CallBegins DEF Good, TreeInv
<1>6. \A u \in Threads \ {t} : AtWork(u) \cap Under(p) = {} /\ AtWork(u)' = AtWork(u)
    BY <1>1, <1>5 DEF AtWork
<1>7. Owns(t, p)' /\ AtWork(t)' = {p}
    <2>1. Under(p)' = Under(p)
        BY <1>1 DEF Under, Live
    <2>2. 1..Len(calls'[t]) = {1}
        BY <1>5
    <2>3. AtWork(t)' = {p}
        BY <1>4, <1>5, <2>2 DEF AtWork
    <2>4. Owns(t, p)'
        BY <1>1, <1>6, <2>1 DEF Owns
    <2>5. QED
        BY <2>3, <2>4
<1>8. Destroys(t, f.pool)'
    <2>1. Root(t)' = p
        BY <1>4, <1>5 DEF Root
    <2>2. p \in lineage'[p] /\ \A a \in lineage'[p] : p \in lineage'[a] => a = p
        BY <1>1 DEF Good, TreeInv, LineageInv
    <2>3. QED
        BY <1>4, <1>7, <2>1, <2>2 DEF Destroys
<1>9. StackInv(t)'
    BY <1>1, <1>4, <1>5, <1>8, StackBegun DEF Live
<1>10. \A u \in Threads \ {t} : StackInv(u)'
    BY <1>1, <1>3, <1>5, <1>7, OthersQuiet
<1>11. \A u \in Threads \ {t} : AtWork(t)' \cap AtWork(u) = {}
    BY <1>2, <1>7
<1>12. QED
    BY <1>5, <1>7, <1>9, <1>10, <1>11, CallsStep

(* In a list, a thread goes on with its frame, or a create returns. *)
LEMMA InListGoesOn ==
    ASSUME TreeInv, NEW t \in Threads,
           AddChild(t) \/ LinkChild(t) \/ ChildrenGone(t) \/ Search(t) \/ Unlink(t)
    PROVE  /\ ~Idle(t) /\ Top(t) \in Frames /\ Live(Top(t).pool)
           /\ UNCHANGED <<memory, lineage, parent, users, first_cleanup, reference_count, broken, early>>
           /\ \/ LinkChild(t) /\ Return(t) /\ Top(t).at = "link"
              \/ \E f \in Frames :
                    /\ Continue(t, <<>>, f) /\ f.pool = Top(t).pool /\ f.left = Top(t).left
                    /\ f.at \in {"first", "link"} <=> Top(t).at \in {"first", "link"}
                    /\ f.at = "free" => parent[f.pool] = NoPool
                    /\ Top(t).at # "free" /\ f.at # "destroy"
<1>1. \E place \in Places : At(t, place)
    BY DEF AddChild, LinkChild, ChildrenGone, InChildren, Search, Unlink, Places
<1>2. /\ ~Idle(t) /\ Top(t) \in Frames /\ Live(Top(t).pool) /\ Top(t) = calls[t][1]
      /\ Len(calls[t]) \in Nat /\ 1 \in 1..Len(calls[t])
    BY <1>1, TopIsLive, StackTyped DEF TreeInv
<1>3. UNCHANGED <<memory, lineage, parent, users, first_cleanup, reference_count, broken, early>>
    BY DEF AddChild, LinkChild, ChildrenGone, Search, Unlink, structVars, countVars, history
<1>4. CASE AddChild(t)
    <2>1. PICK f : f = [Top(t) EXCEPT !.at = "link"]
        OBVIOUS
    <2>2. f \in Frames /\ f.pool = Top(t).pool /\ f.left = Top(t).left /\ f.at = "link"
        BY <1>2, <2>1 DEF Frames, Places
    <2>3. Continue(t, <<>>, f) /\ Top(t).at = "first"
        BY <1>4, <2>1 DEF AddChild, At
    <2>4. QED
        BY <1>2, <1>3, <2>2, <2>3
<1>5. CASE LinkChild(t)
    <2>1. Top(t).at = "link" /\ Return(t)
        BY <1>5 DEF LinkChild, At
    <2>2. QED
        BY <1>2, <1>3, <1>5, <2>1
<1>6. CASE ChildrenGone(t)
    <2>1. Top(t).at = "destroy"
        BY <1>6 DEF ChildrenGone, InChildren, At
    <2>2. \E f : /\ Continue(t, <<>>, f)
                 /\ \/ parent[Top(t).pool] = NoPool /\ f = [Top(t) EXCEPT !.at = "free"]
                    \/ /\ parent[Top(t).pool] # NoPool
                       /\ f = [Top(t) EXCEPT !.at = "search",
                                             !.sibling = first_child[parent[Top(t).pool]]]
        <3>1. CASE parent[Top(t).pool] = NoPool
            BY <1>6, <3>1 DEF ChildrenGone
        <3>2. CASE parent[Top(t).pool] # NoPool
            BY <1>6, <3>2 DEF ChildrenGone
        <3>3. QED
            BY <3>1, <3>2
    <2>3. PICK f : /\ Continue(t, <<>>, f)
                   /\ \/ parent[Top(t).pool] = NoPool /\ f = [Top(t) EXCEPT !.at = "free"]
                      \/ /\ parent[Top(t).pool] # NoPool
                         /\ f = [Top(t) EXCEPT !.at = "search",
                                               !.sibling = first_child[parent[Top(t).pool]]]
        BY <2>2
    <2>4. parent[Top(t).pool] # NoPool => first_child[parent[Top(t).pool]] \in Pools \cup {NoPool}
        BY <1>2 DEF TreeInv, TypeOK, Frames
    <2>5. /\ f \in Frames /\ f.pool = Top(t).pool /\ f.left = Top(t).left
          /\ f.at \notin {"first", "link", "destroy"} /\ (f.at = "free" => parent[f.pool] = NoPool)
        BY <1>2, <2>3, <2>4 DEF Frames, Places
    <2>6. QED
        BY <1>2, <1>3, <2>1, <2>3, <2>5
<1>7. CASE Search(t)
    <2>1. Top(t).at = "search" /\ Top(t).sibling \in Pools
        BY <1>2, <1>7 DEF Search, At, Frames
    <2>2. PICK f : f = IF Top(t).sibling = Top(t).pool
                THEN [Top(t) EXCEPT !.at = "unlink", !.sibling = next_sibling[Top(t).pool]]
                ELSE [Top(t) EXCEPT !.prev = Top(t).sibling, !.sibling = next_sibling[Top(t).sibling]]
        OBVIOUS
    <2>3. Continue(t, <<>>, f)
        BY <1>7, <2>2 DEF Search
    <2>4. next_sibling[Top(t).sibling] \in Pools \cup {NoPool}
        BY <2>1 DEF TreeInv, TypeOK, AllPools
    <2>5. CASE Top(t).sibling = Top(t).pool
        <3>1. f \in Frames /\ f.pool = Top(t).pool /\ f.left = Top(t).left /\ f.at = "unlink"
            BY <1>2, <2>1, <2>2, <2>4, <2>5 DEF Frames, Places
        <3>2. QED
            BY <1>2, <1>3, <2>1, <2>3, <3>1
    <2>6. CASE Top(t).sibling # Top(t).pool
        <3>1. f \in Frames /\ f.pool = Top(t).pool /\ f.left = Top(t).left /\ f.at = "search"
            BY <1>2, <2>1, <2>2, <2>4, <2>6 DEF Frames, Places
        <3>2. QED
            BY <1>2, <1>3, <2>1, <2>3, <3>1
    <2>7. QED
        BY <2>5, <2>6
<1>8. CASE Unlink(t)
    <2>1. PICK f : f = [Top(t) EXCEPT !.at = "parent", !.prev = NoPool, !.sibling = NoPool]
        OBVIOUS
    <2>2. f \in Frames /\ f.pool = Top(t).pool /\ f.left = Top(t).left /\ f.at = "parent"
        BY <1>2, <2>1 DEF Frames, Places
    <2>3. Continue(t, <<>>, f) /\ Top(t).at = "unlink"
        BY <1>8, <2>1 DEF Unlink, At
    <2>4. QED
        BY <1>2, <1>3, <2>2, <2>3
<1>9. QED
    BY <1>4, <1>5, <1>6, <1>7, <1>8

LEMMA InListFrames ==
    ASSUME Good, NEW t \in Threads,
           AddChild(t) \/ LinkChild(t) \/ ChildrenGone(t) \/ Search(t) \/ Unlink(t)
    PROVE  /\ ~Idle(t) /\ Top(t) \in Frames /\ Live(Top(t).pool)
           /\ UNCHANGED <<memory, lineage, parent, users, first_cleanup, reference_count, broken, early>>
           /\ \/ /\ Len(calls[t]) = 1 /\ Len(calls'[t]) = 0 /\ Return(t)
                 /\ Top(t).at = "link" /\ users[Top(t).pool] = {t}
                 /\ first_cleanup[Top(t).pool] = {}
              \/ \E f \in Frames :
                    /\ Continue(t, <<>>, f) /\ f.pool = Top(t).pool /\ f.left = Top(t).left
                    /\ f.at \in {"first", "link"} <=> Top(t).at \in {"first", "link"}
                    /\ f.at = "free" => parent[f.pool] = NoPool
                    /\ Top(t).at # "free" /\ f.at # "destroy"
<1>1. /\ ~Idle(t) /\ Top(t) = calls[t][1] /\ 1 \in 1..Len(calls[t]) /\ Len(calls[t]) \in Nat
    BY InListGoesOn, StackTyped DEF Good, TreeInv
<1>2. ASSUME Return(t), Top(t).at = "link"
      PROVE  /\ Len(calls[t]) = 1 /\ Len(calls'[t]) = 0
             /\ users[Top(t).pool] = {t} /\ first_cleanup[Top(t).pool] = {}
    <2>1. Creates(t, Top(t))
        BY <1>1, <1>2, GoodFrame
    <2>2. QED
        BY <1>1, <1>2, <2>1, TopReturns DEF Creates, Good, TreeInv
<1>3. QED
    BY <1>2, InListGoesOn DEF Good

LEMMA InListCalls ==
    ASSUME Good, TreeInv', NEW t \in Threads,
           AddChild(t) \/ LinkChild(t) \/ ChildrenGone(t) \/ Search(t) \/ Unlink(t)
    PROVE  CallsInv'
<1>1. CASE Len(calls[t]) = 1 /\ Len(calls'[t]) = 0 /\ Return(t)
    <2>1. StackInv(t)' /\ AtWork(t)' = {}
        BY <1>1, StackEmpty
    <2>2. \A u \in Threads \ {t} : calls'[u] = calls[u]
        BY <1>1, InListFrames, TopReturns DEF Good, TreeInv
    <2>3. \A u \in Threads \ {t} : StackInv(u)'
        BY <2>1, <2>2, InListFrames, OthersQuiet
    <2>4. QED
        BY <2>1, <2>2, <2>3, CallsStep
<1>2. CASE \E f \in Frames :
              /\ Continue(t, <<>>, f) /\ f.pool = Top(t).pool
              /\ f.at \in {"first", "link"} <=> Top(t).at \in {"first", "link"}
    BY <1>2, InListFrames, ReplacedQuiet
<1>3. QED
    BY <1>1, <1>2, InListFrames

LEMMA ReleaseParentCalls ==
    ASSUME Good, TreeInv', NEW t \in Threads, ReleaseParent(t)
    PROVE  CallsInv'
<1>1. At(t, "parent") /\ UNCHANGED <<memory, lineage, parent, users, first_cleanup>>
    BY DEF ReleaseParent, structVars
<1>2. PICK f : f = [Top(t) EXCEPT !.at = "free"]
    OBVIOUS
<1>3. ~Idle(t) /\ Top(t) \in Frames /\ Top(t).at = "parent"
    BY <1>1, TopIsLive DEF Good, TreeInv, Places
<1>4. f \in Frames /\ f.pool = Top(t).pool /\ f.at = "free"
    BY <1>2, <1>3 DEF Frames, Places
<1>5. Continue(t, <<>>, f)
    BY <1>1, <1>2, ParentStays DEF ReleaseParent, DestroyAtZero
<1>6. f.at \in {"first", "link"} <=> Top(t).at \in {"first", "link"}
    BY <1>3, <1>4
<1>7. QED
    BY <1>1, <1>3, <1>4, <1>5, <1>6, ReplacedQuiet

(* The pool that a cleanup releases is in nobody's hands. *)
LEMMA CleanedIs ==
    ASSUME Good, NEW t \in Threads, At(t, "destroy"), NEW q \in Top(t).left
    PROVE  LET p == Top(t).pool
           IN  /\ p \in Pools /\ p \in AtWork(t) /\ q \in Pools /\ p \in users[q] /\ q # p
               /\ Live(q) /\ q \notin lineage[p]
               /\ \A u \in Threads : q \notin AtWork(u)
               /\ \A u \in Threads \ {t} : \A r : Owns(u, r) => q \notin Under(r)
<1> DEFINE p == Top(t).pool
<1>1. /\ ~Idle(t) /\ Top(t) = calls[t][1] /\ 1 \in 1..Len(calls[t]) /\ q \in Pools
      /\ Top(t).at = "destroy" /\ Len(calls[t]) \in Nat
    BY TopIsLive, StackTyped DEF Good, TreeInv, Places
<1>2. p \in Pools /\ Live(p) /\ p \in AtWork(t) /\ Destroys(t, p)
    BY <1>1, GoodFrame
<1>3. p \in users[q] /\ q \notin lineage[p]
    BY <1>1, <1>2 DEF Good, CleanupsInv
<1>4. q # p /\ Live(q)
    BY <1>1, <1>2, <1>3 DEF Good, TreeInv, LineageInv, UsersInv
<1>5. p \notin Threads
    BY <1>2 DEF AllPools
<1>6. \A u \in Threads \ {t} : \A r : Owns(u, r) => q \notin Under(r)
    <2>1. SUFFICES ASSUME NEW u \in Threads \ {t}, NEW r, Owns(u, r), q \in Under(r) PROVE FALSE
        OBVIOUS
    <2>2. p \in Under(r)
        BY <1>3, <1>5, <2>1 DEF Owns
    <2>3. QED
        BY <1>2, <2>1, <2>2 DEF Owns
<1>7. ASSUME NEW u \in Threads, q \in AtWork(u) PROVE FALSE
    <2>1. PICK i \in 1..Len(calls[u]) : calls[u][i].pool = q
        BY <1>7 DEF AtWork
    <2>2. Creates(u, calls[u][i]) \/ Destroys(u, q)
        BY <2>1, GoodFrame
    <2>3. users[q] # {u} /\ ~Spent(q)
        BY <1>3, <1>5 DEF Spent
    <2>4. Owns(u, Root(u)) /\ q \in Under(Root(u))
        BY <1>1, <1>4, <2>1, <2>2, <2>3 DEF Creates, Destroys, Under
    <2>5. u = t /\ p \in lineage[q]
        BY <1>3, <1>5, <1>6, <2>4 DEF Owns
    <2>6. ~Spent(p)
        BY <1>1, <1>2, <1>4, <2>5, SpentAlone DEF Spent, Good, TreeInv
    <2>7. i # 1
        BY <1>1, <1>4, <2>1, <2>5
    <2>8. Inside(calls[t][1], calls[t][i])
        <3>1. 1 < i /\ i \in 1..Len(calls[t])
            BY <1>1, <2>5, <2>7
        <3>2. QED
            BY <1>1, <3>1 DEF Good, CallsInv, StackInv
    <2>9. q \in lineage[p]
        BY <1>1, <2>1, <2>5, <2>6, <2>8 DEF Inside
    <2>10. QED
        BY <1>3, <2>9
<1>8. QED
    BY <1>1, <1>2, <1>3, <1>4, <1>6, <1>7

LEMMA RunCleanupCalls ==
    ASSUME Good, TreeInv', Orderly', NEW t \in Threads, At(t, "destroy"),
           UNCHANGED <<memory, lineage, parent, first_cleanup>>,
           NEW q \in Top(t).left, LetGo(Top(t).pool, q),
           NEW f \in Frames, f = [Top(t) EXCEPT !.left = @ \ {q}],
           Continue(t, DestroyAtZero(q), f)
    PROVE  /\ CallsInv'
           /\ \A u \in Threads \ {t} : calls'[u] = calls[u]
           /\ users' = [users EXCEPT ![q] = @ \ {Top(t).pool}]
           /\ users[q] = {Top(t).pool} =>
                 Children(q) = {} /\ AtWork(t)' = AtWork(t) \cup {q}
                 /\ Continue(t, <<Frame(q, "destroy")>>, f)
           /\ users[q] # {Top(t).pool} => AtWork(t)' = AtWork(t) /\ Continue(t, <<>>, f)
<1> DEFINE p == Top(t).pool
<1>1. /\ p \in Pools /\ p \in AtWork(t) /\ q \in Pools /\ p \in users[q] /\ q # p
      /\ Live(q) /\ q \notin lineage[p] /\ q \in AllPools
      /\ \A u \in Threads : q \notin AtWork(u)
      /\ \A u \in Threads \ {t} : \A r : Owns(u, r) => q \notin Under(r)
    BY CleanedIs DEF AllPools
<1>2. ~Idle(t) /\ Top(t).at = "destroy" /\ Top(t) \in Frames
    BY TopIsLive DEF Places, Good, TreeInv
<1>3. /\ users' = [users EXCEPT ![q] = @ \ {p}]
      /\ ~(users[q] = {p} /\ \E c \in Pools : Live(c) /\ parent[c] = q)
    BY DEF LetGo, Orderly
<1>4. users'[q] = users[q] \ {p} /\ \A a \in AllPools \ {q} : users'[a] = users[a]
    BY <1>1, <1>3 DEF Good, TreeInv, TypeOK
<1>5. /\ reference_count[q] = 1 <=> users[q] = {p}
      /\ users[q] = {p} => Children(q) = {}
    BY <1>1, <1>3, ZeroIs
<1>6. f.pool = p /\ f.at = "destroy" /\ f.left = Top(t).left \ {q}
    BY <1>2 DEF Frames
<1>7. {q} \cap AtWork(t) = {} /\ \A a \in {q} : users'[a] \subseteq users[a]
    BY <1>1, <1>4
<1>8. \A a \in AllPools \ {q} : users'[a] = users[a] /\ first_cleanup'[a] = first_cleanup[a]
    BY <1>4
<1>9. /\ StackInv(t)' /\ \A u \in Threads \ {t} : calls'[u] = calls[u]
      /\ users[q] = {p} => AtWork(t)' = AtWork(t) \cup {q} /\ Continue(t, <<Frame(q, "destroy")>>, f)
      /\ users[q] # {p} => AtWork(t)' = AtWork(t) /\ Continue(t, <<>>, f)
    <2>1. CASE users[q] = {p}
        <3>1. PICK g \in Frames : g = Frame(q, "destroy")
            BY <1>1, FrameIsFrame DEF Good, TreeInv, Places
        <3>2. g.pool = q /\ g.at = "destroy"
            BY <1>1, <3>1, FrameIsFrame DEF Good, TreeInv, Places
        <3>3. Continue(t, <<g>>, f) /\ Continue(t, <<Frame(q, "destroy")>>, f)
            BY <1>5, <2>1, <3>1 DEF DestroyAtZero
        <3>4. Spent(g.pool)'
            BY <1>4, <1>5, <2>1, <3>2 DEF Spent, Children, Live
        <3>5. StackInv(t)' /\ AtWork(t)' = AtWork(t) \cup {g.pool}
            BY <1>1, <1>2, <1>6, <1>7, <1>8, <3>2, <3>3, <3>4, StackPushed
        <3>6. \A u \in Threads \ {t} : calls'[u] = calls[u]
            BY <1>2, <3>3, TopCalls DEF Good, TreeInv
        <3>7. QED
            BY <2>1, <3>2, <3>3, <3>5, <3>6
    <2>2. CASE users[q] # {p}
        <3>1. Continue(t, <<>>, f)
            BY <1>5, <2>2 DEF DestroyAtZero
        <3>2. f.at \in {"first", "link"} <=> Top(t).at \in {"first", "link"}
            BY <1>2, <1>6
        <3>3. StackInv(t)' /\ AtWork(t)' = AtWork(t)
            BY <1>2, <1>6, <1>7, <1>8, <3>1, <3>2, StackReplaced
        <3>4. \A u \in Threads \ {t} : calls'[u] = calls[u]
            BY <1>2, <3>1, TopReplaced DEF Good, TreeInv
        <3>5. QED
            BY <2>2, <3>1, <3>3, <3>4
    <2>3. QED
        BY <2>1, <2>2
<1>10. AtWork(t)' \subseteq AtWork(t) \cup {q}
    BY <1>9
<1>11. \A u \in Threads \ {t} : StackInv(u)'
    <2>1. \A u \in Threads \ {t} : {q} \cap AtWork(u) = {}
        BY <1>1
    <2>2. \A u \in Threads \ {t} : \A r : Owns(u, r) =>
              AtWork(t)' \cap Under(r) = {} /\ {q} \cap Under(r) = {}
        BY <1>1, <1>10 DEF Owns
    <2>3. QED
        BY <1>8, <1>9, <2>1, <2>2, OthersKept
<1>12. \A u \in Threads \ {t} : AtWork(t)' \cap AtWork(u) = {}
    BY <1>1, <1>10, GoodAtWork
<1>13. CallsInv'
    BY <1>9, <1>11, <1>12, CallsStep
<1>14. QED
    BY <1>3, <1>5, <1>9, <1>13

(* The child that is destroyed next is in what the thread owns, and in no call. *)
LEMMA ChildIs ==
    ASSUME Good, NEW t \in Threads, DestroyChild(t)
    PROVE  LET p == Top(t).pool
               c == first_child[p]
           IN  /\ ~Idle(t) /\ Top(t) \in Frames /\ Top(t).at = "destroy" /\ Top(t).left = {}
               /\ p \in Pools /\ p \in AtWork(t) /\ c \in Children(p) /\ c \in Pools /\ Live(c)
               /\ \A u \in Threads : c \notin AtWork(u)
               /\ \A u \in Threads \ {t} : ~Idle(u) /\ Owns(u, Root(u)) => c \notin Under(Root(u))
               /\ Continue(t, <<Frame(c, "destroy")>>, Top(t))
<1> DEFINE p == Top(t).pool
           c == first_child[p]
<1>1. At(t, "destroy") /\ Top(t).left = {} /\ c # NoPool /\ Live(c)
      /\ Continue(t, <<Frame(c, "destroy")>>, Top(t))
    BY DEF DestroyChild, InChildren
<1>2. /\ ~Idle(t) /\ Top(t) = calls[t][1] /\ 1 \in 1..Len(calls[t]) /\ Top(t) \in Frames
      /\ Top(t).at = "destroy" /\ Len(calls[t]) \in Nat
    BY <1>1, TopIsLive, StackTyped DEF Good, TreeInv, Places
<1>3. p \in Pools /\ Live(p) /\ p \in AtWork(t) /\ Destroys(t, p)
    BY <1>2, GoodFrame
<1>4. c \in Pools /\ parent[c] = p /\ c \in Children(p)
    BY <1>1, <1>3 DEF Good, TreeInv, TypeOK, FamilyInv, Children, AllPools
<1>5. Owns(t, Root(t)) /\ Root(t) \in lineage[p] /\ Root(t) \in AtWork(t)
    BY <1>2, <1>3, <1>4, GoodAtWork DEF Destroys, Spent
<1>6. /\ lineage[c] = lineage[p] \cup {c} /\ p \in lineage[c] /\ c \notin lineage[p] /\ p # c
    BY <1>3, <1>4, ChildBelow DEF Good, TreeInv, AllPools
<1>7. c \in Under(Root(t))
    BY <1>1, <1>4, <1>5, <1>6 DEF Under
<1>8. \A u \in Threads \ {t} : c \notin AtWork(u)
    BY <1>5, <1>7 DEF Owns
<1>9. c \notin AtWork(t)
    <2>1. SUFFICES ASSUME NEW i \in 1..Len(calls[t]), calls[t][i].pool = c PROVE FALSE
        BY DEF AtWork
    <2>2. 1 < i
        BY <1>2, <1>6, <2>1
    <2>3. Inside(calls[t][1], calls[t][i])
        BY <1>2, <2>2 DEF Good, CallsInv, StackInv
    <2>4. c \in lineage[p]
        BY <1>2, <1>4, <2>1, <2>3 DEF Inside, Spent
    <2>5. QED
        BY <1>6, <2>4
<1>10. ASSUME NEW u \in Threads \ {t}, ~Idle(u), Owns(u, Root(u)), c \in Under(Root(u))
       PROVE  FALSE
    <2>1. Root(u) \in AtWork(u) /\ Root(u) \in lineage[c]
        BY <1>10, GoodAtWork DEF Under
    <2>2. Root(u) # c
        BY <1>8, <2>1
    <2>3. Root(u) \in lineage[p]
        BY <1>6, <2>1, <2>2
    <2>4. p \in Under(Root(u))
        BY <1>3, <2>3 DEF Under
    <2>5. QED
        BY <1>3, <1>10, <2>4 DEF Owns
<1>11. QED
    BY <1>1, <1>2, <1>3, <1>4, <1>8, <1>9, <1>10

LEMMA DestroyChildCalls ==
    ASSUME Good, TreeInv', NEW t \in Threads, DestroyChild(t)
    PROVE  CallsInv'
<1> DEFINE p == Top(t).pool
<1>1. PICK c \in Pools : c = first_child[p]
    BY ChildIs
<1>2. /\ ~Idle(t) /\ Top(t) \in Frames /\ Top(t).at = "destroy" /\ Top(t).left = {}
      /\ p \in Pools /\ p \in AtWork(t) /\ c \in Children(p) /\ c \in Pools /\ Live(c) /\ c \in AllPools
      /\ \A u \in Threads : c \notin AtWork(u)
      /\ \A u \in Threads \ {t} : ~Idle(u) /\ Owns(u, Root(u)) => c \notin Under(Root(u))
      /\ Continue(t, <<Frame(c, "destroy")>>, Top(t))
    BY <1>1, ChildIs DEF AllPools
<1>3. UNCHANGED <<memory, lineage, parent, users, first_cleanup>>
    BY DEF DestroyChild, structVars, countVars
<1>4. PICK f \in Frames : f = Top(t)
    BY <1>2
<1>5. PICK g \in Frames : g = Frame(c, "destroy")
    BY <1>2, FrameIsFrame DEF Good, TreeInv, Places
<1>6. g.pool = c /\ g.at = "destroy"
    BY <1>2, <1>5, FrameIsFrame DEF Good, TreeInv, Places
<1>7. Continue(t, <<g>>, f)
    BY <1>2, <1>4, <1>5
<1>8. PICK S : S = {}
    OBVIOUS
<1>9. /\ S \cap AtWork(t) = {} /\ \A a \in S : users'[a] \subseteq users[a]
      /\ \A a \in AllPools \ S : users'[a] = users[a] /\ first_cleanup'[a] = first_cleanup[a]
    BY <1>3, <1>8
<1>10. StackInv(t)' /\ AtWork(t)' = AtWork(t) \cup {c}
    <2>1. f.pool = Top(t).pool /\ f.at = "destroy" /\ f.left = {} /\ g.pool \in Children(f.pool)
        BY <1>2, <1>4, <1>6
    <2>2. StackInv(t)' /\ AtWork(t)' = AtWork(t) \cup {g.pool}
        BY <1>2, <1>3, <1>6, <1>7, <1>9, <2>1, StackPushed
    <2>3. QED
        BY <1>6, <2>2
<1>11. \A u \in Threads \ {t} : calls'[u] = calls[u]
    BY <1>2, <1>7, TopCalls DEF Good, TreeInv
<1>12. \A u \in Threads \ {t} : StackInv(u)'
    <2>1. \A u \in Threads \ {t} : ~Idle(u) /\ Owns(u, Root(u)) => AtWork(t)' \cap Under(Root(u)) = {}
        BY <1>2, <1>10 DEF Owns
    <2>2. QED
        BY <1>3, <1>11, <2>1, OthersQuiet
<1>13. \A u \in Threads \ {t} : AtWork(t)' \cap AtWork(u) = {}
    BY <1>2, <1>10, GoodAtWork
<1>14. QED
    BY <1>10, <1>11, <1>12, <1>13, CallsStep

(* A new pool is in nothing that a thread is at work on. *)
LEMMA CreatedOthers ==
    ASSUME Good, TreeInv', NEW t \in Threads, NEW u \in Threads, NEW c \in Unused,
           NEW W, NEW p \in AllPools \cup {NoPool},
           memory' = [memory EXCEPT ![c] = "live"],
           lineage' = [lineage EXCEPT ![c] = W \cup {c}],
           parent' = [parent EXCEPT ![c] = p],
           users' = [users EXCEPT ![c] = {t}], first_cleanup' = first_cleanup,
           p \notin AtWork(u), ~Idle(u) /\ Owns(u, Root(u)) => Root(u) \notin W,
           calls'[u] = calls[u],
           \A v \in Threads \ {t} : calls'[v] = calls[v], AtWork(t)' \subseteq AtWork(t) \cup {c}
    PROVE  StackInv(u)'
<1>1. /\ c \in Pools /\ c \in AllPools /\ ~Live(c)
      /\ \A q \in AllPools \ {c} : /\ (Live(q)' <=> Live(q)) /\ lineage'[q] = lineage[q]
                                   /\ parent'[q] = parent[q] /\ users'[q] = users[q]
      /\ lineage'[c] = W \cup {c} /\ parent'[c] = p
    BY UnusedIs DEF Good, TreeInv, TypeOK, Live
<1>2. \A q \in AtWork(u) : q \in Pools /\ q \in AllPools /\ Live(q) /\ q # c
    BY <1>1, GoodAtWork DEF AllPools
<1>3. ASSUME NEW q \in AtWork(u)
      PROVE  /\ Live(q)' /\ lineage'[q] = lineage[q] /\ users'[q] = users[q]
             /\ first_cleanup'[q] = first_cleanup[q]
             /\ Children(q) = {} => Children(q)' = {}
             /\ \A a \in lineage[q] : lineage'[a] = lineage[a]
    <2>1. q \in AllPools \ {c} /\ q # p
        BY <1>2
    <2>2. \A a \in lineage[q] : a \in AllPools /\ a # c
        BY <1>1, <1>2 DEF Good, TreeInv, TypeOK, LineageInv
    <2>3. Children(q) = {} => Children(q)' = {}
        BY <1>1, <2>1 DEF Children, AllPools
    <2>4. QED
        BY <1>1, <1>2, <2>1, <2>2, <2>3
<1>4. ASSUME ~Idle(u), NEW r, r = Root(u), Owns(u, r)
      PROVE  Owns(u, r)'
    <2>1. r \in AtWork(u) /\ r \notin W
        BY <1>4, GoodAtWork
    <2>2. Under(r)' = Under(r)
        <3>1. c \notin Under(r) /\ ~(r \in lineage'[c])
            BY <1>1, <1>2, <2>1 DEF Under
        <3>2. ASSUME NEW q \in Pools \ {c} PROVE q \in Under(r)' <=> q \in Under(r)
            BY <1>1 DEF Under, AllPools
        <3>3. Under(r) \subseteq Pools /\ Under(r)' \subseteq Pools /\ c \notin Under(r)'
            BY <3>1 DEF Under
        <3>5. \A q : q \in Under(r)' <=> q \in Under(r)
            BY <3>1, <3>2, <3>3
        <3>4. QED
            BY <3>5
    <2>3. \A q \in Under(r) : users'[q] = users[q] /\ lineage'[q] = lineage[q]
        BY <1>1 DEF Under, AllPools
    <2>4. u \in users'[r]
        BY <1>3, <1>4, <2>1 DEF Owns
    <2>5. \A v \in Threads \ {u} : AtWork(v)' \cap Under(r) = {}
        <3>1. \A v \in Threads \ {t} : AtWork(v)' = AtWork(v)
            BY DEF AtWork
        <3>2. c \notin Under(r)
            BY <1>1 DEF Under
        <3>3. QED
            BY <3>1, <3>2, <1>4 DEF Owns
    <2>6. QED
        BY <1>4, <2>2, <2>3, <2>4, <2>5 DEF Owns
<1>5. ~Idle(u) => Root(u)' = Root(u)
    BY DEF Root
<1>6. \A i \in 1..Len(calls[u]) :
          calls'[u][i].at \in {"first", "link"} <=> calls[u][i].at \in {"first", "link"}
    OBVIOUS
<1>7. QED
    BY <1>3, <1>4, <1>5, <1>6, StackKept DEF Good, CallsInv

LEMMA CreateCalls ==
    ASSUME Good, TreeInv', NEW t \in Threads, NEW p \in AllPools, Create(t, p)
    PROVE  CallsInv' /\ \A u \in Threads : p \notin AtWork(u)
<1>1. PICK c \in Unused : c = NewPool
    BY NewPoolIsUnused DEF Create, Unused
<1>2. /\ Uses(t, p) /\ Idle(t) /\ Live(p) /\ (p = Base \/ t \in users[p])
      /\ memory' = [memory EXCEPT ![c] = "live"]
      /\ lineage' = [lineage EXCEPT ![c] = lineage[p] \cup {c}]
      /\ parent' = [parent EXCEPT ![c] = p]
      /\ users' = [users EXCEPT ![c] = {t}] /\ first_cleanup' = first_cleanup
      /\ calls' = [calls EXCEPT ![t] = <<Frame(c, "first")>>]
    BY <1>1 DEF Create, Allocates, Uses
<1>3. c \in Pools /\ c \in AllPools /\ first_cleanup[c] = {} /\ ~Live(c)
    BY UnusedIs DEF Good, TreeInv
<1>4. PICK f \in Frames : f = Frame(c, "first")
    BY <1>3, FrameIsFrame DEF Good, TreeInv, Places
<1>5. f.pool = c /\ f.at = "first"
    BY <1>3, <1>4, FrameIsFrame DEF Good, TreeInv, Places
<1>6. Len(calls'[t]) = 1 /\ calls'[t][1] = f /\ \A u \in Threads \ {t} : calls'[u] = calls[u]
    BY <1>2, <1>4, CallBegins DEF Good, TreeInv
<1>7. Live(f.pool)' /\ Creates(t, f)'
    BY <1>2, <1>3, <1>5, <1>6 DEF Live, Creates, Good, TreeInv, TypeOK
<1>8. StackInv(t)' /\ AtWork(t)' = {c}
    <2>1. StackInv(t)' /\ AtWork(t)' = {f.pool}
        BY <1>5, <1>6, <1>7, StackBegun
    <2>2. QED
        BY <1>5, <2>1
<1>9. \A u \in Threads : p \notin AtWork(u)
    BY <1>2, UserNotAtWork
<1>10. ASSUME NEW u \in Threads \ {t}, ~Idle(u), Owns(u, Root(u)), Root(u) \in lineage[p]
       PROVE  FALSE
    <2>1. p \notin Under(Root(u)) /\ Root(u) \in Pools
        BY <1>2, <1>10, NotOwned, GoodAtWork
    <2>2. p = Base
        BY <1>2, <1>10, <2>1 DEF Under, AllPools
    <2>3. QED
        BY <1>10, <2>1, <2>2 DEF Good, TreeInv, LineageInv
<1>11. \A u \in Threads \ {t} : StackInv(u)'
    BY <1>2, <1>6, <1>8, <1>9, <1>10, CreatedOthers
<1>12. \A u \in Threads \ {t} : AtWork(t)' \cap AtWork(u) = {}
    BY <1>3, <1>8, GoodAtWork
<1>13. QED
    BY <1>6, <1>8, <1>9, <1>11, <1>12, CallsStep

LEMMA CreateThreadCalls ==
    ASSUME Good, TreeInv', NEW t \in Threads, CreateThread(t)
    PROVE  CallsInv'
<1>1. PICK c \in Unused : c = NewPool
    BY NewPoolIsUnused DEF CreateThread, Unused
<1>2. PICK W : W = {}
    OBVIOUS
<1>3. /\ Idle(t)
      /\ memory' = [memory EXCEPT ![c] = "live"]
      /\ lineage' = [lineage EXCEPT ![c] = W \cup {c}]
      /\ users' = [users EXCEPT ![c] = {t}] /\ first_cleanup' = first_cleanup
      /\ calls' = calls /\ parent' = parent
    BY <1>1, <1>2 DEF CreateThread, Allocates
<1>4. parent' = [parent EXCEPT ![c] = NoPool]
    BY <1>3, UnusedIs DEF Good, TreeInv, TypeOK
<1>5. NoPool \in AllPools \cup {NoPool} /\ \A u \in Threads : NoPool \notin AtWork(u)
    BY GoodAtWork
<1>6. \A u \in Threads : AtWork(u)' = AtWork(u) /\ Root(u) \notin W
    BY <1>2, <1>3 DEF AtWork
<1>7. \A u \in Threads : calls'[u] = calls[u]
    BY <1>3
<1>8. AtWork(t)' \subseteq AtWork(t) \cup {c}
    BY <1>6
<1>9. \A u \in Threads : StackInv(u)'
    BY <1>3, <1>4, <1>5, <1>6, <1>7, <1>8, CreatedOthers
<1>10. QED
    BY <1>6, <1>9 DEF CallsInv, Good

(* With a pool goes nothing that another frame is at work on. *)
LEMMA GoneIs ==
    ASSUME Good, NEW t \in Threads, At(t, "free"),
           NEW u \in Threads, NEW i \in 1..Len(calls[u]), calls[u][i].pool \in Under(Top(t).pool)
    PROVE  u = t /\ i = 1
<1> DEFINE p == Top(t).pool
           q == calls[u][i].pool
<1>1. /\ ~Idle(t) /\ Top(t) = calls[t][1] /\ 1 \in 1..Len(calls[t]) /\ Top(t).at = "free"
      /\ Len(calls[t]) \in Nat
    BY TopIsLive, StackTyped DEF Good, TreeInv, Places
<1>2. p \in Pools /\ Live(p) /\ p \in AtWork(t) /\ Destroys(t, p)
    BY <1>1, GoodFrame
<1>3. q \in Pools /\ Live(q) /\ q \in AtWork(u) /\ p \in lineage[q]
    BY GoodFrame DEF Under
<1>4. CASE Spent(p)
    <2>1. q = p
        BY <1>2, <1>3, <1>4, SpentAlone DEF Spent, Good, TreeInv
    <2>2. u = t
        BY <1>2, <1>3, <2>1, GoodAtWork
    <2>3. QED
        BY <1>1, <2>1, <2>2, GoodAtWork
<1>5. CASE ~Spent(p)
    <2>1. Owns(t, Root(t)) /\ Root(t) \in lineage[p]
        BY <1>2, <1>5 DEF Destroys
    <2>2. q \in Under(Root(t))
        BY <1>2, <1>3, <2>1 DEF Under, Good, TreeInv, LineageInv
    <2>3. u = t
        BY <1>3, <2>1, <2>2 DEF Owns
    <2>4. ASSUME i # 1 PROVE FALSE
        <3>1. 1 < i /\ i \in 1..Len(calls[t])
            BY <1>1, <2>3, <2>4
        <3>2. Inside(calls[t][1], calls[t][i])
            BY <1>1, <3>1 DEF Good, CallsInv, StackInv
        <3>3. q \in lineage[p] /\ q # p
            BY <1>1, <1>5, <2>3, <3>2 DEF Inside
        <3>4. QED
            BY <1>2, <1>3, <3>3 DEF Good, TreeInv, LineageInv
    <2>5. QED
        BY <2>3, <2>4
<1>6. QED
    BY <1>4, <1>5

(* What a call that returns leaves of the other frames *)
LEMMA FreeLeaves ==
    ASSUME Good, NEW t \in Threads, Free(t)
    PROVE  LET p == Top(t).pool
           IN  /\ p \in Pools /\ Live(p) /\ p \in AtWork(t) /\ p \in Under(p)
               /\ Len(calls[t]) \in Nat /\ Len(calls[t]) >= 1
               /\ Len(calls'[t]) = Len(calls[t]) - 1
               /\ \A i \in 1..(Len(calls[t]) - 1) : calls'[t][i] = calls[t][i + 1]
               /\ \A u \in Threads \ {t} : calls'[u] = calls[u] /\ AtWork(u)' = AtWork(u)
               /\ AtWork(t)' = AtWork(t) \ {p}
               /\ \A u \in Threads : \A a \in AtWork(u) \ {p} :
                     /\ a \in Pools /\ Live(a) /\ a \notin Under(p) /\ p \notin lineage[a]
<1> DEFINE p == Top(t).pool
           n == Len(calls[t])
<1>1. /\ ~Idle(t) /\ Top(t) = calls[t][1] /\ 1 \in 1..n /\ At(t, "free") /\ Return(t)
      /\ n \in Nat /\ n >= 1
    BY TopIsLive, StackTyped DEF Free, Good, TreeInv, Places
<1>2. p \in Pools /\ Live(p) /\ p \in AtWork(t) /\ p \in Under(p)
    BY <1>1, GoodFrame DEF Under, Good, TreeInv, LineageInv
<1>3. /\ Len(calls'[t]) = n - 1
      /\ \A i \in 1..(n - 1) : calls'[t][i] = calls[t][i + 1]
      /\ \A u \in Threads \ {t} : calls'[u] = calls[u]
    BY <1>1, TopReturns DEF Good, TreeInv
<1>4. AtWork(t)' = AtWork(t) \ {p}
    <2>1. ASSUME NEW i \in 1..n, i # 1
          PROVE  calls[t][i].pool # p /\ i - 1 \in 1..(n - 1) /\ (i - 1) + 1 = i
        BY <1>1, <2>1, GoodAtWork
    <2>2. \A i \in 1..(n - 1) : i + 1 \in 1..n /\ i + 1 # 1
        BY <1>1
    <2>3. ASSUME NEW a \in AtWork(t)' PROVE a \in AtWork(t) \ {p}
        <3>1. PICK i \in 1..(n - 1) : calls'[t][i].pool = a
            BY <1>3, <2>3 DEF AtWork
        <3>2. a = calls[t][i + 1].pool /\ i + 1 \in 1..n /\ i + 1 # 1
            BY <1>3, <2>2, <3>1
        <3>3. a # p
            BY <2>1, <3>2
        <3>4. QED
            BY <3>2, <3>3 DEF AtWork
    <2>4. ASSUME NEW a \in AtWork(t) \ {p} PROVE a \in AtWork(t)'
        <3>1. PICK i \in 1..n : calls[t][i].pool = a
            BY DEF AtWork
        <3>2. i # 1
            BY <1>1, <2>4, <3>1
        <3>3. i - 1 \in 1..(n - 1) /\ calls'[t][i - 1] = calls[t][i]
            BY <2>1, <3>2, <1>3
        <3>4. QED
            BY <1>3, <3>1, <3>3 DEF AtWork
    <2>5. QED
        BY <2>3, <2>4
<1>5. \A u \in Threads \ {t} : AtWork(u)' = AtWork(u)
    BY <1>3 DEF AtWork
<1>6. ASSUME NEW u \in Threads, NEW a \in AtWork(u) \ {p}
      PROVE  a \in Pools /\ Live(a) /\ a \notin Under(p) /\ p \notin lineage[a]
    <2>1. PICK i \in 1..Len(calls[u]) : calls[u][i].pool = a
        BY DEF AtWork
    <2>2. a \in Pools /\ Live(a)
        BY <2>1, GoodFrame
    <2>3. a \notin Under(p)
        BY <1>1, <1>6, <2>1, GoneIs
    <2>4. QED
        BY <2>2, <2>3 DEF Under
<1>7. QED
    BY <1>1, <1>2, <1>3, <1>4, <1>5, <1>6

LEMMA FreeCalls ==
    ASSUME Good, TreeInv', NEW t \in Threads, Free(t)
    PROVE  CallsInv'
<1> DEFINE p == Top(t).pool
           n == Len(calls[t])
<1>1. /\ p \in Pools /\ Live(p) /\ p \in AtWork(t) /\ p \in Under(p)
      /\ n \in Nat /\ n >= 1
      /\ Len(calls'[t]) = n - 1
      /\ \A i \in 1..(n - 1) : calls'[t][i] = calls[t][i + 1]
      /\ \A u \in Threads \ {t} : calls'[u] = calls[u] /\ AtWork(u)' = AtWork(u)
      /\ AtWork(t)' = AtWork(t) \ {p}
      /\ \A u \in Threads : \A a \in AtWork(u) \ {p} :
            /\ a \in Pools /\ Live(a) /\ a \notin Under(p) /\ p \notin lineage[a]
    BY FreeLeaves
<1>2. /\ \A q \in AllPools : Live(q)' <=> Live(q) /\ q \notin Under(p)
      /\ \A q \in AllPools : q \notin Under(p) =>
            /\ parent'[q] = parent[q] /\ users'[q] = users[q]
            /\ first_cleanup'[q] = first_cleanup[q]
      /\ lineage' = lineage
    BY WhatIsFreed DEF Good, TreeInv
<1> HIDE DEF p
<1>3. \A u \in Threads : \A a \in AtWork(u) \ {p} :
          /\ Live(a)' /\ users'[a] = users[a] /\ first_cleanup'[a] = first_cleanup[a]
    BY <1>1, <1>2 DEF AllPools
<1>4. ASSUME NEW a \in AllPools, Children(a) = {} PROVE Children(a)' = {}
    BY <1>2, <1>4 DEF Children, AllPools
<1>5. ASSUME NEW u \in Threads, NEW r \in AtWork(u) \ {p}, Owns(u, r)
      PROVE  Owns(u, r)'
    <2>1. u \in users'[r]
        BY <1>3, <1>5 DEF Owns
    <2>2. \A q \in Pools : q \in Under(r)' <=> q \in Under(r) /\ q \notin Under(p)
        BY <1>2 DEF Under, AllPools
    <2>3. ASSUME NEW q \in Under(r)', NEW x \in users'[q] \ {u}
          PROVE  x \in Under(r)' \cap lineage'[q]
        <3>1. q \in Pools /\ q \in Under(r) /\ q \notin Under(p) /\ q \in AllPools /\ Live(q)
            BY <2>2 DEF Under, AllPools
        <3>2. users'[q] = users[q] /\ p \notin lineage[q]
            BY <1>2, <3>1 DEF Under
        <3>3. x \in Under(r) \cap lineage[q] /\ x \in Pools
            BY <1>5, <2>3, <3>1, <3>2 DEF Owns, Under
        <3>4. x \notin Under(p)
            BY <3>1, <3>2, <3>3 DEF Under, Good, TreeInv, LineageInv
        <3>5. QED
            BY <1>2, <2>2, <3>3, <3>4
    <2>4. \A v \in Threads \ {u} : AtWork(v)' \cap Under(r)' = {}
        <3>1. \A v \in Threads : AtWork(v)' \subseteq AtWork(v)
            BY <1>1
        <3>2. \A q \in Under(r)' : q \in Under(r)
            BY <2>2 DEF Under
        <3>3. QED
            BY <1>5, <3>1, <3>2 DEF Owns
    <2>5. QED
        BY <2>1, <2>3, <2>4 DEF Owns
<1>6. \A a \in AllPools : \A b \in lineage[a] : lineage'[b] = lineage[b] /\ lineage'[a] = lineage[a]
    BY <1>2
<1>7. ASSUME NEW u \in Threads \ {t}
      PROVE  StackInv(u)'
    <2>1. p \notin AtWork(u)
        BY <1>1, GoodAtWork
    <2>2. \A a \in AtWork(u) : a \in AtWork(u) \ {p} /\ a \in AllPools
        BY <2>1, GoodAtWork DEF AllPools
    <2>3. ~Idle(u) /\ Owns(u, Root(u)) => Owns(u, Root(u))'
        <3>1. ~Idle(u) => Root(u) \in AtWork(u) \ {p} /\ Root(u)' = Root(u)
            BY <1>1, <2>2, GoodAtWork DEF Root
        <3>2. ASSUME NEW r, r = Root(u), ~Idle(u), Owns(u, r) PROVE Owns(u, r)'
            BY <1>5, <3>1, <3>2
        <3>3. QED
            BY <3>1, <3>2
    <2>4. \A i \in 1..Len(calls[u]) :
              calls'[u][i].at \in {"first", "link"} <=> calls[u][i].at \in {"first", "link"}
        BY <1>1
    <2>5. calls'[u] = calls[u]
        BY <1>1
    <2>6. QED
        BY <1>2, <1>3, <1>4, <2>2, <2>3, <2>4, <2>5, StackKept DEF Good, CallsInv
<1>8. StackInv(t)'
    <2>1. \A i \in 1..(n - 1) :
              /\ i + 1 \in 1..n /\ calls[t][i + 1].pool \in AtWork(t) \ {p}
              /\ calls[t][i + 1].at = "destroy"
        <3>1. SUFFICES ASSUME NEW i \in 1..(n - 1)
                       PROVE  /\ i + 1 \in 1..n /\ calls[t][i + 1].pool \in AtWork(t) \ {p}
                              /\ calls[t][i + 1].at = "destroy"
            OBVIOUS
        <3>2. i + 1 \in 1..n /\ 1 \in 1..n /\ 1 < i + 1
            BY <1>1
        <3>3. Inside(calls[t][1], calls[t][i + 1])
            BY <3>2 DEF Good, CallsInv, StackInv
        <3>4. calls[t][1].pool = p
            BY <1>1, StackTyped DEF p, Good, TreeInv, Top, Idle
        <3>5. QED
            BY <3>2, <3>3, <3>4 DEF Inside, AtWork
    <2>2. \A a \in AtWork(t) \ {p} : (Spent(a) => Spent(a)') /\ a \in AllPools
        BY <1>1, <1>3, <1>4 DEF Spent, AllPools
    <2>3. ASSUME NEW i \in 1..(n - 1), NEW k \in 1..(n - 1), i < k
          PROVE  Inside(calls[t][i], calls[t][k])'
        <3>1. i + 1 \in 1..n /\ k + 1 \in 1..n /\ i + 1 < k + 1
            BY <2>1, <2>3
        <3>2. Inside(calls[t][i + 1], calls[t][k + 1])
            BY <3>1 DEF Good, CallsInv, StackInv
        <3>3. calls'[t][i] = calls[t][i + 1] /\ calls'[t][k] = calls[t][k + 1]
              /\ calls[t][i + 1].pool \in AtWork(t) \ {p}
            BY <1>1, <2>1
        <3>4. QED
            BY <1>2, <2>2, <3>2, <3>3 DEF Inside
    <2>4. ASSUME NEW i \in 1..(n - 1), NEW f, f = calls'[t][i]
          PROVE  Live(f.pool)' /\ f.at \notin {"first", "link"} /\ Destroys(t, f.pool)'
        <3>1. f = calls[t][i + 1] /\ i + 1 \in 1..n /\ f.pool \in AtWork(t) \ {p} /\ f.at = "destroy"
            BY <1>1, <2>1, <2>4
        <3>2. Destroys(t, f.pool) /\ f.pool \in Pools
            BY <3>1, GoodFrame
        <3>3. CASE Spent(f.pool)
            <4>1. Spent(f.pool)'
                BY <2>2, <3>1, <3>3
            <4>2. QED
                BY <1>3, <3>1, <4>1 DEF Destroys
        <3>4. CASE ~Spent(f.pool)
            <4>1. PICK r : r = Root(t)
                OBVIOUS
            <4>2. /\ Owns(t, r) /\ r \in lineage[f.pool]
                  /\ \A a \in lineage[f.pool] : r \in lineage[a] => a \in AtWork(t)
                BY <3>2, <3>4, <4>1 DEF Destroys
            <4>3. n - 1 \in 1..(n - 1) /\ (n - 1) + 1 = n
                BY <1>1
            <4>4. Root(t)' = r /\ r \in AtWork(t) \ {p}
                BY <1>1, <2>1, <4>1, <4>3 DEF Root
            <4>5. Owns(t, r)'
                BY <1>5, <4>2, <4>4
            <4>6. p \notin lineage[f.pool]
                BY <1>1, <3>1
            <4>7. \A a \in lineage'[f.pool] : r \in lineage'[a] => a \in AtWork(t)'
                BY <1>1, <1>2, <4>2, <4>6
            <4>8. QED
                BY <1>2, <1>3, <3>1, <4>2, <4>4, <4>5, <4>7 DEF Destroys
        <3>5. QED
            BY <3>3, <3>4
    <2>5. \A i \in 1..(n - 1) : /\ Live(calls[t][i].pool)' /\ calls'[t][i].at \notin {"first", "link"}
                                /\ Destroys(t, calls[t][i].pool)'
        <3>1. SUFFICES ASSUME NEW i \in 1..(n - 1)
                       PROVE  /\ Live(calls[t][i].pool)' /\ calls'[t][i].at \notin {"first", "link"}
                              /\ Destroys(t, calls[t][i].pool)'
            OBVIOUS
        <3>2. PICK f : f = calls'[t][i]
            OBVIOUS
        <3>3. QED
            BY <2>4, <3>2 DEF Live
    <2>6. QED
        BY <1>1, <2>3, <2>5 DEF StackInv
<1>9. \A u \in Threads \ {t} : AtWork(t)' \cap AtWork(u) = {}
    BY <1>1, GoodAtWork
<1>10. QED
    BY <1>1, <1>7, <1>8, <1>9, CallsStep

-----------------------------------------------------------------------------
(* CleanupsInv, UsersInv and CountExact, where little changes *)

(* A frame that was there, with what is left of its cleanups, or one for a pool
   that nobody is at work on yet *)
OldFrame(f) ==
    \E u \in Threads : \E k \in 1..Len(calls[u]) :
        f.pool = calls[u][k].pool /\ f.left = calls[u][k].left

FreshFrame(f) ==
    /\ f.pool \in Pools /\ Live(f.pool) /\ f.left = first_cleanup[f.pool]
    /\ \A u \in Threads : f.pool \notin AtWork(u)

LEMMA CleanupsKept ==
    ASSUME Good, UNCHANGED <<memory, lineage, first_cleanup>>,
           \A p, q \in Pools : p \in users'[q] <=> p \in users[q],
           NEW N, NewFrames(N), \A f \in N : OldFrame(f) \/ FreshFrame(f),
           \A p \in Pools : (\E u \in Threads : p \in AtWork(u)) =>
               first_cleanup[p] = {} \/ \E u \in Threads : p \in AtWork(u)'
    PROVE  CleanupsInv'
<1>1. \A p : Live(p)' <=> Live(p)
    BY DEF Live
<1>2. \A p, q \in Pools : p \in users'[q] => q \notin lineage'[p] /\ (Live(p)' => q \in first_cleanup'[p])
    BY <1>1 DEF Good, CleanupsInv
<1>3. \A p, q \in Pools :
          Live(p)' /\ q \in first_cleanup'[p] /\ (\A u \in Threads : p \notin AtWork(u)') => p \in users'[q]
    <2>1. SUFFICES ASSUME NEW p \in Pools, NEW q \in Pools, Live(p), q \in first_cleanup[p],
                          \A u \in Threads : p \notin AtWork(u)'
                   PROVE  p \in users[q]
        BY <1>1
    <2>2. \A u \in Threads : p \notin AtWork(u)
        BY <2>1
    <2>3. QED
        BY <2>1, <2>2 DEF Good, CleanupsInv
<1>4. ASSUME NEW f, OldFrame(f) \/ FreshFrame(f), NEW q \in Pools
      PROVE  q \in f.left <=> f.pool \in users'[q]
    <2>1. CASE OldFrame(f)
        <3>4. PICK u \in Threads : \E k \in 1..Len(calls[u]) :
                  f.pool = calls[u][k].pool /\ f.left = calls[u][k].left
            BY <2>1 DEF OldFrame
        <3>1. PICK k \in 1..Len(calls[u]) : f.pool = calls[u][k].pool /\ f.left = calls[u][k].left
            BY <3>4
        <3>2. f.pool \in Pools /\ (q \in f.left <=> f.pool \in users[q])
            BY <3>1, GoodFrame DEF Good, CleanupsInv
        <3>3. QED
            BY <3>2
    <2>2. CASE FreshFrame(f)
        BY <2>2 DEF FreshFrame, Good, CleanupsInv
    <2>3. QED
        BY <1>4, <2>1, <2>2
<1>5. \A u \in Threads : \A i \in 1..Len(calls'[u]) :
          \A q \in Pools : q \in calls'[u][i].left <=> calls'[u][i].pool \in users'[q]
    <2>1. SUFFICES ASSUME NEW u \in Threads, NEW i \in 1..Len(calls'[u])
                   PROVE  \A q \in Pools : q \in calls'[u][i].left <=> calls'[u][i].pool \in users'[q]
        OBVIOUS
    <2>2. PICK f : f = calls'[u][i]
        OBVIOUS
    <2>3. OldFrame(f) \/ FreshFrame(f)
        BY <2>2 DEF NewFrames, OldFrame
    <2>4. QED
        BY <1>4, <2>2, <2>3
<1>6. QED
    BY <1>2, <1>3, <1>5 DEF CleanupsInv

LEMMA UsersKept ==
    ASSUME Good, UNCHANGED <<memory, parent>>, users'[Base] = users[Base],
           \A p \in Pools :
               /\ Base \notin users'[p]
               /\ users'[p] # {} => Live(p)
               /\ users'[p] = {} =>
                     \/ users[p] = {}
                     \/ Children(p) = {} /\ \E u \in Threads : p \in AtWork(u)'
               /\ users[p] = {} /\ (\E u \in Threads : p \in AtWork(u)) =>
                     \E u \in Threads : p \in AtWork(u)'
    PROVE  UsersInv'
<1>1. \A p : (Live(p)' <=> Live(p)) /\ Children(p)' = Children(p)
    BY DEF Live, Children
<1>2. ASSUME NEW p \in Pools
      PROVE  /\ Children(p) # {} => users'[p] # {}
             /\ Live(p) /\ users'[p] = {} => \E u \in Threads : p \in AtWork(u)'
    <2>1. /\ Children(p) # {} => users[p] # {}
          /\ Live(p) /\ users[p] = {} => \E u \in Threads : p \in AtWork(u)
        BY DEF Good, UsersInv
    <2>2. QED
        BY <2>1
<1>3. QED
    BY <1>1, <1>2 DEF UsersInv, Good

LEMMA OnlyTopFree ==
    ASSUME Good, NEW t \in Threads, NEW i \in 1..Len(calls[t]), calls[t][i].at # "destroy"
    PROVE  i = 1 /\ ~Idle(t) /\ calls[t][i] = Top(t)
<1>1. Len(calls[t]) \in Nat /\ ~Idle(t) /\ Top(t) = calls[t][1] /\ 1 \in 1..Len(calls[t])
    BY StackTyped DEF Good, TreeInv
<1>2. ASSUME 1 < i PROVE FALSE
    BY <1>1, <1>2 DEF Good, CallsInv, StackInv, Inside
<1>3. QED
    BY <1>1, <1>2

LEMMA StandsNotFree ==
    ASSUME TypeOK, NEW c
    PROVE  Stands(c, Places \ {"free"}) <=>
             \A u \in Threads : \A i \in 1..Len(calls[u]) :
                 calls[u][i].pool = c => calls[u][i].at # "free"
BY StackTyped DEF Stands, Frames

LEMMA CountedKept ==
    ASSUME Good, TreeInv', UNCHANGED <<memory, parent>>, NEW t \in Threads,
           \A u \in Threads \ {t} : calls'[u] = calls[u],
           ~Idle(t) => Top(t).at # "free",
           NEW N, NewFrames(N), \A f \in N : f.at # "free" \/ parent[f.pool] = NoPool
    PROVE  \A p \in AllPools : Counted(p)' = Counted(p)
<1>1. \A p : Children(p)' = Children(p)
    BY DEF Live, Children
<1>2. ASSUME NEW p \in AllPools, NEW c \in Children(p)
      PROVE  Stands(c, Places \ {"free"})' <=> Stands(c, Places \ {"free"})
    <2>1. parent[c] # NoPool
        BY DEF Children, AllPools
    <2>2. Stands(c, Places \ {"free"})' <=>
             \A u \in Threads : \A i \in 1..Len(calls'[u]) :
                 calls'[u][i].pool = c => calls'[u][i].at # "free"
        <3>3. \A u \in Threads : calls'[u] \in Seq(Frames)
            BY DEF TreeInv, TypeOK
        <3>4. \A u \in Threads : \A i \in 1..Len(calls'[u]) : calls'[u][i] \in Frames
            BY <3>3
        <3>1. \A u \in Threads : \A i \in 1..Len(calls'[u]) : calls'[u][i].at \in Places
            BY <3>4 DEF Frames
        <3>2. QED
            BY <3>1 DEF Stands, Places
    <2>3. Stands(c, Places \ {"free"}) <=>
             \A u \in Threads : \A i \in 1..Len(calls[u]) :
                 calls[u][i].pool = c => calls[u][i].at # "free"
        BY StandsNotFree DEF Good, TreeInv
    <2>4. ASSUME \A u \in Threads : \A i \in 1..Len(calls[u]) :
                    calls[u][i].pool = c => calls[u][i].at # "free",
                 NEW u \in Threads, NEW i \in 1..Len(calls'[u]), calls'[u][i].pool = c
          PROVE  calls'[u][i].at # "free"
        BY <2>1, <2>4 DEF NewFrames
    <2>5. ASSUME \A u \in Threads : \A i \in 1..Len(calls'[u]) :
                    calls'[u][i].pool = c => calls'[u][i].at # "free",
                 NEW u \in Threads, NEW i \in 1..Len(calls[u]), calls[u][i].pool = c
          PROVE  calls[u][i].at # "free"
        <3>1. CASE u = t
            BY <3>1, OnlyTopFree
        <3>2. CASE u # t
            BY <2>5, <3>2
        <3>3. QED
            BY <3>1, <3>2
    <2>6. QED
        BY <2>2, <2>3, <2>4, <2>5
<1>3. QED
    BY <1>1, <1>2 DEF Counted

(* The counts of pools that keep their users and their children *)
LEMMA CountKept ==
    ASSUME Good, UNCHANGED <<memory, reference_count>>,
           \A p \in AllPools : Live(p) =>
               /\ Counted(p)' = Counted(p)
               /\ Cardinality(users'[p]) = Cardinality(users[p])
    PROVE  CountExact'
BY DEF Good, CountExact, Live, Orderly

-----------------------------------------------------------------------------
(* Every step *)

LEMMA ReplacedGood ==
    ASSUME Good, TreeInv', UNCHANGED <<memory, lineage, parent, users, first_cleanup>>,
           NEW t \in Threads, ~Idle(t),
           NEW f \in Frames, Continue(t, <<>>, f), f.pool = Top(t).pool, f.left = Top(t).left,
           f.at \in {"first", "link"} <=> Top(t).at \in {"first", "link"}
    PROVE  /\ CallsInv' /\ CleanupsInv' /\ UsersInv'
           /\ NewFrames({f}) /\ \A u \in Threads \ {t} : calls'[u] = calls[u]
<1>1. /\ StackInv(t)' /\ AtWork(t)' = AtWork(t) /\ CallsInv'
    BY ReplacedQuiet
<1>2. NewFrames({f}) /\ \A u \in Threads \ {t} : calls'[u] = calls[u]
    BY FramesReplaced, TopReplaced DEF Good, TreeInv
<1>3. Top(t) = calls[t][1] /\ 1 \in 1..Len(calls[t])
    BY StackTyped DEF Good, TreeInv
<1>4. OldFrame(f)
    BY <1>3 DEF OldFrame
<1>5. \A u \in Threads : AtWork(u)' = AtWork(u)
    <2>1. \A u \in Threads \ {t} : AtWork(u)' = AtWork(u)
        BY <1>2 DEF AtWork
    <2>2. QED
        BY <1>1, <2>1
<1>6. CleanupsInv'
    BY <1>2, <1>4, <1>5, CleanupsKept
<1>9. /\ users'[Base] = users[Base]
      /\ \A p \in Pools :
            /\ Base \notin users'[p] /\ (users'[p] # {} => Live(p)) /\ users'[p] = users[p]
            /\ (\E u \in Threads : p \in AtWork(u)) => \E u \in Threads : p \in AtWork(u)'
    BY <1>5 DEF Good, UsersInv
<1>7. UsersInv'
    BY <1>9, UsersKept
<1>8. QED
    BY <1>1, <1>2, <1>6, <1>7

LEMMA InListGood ==
    ASSUME Good, TreeInv', Orderly', NEW t \in Threads,
           AddChild(t) \/ LinkChild(t) \/ ChildrenGone(t) \/ Search(t) \/ Unlink(t)
    PROVE  Good'
<1>1. /\ ~Idle(t) /\ Top(t) \in Frames /\ Live(Top(t).pool) /\ Top(t) = calls[t][1]
      /\ UNCHANGED <<memory, lineage, parent, users, first_cleanup, reference_count>>
      /\ 1 \in 1..Len(calls[t])
    BY InListFrames, StackTyped DEF Good, TreeInv
<1>2. CASE /\ Len(calls[t]) = 1 /\ Len(calls'[t]) = 0 /\ Return(t)
           /\ Top(t).at = "link" /\ users[Top(t).pool] = {t}
           /\ first_cleanup[Top(t).pool] = {}
    <2>1. NewFrames({}) /\ \A u \in Threads \ {t} : calls'[u] = calls[u]
        BY <1>1, <1>2, FramesReturned, TopReturns DEF Good, TreeInv
    <2>2. 1..Len(calls[t]) = {1}
        BY <1>2
    <2>3. AtWork(t) = {Top(t).pool} /\ \A u \in Threads \ {t} : AtWork(u)' = AtWork(u)
        BY <1>1, <2>1, <2>2 DEF AtWork
    <2>4. \A p : \A u \in Threads : p \in AtWork(u) => p = Top(t).pool \/ p \in AtWork(u)'
        BY <2>3
    <2>5. CleanupsInv'
        <3>1. \A p \in Pools : (\E u \in Threads : p \in AtWork(u)) =>
                  first_cleanup[p] = {} \/ \E u \in Threads : p \in AtWork(u)'
            BY <1>2, <2>4
        <3>2. QED
            BY <1>1, <2>1, <3>1, CleanupsKept
    <2>6. UsersInv'
        <3>1. \A p \in Pools : users[p] = {} /\ (\E u \in Threads : p \in AtWork(u)) =>
                     \E u \in Threads : p \in AtWork(u)'
            BY <1>2, <2>4
        <3>2. QED
            BY <1>1, <3>1, UsersKept DEF Good, UsersInv
    <2>7. \A p \in AllPools : Counted(p)' = Counted(p)
        BY <1>1, <1>2, <2>1, CountedKept
    <2>8. CountExact'
        BY <1>1, <2>7, CountKept
    <2>9. QED
        BY <2>5, <2>6, <2>8, InListCalls DEF Good
<1>3. ASSUME NEW f \in Frames, Continue(t, <<>>, f), f.pool = Top(t).pool, f.left = Top(t).left,
             f.at \in {"first", "link"} <=> Top(t).at \in {"first", "link"},
             f.at = "free" => parent[f.pool] = NoPool, Top(t).at # "free"
      PROVE  Good'
    <2>1. /\ CallsInv' /\ CleanupsInv' /\ UsersInv'
          /\ NewFrames({f}) /\ \A u \in Threads \ {t} : calls'[u] = calls[u]
        BY <1>1, <1>3, ReplacedGood
    <2>2. \A p \in AllPools : Counted(p)' = Counted(p)
        BY <1>1, <1>3, <2>1, CountedKept
    <2>3. CountExact'
        BY <1>1, <2>2, CountKept
    <2>4. QED
        BY <2>1, <2>3 DEF Good
<1>4. QED
    BY <1>2, <1>3, InListFrames

LEMMA ReleaseParentGood ==
    ASSUME Good, TreeInv', Orderly', NEW t \in Threads, ReleaseParent(t)
    PROVE  Good'
<1> DEFINE c == Top(t).pool
           up == parent[c]
<1>1. At(t, "parent") /\ UNCHANGED <<memory, lineage, parent, users, first_cleanup>>
      /\ reference_count' = [reference_count EXCEPT ![up] = @ - 1]
    BY DEF ReleaseParent, structVars, Decrement
<1>2. /\ c \in Pools /\ up \in AllPools /\ Live(up) /\ c \in Counted(up)
      /\ reference_count[up] # 1
    BY <1>1, ParentStays
<1>3. ~Idle(t) /\ Top(t) \in Frames /\ Top(t).at = "parent" /\ Top(t) = calls[t][1] /\ 1 \in 1..Len(calls[t])
    BY <1>1, TopIsLive, StackTyped DEF Good, TreeInv, Places
<1>4. PICK f : f = [Top(t) EXCEPT !.at = "free"]
    OBVIOUS
<1>5. f \in Frames /\ f.pool = c /\ f.left = Top(t).left /\ f.at = "free"
    BY <1>3, <1>4 DEF Frames, Places
<1>6. Continue(t, <<>>, f)
    BY <1>2, <1>4 DEF ReleaseParent, DestroyAtZero
<1>7. /\ CallsInv' /\ CleanupsInv' /\ UsersInv'
      /\ NewFrames({f}) /\ \A u \in Threads \ {t} : calls'[u] = calls[u]
    BY <1>1, <1>3, <1>5, <1>6, ReplacedGood
<1>8. \A p : Children(p)' = Children(p)
    BY <1>1 DEF Live, Children
<1>9. ASSUME NEW d
      PROVE  Stands(d, Places \ {"free"})' <=> Stands(d, Places \ {"free"}) /\ d # c
    <2>1. calls'[t][1] = f /\ Len(calls'[t]) = Len(calls[t])
        BY <1>3, <1>5, <1>6, TopReplaced DEF Good, TreeInv
    <2>2. \A i \in 2..Len(calls[t]) : calls'[t][i] = calls[t][i]
        BY <1>3, <1>5, <1>6, TopReplaced DEF Good, TreeInv
    <2>3. \A i \in 1..Len(calls[t]) : i = 1 \/ i \in 2..Len(calls[t])
        BY StackTyped DEF Good, TreeInv
    <2>4. \A u \in Threads : Len(calls'[u]) = Len(calls[u])
        BY <1>7, <2>1
    <2>5. ASSUME d # c, NEW u \in Threads, NEW i \in 1..Len(calls[u])
          PROVE  /\ calls'[u][i].pool = d <=> calls[u][i].pool = d
                 /\ calls[u][i].pool = d => calls'[u][i] = calls[u][i]
        BY <1>3, <1>5, <1>7, <2>1, <2>2, <2>3, <2>5
    <2>6. CASE d # c
        BY <2>4, <2>5, <2>6 DEF Stands
    <2>7. CASE d = c
        BY <1>3, <1>5, <2>1, <2>7 DEF Stands
    <2>8. QED
        BY <2>6, <2>7
<1>10. ASSUME NEW p \in AllPools
       PROVE  Counted(p)' = IF p = up THEN Counted(p) \ {c} ELSE Counted(p)
    <2>1. Counted(p)' = Counted(p) \ {c}
        BY <1>8, <1>9 DEF Counted
    <2>2. p # up => c \notin Counted(p)
        BY DEF Counted, Children
    <2>3. QED
        BY <2>1, <2>2
<1>11. CountExact'
    <2>1. SUFFICES ASSUME NEW p \in AllPools, Live(p)
                   PROVE  reference_count'[p] = Cardinality(users[p]) + Cardinality(Counted(p)')
        BY <1>1 DEF CountExact, Live
    <2>2. reference_count[p] = Cardinality(users[p]) + Cardinality(Counted(p))
        BY <2>1 DEF Good, CountExact
    <2>3. CASE p = up
        <3>1. reference_count'[p] = reference_count[p] - 1
            BY <1>1, <1>2, <2>3 DEF Good, TreeInv, TypeOK
        <3>2. Cardinality(Counted(p) \ {c}) = Cardinality(Counted(p)) - 1
            BY <1>2, <2>3, CountsFinite, FS_RemoveElement DEF Good, TreeInv
        <3>3. Cardinality(users[p]) \in Nat /\ Cardinality(Counted(p)) \in Nat
            BY CountsFinite DEF Good, TreeInv
        <3>4. Counted(p)' = Counted(p) \ {c}
            BY <1>10, <2>3
        <3>5. QED
            BY <2>2, <3>1, <3>2, <3>3, <3>4
    <2>4. CASE p # up
        BY <1>1, <1>2, <1>10, <2>2, <2>4 DEF Good, TreeInv, TypeOK
    <2>5. QED
        BY <2>3, <2>4
<1>12. QED
    BY <1>7, <1>11 DEF Good

LEMMA ShareGood ==
    ASSUME Good, TreeInv', Orderly', NEW t \in Threads, NEW p \in Pools, NEW q \in Pools, NEW w \in Threads,
           \/ AddReference(t, w, p)
           \/ RegisterCleanup(t, p, q)
           \/ DeregisterCleanup(t, p, q)
    PROVE  Good'
<1>1. /\ UNCHANGED <<memory, lineage, parent, calls>> /\ Uses(t, p) /\ Idle(t)
      /\ t \in users[p] /\ Live(p) /\ p \in AllPools /\ q \in AllPools /\ p # Base /\ q # Base
      /\ t \notin AllPools /\ w \notin AllPools /\ Base # t /\ Base # w /\ p \notin Threads
    BY DEF AddReference, RegisterCleanup, DeregisterCleanup, structVars, Uses, AllPools
<1>2. CallsInv'
    BY ShareCalls
<1>3. NewFrames({}) /\ \A u \in Threads : AtWork(u)' = AtWork(u)
    BY <1>1, FramesKept DEF AtWork
<1>4. \A a \in AllPools : Counted(a)' = Counted(a)
    BY <1>1, <1>3, CountedKept
<1>5. \A u \in Threads : p \notin AtWork(u)
    BY <1>1, UserNotAtWork
<1>6. \A a \in AllPools : IsFiniteSet(users[a]) /\ Cardinality(users[a]) \in Nat
    BY CountsFinite DEF Good, TreeInv
<1>7. \A a \in Pools : Base \notin users[a] /\ (users[a] # {} => Live(a))
    BY DEF Good, UsersInv
<1>8. CASE AddReference(t, w, p)
    <2>1. /\ users'[p] = users[p] \cup {w} /\ \A a \in AllPools \ {p} : users'[a] = users[a]
          /\ reference_count'[p] = reference_count[p] + 1 /\ w \notin users[p]
          /\ \A a \in AllPools \ {p} : reference_count'[a] = reference_count[a]
          /\ first_cleanup' = first_cleanup
        BY <1>1, <1>8 DEF AddReference, structVars, Good, TreeInv, TypeOK
    <2>2. \A a, b \in Pools : a \in users'[b] <=> a \in users[b]
        BY <1>1, <2>1 DEF AllPools
    <2>3. CleanupsInv'
        BY <1>1, <1>3, <2>1, <2>2, CleanupsKept
    <2>4. UsersInv'
        <3>1. users'[Base] = users[Base]
            BY <1>1, <2>1 DEF AllPools
        <3>2. \A a \in Pools :
                 /\ Base \notin users'[a] /\ (users'[a] # {} => Live(a)) /\ (users'[a] = {} => users[a] = {})
                 /\ (\E u \in Threads : a \in AtWork(u)) => \E u \in Threads : a \in AtWork(u)'
            BY <1>1, <1>3, <1>7, <2>1 DEF AllPools
        <3>3. QED
            BY <1>1, <3>1, <3>2, UsersKept
    <2>5. Cardinality(users'[p]) = Cardinality(users[p]) + 1
        BY <1>1, <1>6, <2>1, FS_AddElement
    <2>6. CountExact'
        <3>1. SUFFICES ASSUME NEW a \in AllPools, Live(a)
                       PROVE  reference_count'[a] = Cardinality(users'[a]) + Cardinality(Counted(a))
            BY <1>1, <1>4 DEF CountExact, Live
        <3>2. reference_count[a] = Cardinality(users[a]) + Cardinality(Counted(a))
            BY <3>1 DEF Good, CountExact
        <3>3. Cardinality(users[a]) \in Nat /\ Cardinality(Counted(a)) \in Nat
            BY CountsFinite DEF Good, TreeInv
        <3>4. CASE a = p
            <4>1. reference_count'[a] = reference_count[a] + 1
                BY <2>1, <3>4
            <4>2. Cardinality(users'[a]) = Cardinality(users[a]) + 1
                BY <2>5, <3>4
            <4>3. QED
                BY <3>2, <3>3, <4>1, <4>2
        <3>5. CASE a # p
            BY <2>1, <3>2, <3>5
        <3>6. QED
            BY <3>4, <3>5
    <2>7. QED
        BY <1>2, <2>3, <2>4, <2>6 DEF Good
<1>9. ASSUME NEW x, NEW y, x \in users[q], y \notin users[q], {x, y} = {t, p},
             users' = [users EXCEPT ![q] = (@ \ {x}) \cup {y}],
             reference_count' = reference_count
      PROVE  UsersInv' /\ CountExact'
    <2>1. users'[q] = (users[q] \ {x}) \cup {y} /\ \A a \in AllPools \ {q} : users'[a] = users[a]
        BY <1>1, <1>9 DEF Good, TreeInv, TypeOK
    <2>2. Cardinality(users'[q]) = Cardinality(users[q])
        <3>1. IsFiniteSet(users[q] \ {x}) /\ Cardinality(users[q] \ {x}) = Cardinality(users[q]) - 1
            BY <1>1, <1>6, <1>9, FS_RemoveElement
        <3>2. Cardinality((users[q] \ {x}) \cup {y}) = Cardinality(users[q] \ {x}) + 1
            BY <1>9, <3>1, FS_AddElement
        <3>3. QED
            BY <1>1, <1>6, <2>1, <3>1, <3>2
    <2>3. CountExact'
        <3>1. \A a \in AllPools : Cardinality(users'[a]) = Cardinality(users[a])
            BY <2>1, <2>2
        <3>2. QED
            BY <1>1, <1>4, <1>9, <3>1, CountKept
    <2>4. UsersInv'
        <3>1. users'[Base] = users[Base]
            BY <1>1, <2>1 DEF AllPools
        <3>2. Live(q) /\ y # Base
            BY <1>1, <1>7, <1>9
        <3>3. \A a \in Pools :
                 /\ Base \notin users'[a] /\ (users'[a] # {} => Live(a)) /\ (users'[a] = {} => users[a] = {})
                 /\ (\E u \in Threads : a \in AtWork(u)) => \E u \in Threads : a \in AtWork(u)'
            BY <1>3, <1>7, <2>1, <3>2 DEF AllPools
        <3>4. QED
            BY <1>1, <3>1, <3>3, UsersKept
    <2>5. QED
        BY <2>3, <2>4
<1>10. ASSUME NEW u \in Threads, NEW i \in 1..Len(calls[u])
       PROVE  calls[u][i].pool \in Pools /\ calls[u][i].pool # p /\ calls[u][i].pool # t
    BY <1>1, <1>5, GoodFrame DEF AllPools
<1>11. CASE RegisterCleanup(t, p, q)
    <2>1. /\ Uses(t, q) /\ t \in users[q] /\ q \notin lineage[p] /\ q \notin first_cleanup[p]
          /\ users' = [users EXCEPT ![q] = (@ \ {t}) \cup {p}]
          /\ first_cleanup' = [first_cleanup EXCEPT ![p] = @ \cup {q}]
          /\ reference_count' = reference_count
        BY <1>1, <1>11 DEF RegisterCleanup, Uses
    <2>2. p \notin users[q]
        BY <1>1, <2>1 DEF Good, CleanupsInv
    <2>3. UsersInv' /\ CountExact'
        BY <1>9, <2>1, <2>2
    <2>4. \A a, b \in Pools : a \in users'[b] <=> (a \in users[b] \/ (a = p /\ b = q))
        BY <1>1, <2>1 DEF Good, TreeInv, TypeOK, AllPools
    <2>5. \A a, b \in Pools : b \in first_cleanup'[a] <=> (b \in first_cleanup[a] \/ (a = p /\ b = q))
        BY <1>1, <2>1 DEF Good, TreeInv, TypeOK, AllPools
    <2>6. \A a, b \in Pools : a \in users'[b] => b \notin lineage'[a] /\ (Live(a)' => b \in first_cleanup'[a])
        BY <1>1, <2>1, <2>4, <2>5 DEF Good, CleanupsInv, Live
    <2>7. \A a, b \in Pools :
              Live(a)' /\ b \in first_cleanup'[a] /\ (\A u \in Threads : a \notin AtWork(u)') => a \in users'[b]
        BY <1>1, <1>3, <2>4, <2>5 DEF Good, CleanupsInv, Live
    <2>8. \A u \in Threads : \A i \in 1..Len(calls[u]) : \A b \in Pools :
              b \in calls[u][i].left <=> calls[u][i].pool \in users'[b]
        BY <1>10, <2>4 DEF Good, CleanupsInv
    <2>9. CleanupsInv'
        BY <1>1, <2>6, <2>7, <2>8 DEF CleanupsInv
    <2>10. QED
        BY <1>2, <2>3, <2>9 DEF Good
<1>12. CASE DeregisterCleanup(t, p, q)
    <2>1. /\ t \notin users[q] /\ p \in users[q]
          /\ users' = [users EXCEPT ![q] = (@ \ {p}) \cup {t}]
          /\ first_cleanup' = [first_cleanup EXCEPT ![p] = @ \ {q}]
          /\ reference_count' = reference_count
        BY <1>12, ShareCalls DEF DeregisterCleanup
    <2>3. UsersInv' /\ CountExact'
        BY <1>9, <2>1
    <2>4. \A a, b \in Pools : a \in users'[b] <=> (a \in users[b] /\ ~(a = p /\ b = q))
        BY <1>1, <2>1 DEF Good, TreeInv, TypeOK, AllPools
    <2>5. \A a, b \in Pools : b \in first_cleanup'[a] <=> (b \in first_cleanup[a] /\ ~(a = p /\ b = q))
        BY <1>1, <2>1 DEF Good, TreeInv, TypeOK, AllPools
    <2>6. \A a, b \in Pools : a \in users'[b] => b \notin lineage'[a] /\ (Live(a)' => b \in first_cleanup'[a])
        BY <1>1, <2>4, <2>5 DEF Good, CleanupsInv, Live
    <2>7. \A a, b \in Pools :
              Live(a)' /\ b \in first_cleanup'[a] /\ (\A u \in Threads : a \notin AtWork(u)') => a \in users'[b]
        BY <1>1, <1>3, <2>4, <2>5 DEF Good, CleanupsInv, Live
    <2>8. \A u \in Threads : \A i \in 1..Len(calls[u]) : \A b \in Pools :
              b \in calls[u][i].left <=> calls[u][i].pool \in users'[b]
        BY <1>10, <2>4 DEF Good, CleanupsInv
    <2>9. CleanupsInv'
        BY <1>1, <2>6, <2>7, <2>8 DEF CleanupsInv
    <2>10. QED
        BY <1>2, <2>3, <2>9 DEF Good
<1>13. QED
    BY <1>8, <1>11, <1>12

LEMMA ReleaseGood ==
    ASSUME Good, TreeInv', Orderly', NEW t \in Threads, NEW p \in Pools, Release(t, p)
    PROVE  Good'
<1>1. /\ UNCHANGED <<memory, lineage, parent, first_cleanup>> /\ Uses(t, p) /\ Idle(t)
      /\ Live(p) /\ p \in AllPools /\ t \notin AllPools
      /\ users' = [users EXCEPT ![p] = @ \ {t}]
      /\ reference_count' = [reference_count EXCEPT ![p] = @ - 1]
    BY DEF Release, structVars, Uses, AllPools, LetGo, Decrement
<1>2. /\ CallsInv' /\ users'[p] = users[p] \ {t} /\ t \in users[p]
      /\ users[p] = {t} => AtWork(t)' = {p} /\ Children(p) = {}
      /\ \/ calls' = [calls EXCEPT ![t] = <<Frame(p, "destroy")>>]
         \/ calls' = calls
    BY ReleaseCalls
<1>3. \A u \in Threads : p \notin AtWork(u)
    BY <1>1, UserNotAtWork
<1>4. PICK f \in Frames : f = Frame(p, "destroy")
    BY <1>1, FrameIsFrame DEF Good, TreeInv, Places
<1>5. f.pool = p /\ f.at = "destroy" /\ f.left = first_cleanup[p]
    BY <1>1, <1>4, FrameIsFrame DEF Good, TreeInv, Places
<1>6. NewFrames({f}) /\ \A u \in Threads \ {t} : calls'[u] = calls[u]
    BY <1>2, <1>4, FramesBegun, FramesKept, CallBegins DEF Good, TreeInv, NewFrames
<1>7. \A a : \A u \in Threads : a \in AtWork(u) => a \in AtWork(u)'
    <2>1. AtWork(t) = {}
        BY <1>1, AtWorkIs DEF Good, TreeInv
    <2>2. \A u \in Threads \ {t} : AtWork(u)' = AtWork(u)
        BY <1>6 DEF AtWork
    <2>3. QED
        BY <2>1, <2>2
<1>8. FreshFrame(f)
    BY <1>1, <1>3, <1>5 DEF FreshFrame
<1>9. \A a \in AllPools \ {p} : users'[a] = users[a] /\ reference_count'[a] = reference_count[a]
    BY <1>1 DEF Good, TreeInv, TypeOK
<1>10. CleanupsInv'
    <2>1. \A a, b \in Pools : a \in users'[b] <=> a \in users[b]
        BY <1>1, <1>2, <1>9 DEF AllPools
    <2>2. \A a \in Pools : (\E u \in Threads : a \in AtWork(u)) => \E u \in Threads : a \in AtWork(u)'
        BY <1>7
    <2>3. QED
        BY <1>1, <1>6, <1>8, <2>1, <2>2, CleanupsKept
<1>11. UsersInv'
    <2>1. users'[Base] = users[Base]
        BY <1>9 DEF AllPools
    <2>2. ASSUME NEW a \in Pools
          PROVE  /\ Base \notin users'[a]
                 /\ users'[a] # {} => Live(a)
                 /\ users'[a] = {} =>
                       \/ users[a] = {}
                       \/ Children(a) = {} /\ \E u \in Threads : a \in AtWork(u)'
                 /\ users[a] = {} /\ (\E u \in Threads : a \in AtWork(u)) =>
                       \E u \in Threads : a \in AtWork(u)'
        <3>1. Base \notin users[a] /\ (users[a] # {} => Live(a))
            BY DEF Good, UsersInv
        <3>2. CASE a = p
            BY <1>1, <1>2, <1>7, <3>1, <3>2
        <3>3. CASE a # p
            BY <1>7, <1>9, <3>1, <3>3 DEF AllPools
        <3>4. QED
            BY <3>2, <3>3
    <2>3. QED
        BY <1>1, <2>1, <2>2, UsersKept
<1>12. \A a \in AllPools : Counted(a)' = Counted(a)
    BY <1>1, <1>5, <1>6, CountedKept
<1>13. CountExact'
    <2>1. SUFFICES ASSUME NEW a \in AllPools, Live(a)
                   PROVE  reference_count'[a] = Cardinality(users'[a]) + Cardinality(Counted(a))
        BY <1>1, <1>12 DEF CountExact, Live
    <2>2. /\ reference_count[a] = Cardinality(users[a]) + Cardinality(Counted(a))
          /\ IsFiniteSet(users[a]) /\ Cardinality(users[a]) \in Nat /\ Cardinality(Counted(a)) \in Nat
        BY <2>1, CountsFinite DEF Good, CountExact, TreeInv
    <2>3. CASE a = p
        <3>1. Cardinality(users[a] \ {t}) = Cardinality(users[a]) - 1
            BY <1>2, <2>2, <2>3, FS_RemoveElement
        <3>2. Cardinality(users'[a]) = Cardinality(users[a]) - 1
            BY <1>2, <2>3, <3>1
        <3>3. reference_count'[a] = reference_count[a] - 1
            BY <1>1, <2>3 DEF Good, TreeInv, TypeOK
        <3>4. QED
            BY <2>2, <3>2, <3>3
    <2>4. CASE a # p
        BY <1>9, <2>2, <2>4
    <2>5. QED
        BY <2>3, <2>4
<1>14. QED
    BY <1>2, <1>10, <1>11, <1>13 DEF Good

(* A thread that makes a call is at work on what it was at work on. *)
LEMMA CalledAtWork ==
    ASSUME TypeOK, NEW t \in Threads, ~Idle(t), NEW g \in Frames, NEW f \in Frames,
           Continue(t, <<g>>, f), f.pool = Top(t).pool
    PROVE  \A u \in Threads : \A a \in AtWork(u) : a \in AtWork(u)'
<1>1. /\ Len(calls[t]) \in Nat /\ Top(t) = calls[t][1] /\ Len(calls'[t]) = Len(calls[t]) + 1
      /\ calls'[t][2] = f /\ \A i \in 3..(Len(calls[t]) + 1) : calls'[t][i] = calls[t][i - 1]
      /\ \A u \in Threads \ {t} : calls'[u] = calls[u]
    BY TopCalls, StackTyped
<1>2. ASSUME NEW i \in 1..Len(calls[t])
      PROVE  i + 1 \in 1..Len(calls'[t]) /\ calls'[t][i + 1].pool = calls[t][i].pool
    <2>1. i = 1 \/ (i + 1 \in 3..(Len(calls[t]) + 1) /\ (i + 1) - 1 = i)
        BY <1>1
    <2>2. QED
        BY <1>1, <2>1
<1>3. \A a \in AtWork(t) : a \in AtWork(t)'
    BY <1>2 DEF AtWork
<1>4. \A u \in Threads \ {t} : AtWork(u)' = AtWork(u)
    BY <1>1 DEF AtWork
<1>5. QED
    BY <1>3, <1>4

(* A destroy begins: nothing of the tree changes yet. *)
LEMMA BegunGood ==
    ASSUME Good, TreeInv', Orderly', CallsInv',
           UNCHANGED <<memory, lineage, parent, users, first_cleanup, reference_count>>,
           NEW t \in Threads, \A u \in Threads \ {t} : calls'[u] = calls[u],
           ~Idle(t) => Top(t).at # "free",
           NEW N, NewFrames(N), \A f \in N : (OldFrame(f) \/ FreshFrame(f)) /\ f.at # "free",
           \A p \in Pools : (\E u \in Threads : p \in AtWork(u)) => \E u \in Threads : p \in AtWork(u)'
    PROVE  Good'
<1>1. CleanupsInv'
    <2>1. \A p, q \in Pools : p \in users'[q] <=> p \in users[q]
        OBVIOUS
    <2>2. QED
        BY <2>1, CleanupsKept
<1>2. UsersInv'
    BY UsersKept DEF Good, UsersInv
<1>3. \A p \in AllPools : Counted(p)' = Counted(p)
    BY CountedKept
<1>4. CountExact'
    BY <1>3, CountKept
<1>5. QED
    BY <1>1, <1>2, <1>4 DEF Good

LEMMA DestroyGood ==
    ASSUME Good, TreeInv', Orderly', NEW t \in Threads, NEW p \in Pools, Destroy(t, p)
    PROVE  Good'
<1>1. /\ UNCHANGED <<memory, lineage, parent, first_cleanup, users, reference_count>>
      /\ Uses(t, p) /\ Idle(t) /\ Live(p) /\ p \in AllPools
      /\ calls' = [calls EXCEPT ![t] = <<Frame(p, "destroy")>>]
    BY DEF Destroy, structVars, countVars, Uses, AllPools
<1>2. PICK f \in Frames : f = Frame(p, "destroy")
    BY <1>1, FrameIsFrame DEF Good, TreeInv, Places
<1>3. f.pool = p /\ f.at = "destroy" /\ f.left = first_cleanup[p]
    BY <1>1, <1>2, FrameIsFrame DEF Good, TreeInv, Places
<1>4. NewFrames({f}) /\ \A u \in Threads \ {t} : calls'[u] = calls[u]
    BY <1>1, <1>2, FramesBegun, CallBegins DEF Good, TreeInv
<1>5. FreshFrame(f)
    BY <1>1, <1>3, UserNotAtWork DEF FreshFrame
<1>6. \A a : \A u \in Threads : a \in AtWork(u) => a \in AtWork(u)'
    <2>1. AtWork(t) = {}
        BY <1>1, AtWorkIs DEF Good, TreeInv
    <2>2. \A u \in Threads \ {t} : AtWork(u)' = AtWork(u)
        BY <1>4 DEF AtWork
    <2>3. QED
        BY <2>1, <2>2
<1>7. CallsInv'
    BY DestroyCalls
<1>8. \A a \in Pools : (\E u \in Threads : a \in AtWork(u)) => \E u \in Threads : a \in AtWork(u)'
    BY <1>6
<1>9. QED
    BY <1>1, <1>3, <1>4, <1>5, <1>7, <1>8, BegunGood

LEMMA DestroyChildGood ==
    ASSUME Good, TreeInv', Orderly', NEW t \in Threads, DestroyChild(t)
    PROVE  Good'
<1>1. PICK c \in Pools : c = first_child[Top(t).pool]
    BY ChildIs
<1>2. /\ ~Idle(t) /\ Top(t) \in Frames /\ Top(t).at = "destroy" /\ Live(c) /\ c \in AllPools
      /\ \A u \in Threads : c \notin AtWork(u)
      /\ Continue(t, <<Frame(c, "destroy")>>, Top(t))
    BY <1>1, ChildIs DEF AllPools
<1>3. UNCHANGED <<memory, lineage, parent, users, first_cleanup, reference_count>>
    BY DEF DestroyChild, structVars, countVars
<1>4. PICK f \in Frames : f = Top(t)
    BY <1>2
<1>5. PICK g \in Frames : g = Frame(c, "destroy")
    BY <1>2, FrameIsFrame DEF Good, TreeInv, Places
<1>6. g.pool = c /\ g.at = "destroy" /\ g.left = first_cleanup[c]
    BY <1>2, <1>5, FrameIsFrame DEF Good, TreeInv, Places
<1>7. Continue(t, <<g>>, f)
    BY <1>2, <1>4, <1>5
<1>8. NewFrames({f, g}) /\ \A u \in Threads \ {t} : calls'[u] = calls[u]
    BY <1>2, <1>7, FramesCalled, TopCalls DEF Good, TreeInv
<1>9. Top(t) = calls[t][1] /\ 1 \in 1..Len(calls[t])
    BY <1>2, StackTyped DEF Good, TreeInv
<1>10. OldFrame(f) /\ FreshFrame(g)
    BY <1>2, <1>4, <1>6, <1>9 DEF OldFrame, FreshFrame
<1>11. \A a : \A u \in Threads : a \in AtWork(u) => a \in AtWork(u)'
    BY <1>2, <1>7, <1>4, CalledAtWork DEF Good, TreeInv
<1>12. CallsInv'
    BY DestroyChildCalls
<1>13. \A a \in Pools : (\E u \in Threads : a \in AtWork(u)) => \E u \in Threads : a \in AtWork(u)'
    BY <1>11
<1>14. \A h \in {f, g} : (OldFrame(h) \/ FreshFrame(h)) /\ h.at # "free"
    BY <1>2, <1>4, <1>6, <1>10
<1>15. QED
    BY <1>2, <1>3, <1>8, <1>12, <1>13, <1>14, BegunGood

LEMMA RunCleanupGood ==
    ASSUME Good, TreeInv', Orderly', NEW t \in Threads, RunCleanup(t)
    PROVE  Good'
<1> DEFINE p == Top(t).pool
<1>1. /\ At(t, "destroy") /\ UNCHANGED <<memory, lineage, parent, first_cleanup>>
      /\ \E q \in Top(t).left :
            /\ reference_count' = [reference_count EXCEPT ![q] = @ - 1]
            /\ LetGo(Top(t).pool, q)
            /\ Continue(t, DestroyAtZero(q), [Top(t) EXCEPT !.left = @ \ {q}])
    BY DEF RunCleanup, structVars, Decrement
<1>2. PICK q \in Top(t).left :
            /\ reference_count' = [reference_count EXCEPT ![q] = @ - 1]
            /\ LetGo(Top(t).pool, q)
            /\ Continue(t, DestroyAtZero(q), [Top(t) EXCEPT !.left = @ \ {q}])
    BY <1>1
<1>3. /\ p \in Pools /\ p \in AtWork(t) /\ q \in Pools /\ p \in users[q] /\ q # p
      /\ Live(q) /\ q \in AllPools /\ q # Base
      /\ \A u \in Threads : q \notin AtWork(u)
    BY <1>1, CleanedIs DEF AllPools
<1>4. /\ ~Idle(t) /\ Top(t).at = "destroy" /\ Top(t) \in Frames /\ Top(t) = calls[t][1]
      /\ 1 \in 1..Len(calls[t]) /\ Top(t).left \in SUBSET Pools
    BY <1>1, TopIsLive, StackTyped DEF Places, Good, TreeInv
<1>5. PICK f : f = [Top(t) EXCEPT !.left = @ \ {q}]
    OBVIOUS
<1>6. f \in Frames /\ f.pool = p /\ f.at = "destroy" /\ f.left = Top(t).left \ {q}
    BY <1>4, <1>5 DEF Frames
<1>7. Continue(t, DestroyAtZero(q), f)
    BY <1>2, <1>5
<1>8. /\ CallsInv'
      /\ \A u \in Threads \ {t} : calls'[u] = calls[u]
      /\ users' = [users EXCEPT ![q] = @ \ {p}]
      /\ users[q] = {p} => Children(q) = {} /\ AtWork(t)' = AtWork(t) \cup {q}
                           /\ Continue(t, <<Frame(q, "destroy")>>, f)
      /\ users[q] # {p} => AtWork(t)' = AtWork(t) /\ Continue(t, <<>>, f)
    BY <1>1, <1>2, <1>5, <1>6, <1>7, RunCleanupCalls
<1>9. PICK g \in Frames : g = Frame(q, "destroy")
    BY <1>3, FrameIsFrame DEF Good, TreeInv, Places
<1>10. g.pool = q /\ g.at = "destroy" /\ g.left = first_cleanup[q]
    BY <1>3, <1>9, FrameIsFrame DEF Good, TreeInv, Places
<1>11. NewFrames({f, g})
    <2>1. CASE users[q] = {p}
        BY <1>4, <1>6, <1>8, <1>9, <2>1, FramesCalled DEF Good, TreeInv
    <2>2. CASE users[q] # {p}
        BY <1>4, <1>6, <1>8, <2>2, FramesReplaced DEF Good, TreeInv, NewFrames
    <2>3. QED
        BY <2>1, <2>2
<1>12. \A a, b \in Pools : a \in users'[b] <=> a \in users[b] /\ ~(a = p /\ b = q)
    BY <1>3, <1>8 DEF Good, TreeInv, TypeOK, AllPools
<1>13. \A a : \A u \in Threads : a \in AtWork(u) => a \in AtWork(u)'
    <2>1. \A u \in Threads \ {t} : AtWork(u)' = AtWork(u)
        BY <1>8 DEF AtWork
    <2>2. QED
        BY <1>8, <2>1
<1>14. ASSUME NEW u \in Threads, NEW i \in 1..Len(calls'[u])
       PROVE  \/ calls'[u][i] \in {f, g}
              \/ \E k \in 1..Len(calls[u]) : calls'[u][i] = calls[u][k] /\ calls[u][k].pool # p
    <2>1. CASE u # t
        <3>1. calls'[u] = calls[u] /\ calls[u][i].pool \in AtWork(u)
            BY <1>8, <2>1 DEF AtWork
        <3>2. calls[u][i].pool # p
            BY <1>3, <2>1, <3>1, GoodAtWork
        <3>3. QED
            BY <3>1, <3>2
    <2>2. CASE u = t
        <3>1. \A k \in 1..Len(calls[t]) : k # 1 => calls[t][k].pool # p
            BY <1>4, GoodAtWork
        <3>2. Len(calls[t]) \in Nat
            BY StackTyped DEF Good, TreeInv
        <3>3. CASE users[q] = {p}
            <4>1. Continue(t, <<g>>, f)
                BY <1>8, <1>9, <3>3
            <4>2. i = 1 \/ i = 2 \/ (i \in 3..(Len(calls[t]) + 1) /\ i - 1 \in 1..Len(calls[t]) /\ i - 1 # 1)
                BY <1>4, <1>6, <2>2, <3>2, <4>1, TopCalls DEF Good, TreeInv
            <4>3. /\ calls'[t][1] = g /\ calls'[t][2] = f
                  /\ \A k \in 3..(Len(calls[t]) + 1) : calls'[t][k] = calls[t][k - 1]
                BY <1>4, <1>6, <4>1, TopCalls DEF Good, TreeInv
            <4>4. CASE i \in 3..(Len(calls[t]) + 1) /\ i - 1 \in 1..Len(calls[t]) /\ i - 1 # 1
                <5>1. calls'[u][i] = calls[u][i - 1] /\ calls[u][i - 1].pool # p
                    BY <2>2, <3>1, <4>3, <4>4
                <5>2. QED
                    BY <2>2, <4>4, <5>1
            <4>5. QED
                BY <2>2, <4>2, <4>3, <4>4
        <3>4. CASE users[q] # {p}
            <4>1. i = 1 \/ (i \in 2..Len(calls[t]) /\ i \in 1..Len(calls[t]) /\ i # 1)
                BY <1>4, <1>6, <1>8, <2>2, <3>2, <3>4, TopReplaced DEF Good, TreeInv
            <4>2. QED
                BY <1>4, <1>6, <1>8, <2>2, <3>1, <3>4, <4>1, TopReplaced DEF Good, TreeInv
        <3>5. QED
            BY <3>3, <3>4
    <2>3. QED
        BY <2>1, <2>2
<1>15. CleanupsInv'
    <2>1. \A a, b \in Pools : a \in users'[b] => b \notin lineage'[a] /\ (Live(a)' => b \in first_cleanup'[a])
        BY <1>1, <1>12 DEF Good, CleanupsInv, Live
    <2>2. \A a, b \in Pools :
              Live(a)' /\ b \in first_cleanup'[a] /\ (\A u \in Threads : a \notin AtWork(u)') => a \in users'[b]
        BY <1>1, <1>3, <1>12, <1>13 DEF Good, CleanupsInv, Live
    <2>3. \A b \in Pools : b \in f.left <=> f.pool \in users'[b]
        BY <1>3, <1>4, <1>6, <1>12 DEF Good, CleanupsInv
    <2>4. \A b \in Pools : b \in g.left <=> g.pool \in users'[b]
        BY <1>3, <1>10, <1>12 DEF Good, CleanupsInv
    <2>5. \A u \in Threads : \A k \in 1..Len(calls[u]) : calls[u][k].pool # p =>
              \A b \in Pools : b \in calls[u][k].left <=> calls[u][k].pool \in users'[b]
        BY <1>12, GoodFrame DEF Good, CleanupsInv
    <2>6. \A u \in Threads : \A i \in 1..Len(calls'[u]) :
              \A b \in Pools : b \in calls'[u][i].left <=> calls'[u][i].pool \in users'[b]
        <3>1. SUFFICES ASSUME NEW u \in Threads, NEW i \in 1..Len(calls'[u]), NEW h, h = calls'[u][i]
                       PROVE  \A b \in Pools : b \in h.left <=> h.pool \in users'[b]
            OBVIOUS
        <3>2. h = f \/ h = g \/ \E k \in 1..Len(calls[u]) : h = calls[u][k] /\ calls[u][k].pool # p
            BY <1>14, <3>1
        <3>3. QED
            BY <2>3, <2>4, <2>5, <3>2
    <2>7. QED
        BY <2>1, <2>2, <2>6 DEF CleanupsInv
<1>16. \A a \in AllPools \ {q} : users'[a] = users[a] /\ reference_count'[a] = reference_count[a]
    BY <1>2, <1>8 DEF Good, TreeInv, TypeOK
<1>17. users'[q] = users[q] \ {p} /\ reference_count'[q] = reference_count[q] - 1
    BY <1>2, <1>3, <1>8 DEF Good, TreeInv, TypeOK
<1>18. UsersInv'
    <2>1. users'[Base] = users[Base]
        BY <1>3, <1>16 DEF AllPools
    <2>2. ASSUME NEW a \in Pools
          PROVE  /\ Base \notin users'[a]
                 /\ users'[a] # {} => Live(a)
                 /\ users'[a] = {} =>
                       \/ users[a] = {}
                       \/ Children(a) = {} /\ \E u \in Threads : a \in AtWork(u)'
                 /\ users[a] = {} /\ (\E u \in Threads : a \in AtWork(u)) =>
                       \E u \in Threads : a \in AtWork(u)'
        <3>1. Base \notin users[a] /\ (users[a] # {} => Live(a))
            BY DEF Good, UsersInv
        <3>2. CASE a = q
            BY <1>3, <1>8, <1>13, <1>17, <3>1, <3>2
        <3>3. CASE a # q
            BY <1>13, <1>16, <3>1, <3>3 DEF AllPools
        <3>4. QED
            BY <3>2, <3>3
    <2>3. QED
        BY <1>1, <2>1, <2>2, UsersKept
<1>19. \A a \in AllPools : Counted(a)' = Counted(a)
    <2>1. \A h \in {f, g} : h.at # "free" \/ parent[h.pool] = NoPool
        BY <1>6, <1>10
    <2>2. QED
        BY <1>1, <1>4, <1>8, <1>11, <2>1, CountedKept
<1>20. CountExact'
    <2>1. SUFFICES ASSUME NEW a \in AllPools, Live(a)
                   PROVE  reference_count'[a] = Cardinality(users'[a]) + Cardinality(Counted(a))
        BY <1>1, <1>19 DEF CountExact, Live
    <2>2. /\ reference_count[a] = Cardinality(users[a]) + Cardinality(Counted(a))
          /\ IsFiniteSet(users[a]) /\ Cardinality(users[a]) \in Nat /\ Cardinality(Counted(a)) \in Nat
        BY <2>1, CountsFinite DEF Good, CountExact, TreeInv
    <2>3. CASE a = q
        <3>1. Cardinality(users[a] \ {p}) = Cardinality(users[a]) - 1
            BY <1>3, <2>2, <2>3, FS_RemoveElement
        <3>2. Cardinality(users'[a]) = Cardinality(users[a]) - 1
            BY <1>17, <2>3, <3>1
        <3>3. reference_count'[a] = reference_count[a] - 1
            BY <1>17, <2>3
        <3>4. QED
            BY <2>2, <3>2, <3>3
    <2>4. CASE a # q
        BY <1>16, <2>2, <2>4
    <2>5. QED
        BY <2>3, <2>4
<1>21. QED
    BY <1>8, <1>15, <1>18, <1>20 DEF Good

(* A new pool has its creator and no children, and its parent one child more. *)
LEMMA CreatedGood ==
    ASSUME Good, TreeInv', Orderly', CallsInv', NEW t \in Threads, Idle(t), NEW c \in Unused,
           NEW p \in AllPools \cup {NoPool}, p # NoPool => Live(p) /\ (p = Base \/ t \in users[p]),
           memory' = [memory EXCEPT ![c] = "live"],
           \A a \in AllPools \ {c} : lineage'[a] = lineage[a],
           parent' = [parent EXCEPT ![c] = p],
           users' = [users EXCEPT ![c] = {t}], first_cleanup' = first_cleanup,
           reference_count'[c] = 1,
           \A a \in AllPools \ {c} :
               reference_count'[a] = IF a = p THEN reference_count[a] + 1 ELSE reference_count[a],
           \A u \in Threads \ {t} : calls'[u] = calls[u],
           \A i \in 1..Len(calls'[t]) :
               calls'[t][i].pool = c /\ calls'[t][i].at = "first" /\ calls'[t][i].left = {}
    PROVE  Good'
<1>1. /\ c \in Pools /\ c \in AllPools /\ ~Live(c) /\ c # Base /\ c # t /\ t \notin AllPools /\ p # c
      /\ users[c] = {} /\ first_cleanup[c] = {}
    BY DEF Unused, Live, AllPools, Good, TreeInv, UnusedInv
<1>2. \A q \in AllPools : c # parent[q] /\ c \notin users[q] /\ c \notin first_cleanup[q]
    BY DEF Good, TreeInv, UnusedInv
<1>3. \A u \in Threads : \A i \in 1..Len(calls[u]) : calls[u][i].pool # c /\ c \notin calls[u][i].left
    BY DEF Good, TreeInv, UnusedInv
<1>4. \A a \in AllPools \ {c} :
          /\ Live(a)' <=> Live(a)
          /\ users'[a] = users[a] /\ parent'[a] = parent[a]
    BY <1>1 DEF Live, Good, TreeInv, TypeOK
<1>5. Live(c)' /\ users'[c] = {t} /\ parent'[c] = p
    BY <1>1 DEF Live, Good, TreeInv, TypeOK
<1>6. \A u \in Threads : \A a \in AtWork(u) : a \in AtWork(u)'
    <2>1. AtWork(t) = {}
        BY AtWorkIs DEF Good, TreeInv
    <2>2. \A u \in Threads \ {t} : AtWork(u)' = AtWork(u)
        BY DEF AtWork
    <2>3. QED
        BY <2>1, <2>2
<1>7. ASSUME NEW u \in Threads, NEW i \in 1..Len(calls'[u])
      PROVE  \/ calls'[u][i].pool = c /\ calls'[u][i].at = "first" /\ calls'[u][i].left = {}
             \/ i \in 1..Len(calls[u]) /\ calls'[u][i] = calls[u][i]
    BY <1>7
<1>8. ASSUME NEW u \in Threads, NEW i \in 1..Len(calls[u])
      PROVE  i \in 1..Len(calls'[u]) /\ calls'[u][i] = calls[u][i]
    <2>1. u # t
        BY <1>8, StackTyped DEF Good, TreeInv
    <2>2. QED
        BY <2>1
<1>9. CleanupsInv'
    <2>1. ASSUME NEW a \in Pools, NEW b \in Pools
          PROVE  a \in users'[b] <=> b # c /\ a # c /\ a \in users[b]
        BY <1>1, <1>2, <1>4, <1>5 DEF AllPools
    <2>2. \A a, b \in Pools : a \in users'[b] => b \notin lineage'[a] /\ (Live(a)' => b \in first_cleanup'[a])
        BY <1>1, <1>4, <2>1 DEF Good, CleanupsInv, AllPools
    <2>3. ASSUME NEW a \in Pools, NEW b \in Pools,
                 Live(a)', b \in first_cleanup[a], \A u \in Threads : a \notin AtWork(u)'
          PROVE  a \in users'[b]
        <3>1. a # c /\ b # c /\ Live(a)
            BY <1>1, <1>2, <1>4, <2>3 DEF AllPools
        <3>2. \A u \in Threads : a \notin AtWork(u)
            BY <1>6, <2>3
        <3>3. QED
            BY <2>1, <2>3, <3>1, <3>2 DEF Good, CleanupsInv
    <2>4. \A u \in Threads : \A i \in 1..Len(calls'[u]) :
              \A b \in Pools : b \in calls'[u][i].left <=> calls'[u][i].pool \in users'[b]
        <3>1. SUFFICES ASSUME NEW u \in Threads, NEW i \in 1..Len(calls'[u]), NEW b \in Pools
                       PROVE  b \in calls'[u][i].left <=> calls'[u][i].pool \in users'[b]
            OBVIOUS
        <3>2. CASE calls'[u][i].pool = c /\ calls'[u][i].left = {}
            BY <1>1, <2>1, <3>2
        <3>3. CASE i \in 1..Len(calls[u]) /\ calls'[u][i] = calls[u][i]
            <4>1. calls[u][i].pool \in Pools /\ calls[u][i].pool # c /\ c \notin calls[u][i].left
                BY <1>3, <3>3, GoodFrame
            <4>2. b \in calls[u][i].left <=> calls[u][i].pool \in users[b]
                BY <3>3 DEF Good, CleanupsInv
            <4>3. b = c => b \notin calls[u][i].left
                BY <4>1
            <4>4. QED
                BY <2>1, <3>3, <4>1, <4>2, <4>3
        <3>4. QED
            BY <1>7, <3>2, <3>3
    <2>5. QED
        BY <2>2, <2>3, <2>4 DEF CleanupsInv
<1>10. ASSUME NEW a \in AllPools
       PROVE  \A d : d \in Children(a)' <=> d \in Children(a) \/ (d = c /\ a = p)
    BY <1>1, <1>4, <1>5 DEF Children, AllPools
<1>11. Children(c)' = {}
    BY <1>1, <1>2, <1>10 DEF Children, AllPools
<1>12. UsersInv'
    <2>1. users'[Base] = {Base}
        BY <1>1, <1>4 DEF AllPools, Good, UsersInv
    <2>2. ASSUME NEW a \in Pools
          PROVE  /\ Base \notin users'[a]
                 /\ users'[a] # {} => Live(a)'
                 /\ Children(a)' # {} => users'[a] # {}
                 /\ Live(a)' /\ users'[a] = {} => \E u \in Threads : a \in AtWork(u)'
        <3>1. CASE a = c
            BY <1>1, <1>5, <3>1 DEF AllPools
        <3>2. CASE a # c
            <4>1. users'[a] = users[a] /\ (Live(a)' <=> Live(a)) /\ a \in AllPools /\ a # Base
                BY <1>4, <3>2 DEF AllPools
            <4>2. Children(a)' # {} => Children(a) # {} \/ t \in users[a]
                BY <1>10, <4>1
            <4>3. QED
                BY <1>6, <4>1, <4>2 DEF Good, UsersInv
        <3>3. QED
            BY <3>1, <3>2
    <2>3. QED
        BY <2>1, <2>2 DEF UsersInv
<1>13. ASSUME NEW d, d # c
       PROVE  Stands(d, Places \ {"free"})' <=> Stands(d, Places \ {"free"})
    BY <1>7, <1>8, <1>13 DEF Stands
<1>14. Stands(c, Places \ {"free"})'
    BY <1>3, <1>7 DEF Stands, Places
<1>15. ASSUME NEW a \in AllPools
       PROVE  \A d : d \in Counted(a)' <=> d \in Counted(a) \/ (d = c /\ a = p)
    <2>1. c \notin Children(a)
        BY <1>1 DEF Children
    <2>2. QED
        BY <1>10, <1>13, <1>14, <2>1 DEF Counted
<1>16. CountExact'
    <2>1. SUFFICES ASSUME NEW a \in AllPools, Live(a)'
                   PROVE  reference_count'[a] = Cardinality(users'[a]) + Cardinality(Counted(a)')
        BY DEF CountExact
    <2>2. CASE a = c
        <3>1. Counted(a)' = {}
            BY <1>11, <2>2 DEF Counted
        <3>2. users'[a] = {t} /\ Cardinality({t}) = 1
            BY <1>5, <2>2, FS_Singleton
        <3>3. Cardinality({}) = 0
            BY FS_EmptySet
        <3>4. reference_count'[a] = 1
            BY <2>2
        <3>5. Cardinality(users'[a]) = 1
            BY <3>2
        <3>6. Cardinality(Counted(a)') = 0
            BY <3>1, <3>3
        <3>7. QED
            BY <3>4, <3>5, <3>6
    <2>3. CASE a # c
        <3>1. /\ reference_count[a] = Cardinality(users[a]) + Cardinality(Counted(a))
              /\ IsFiniteSet(Counted(a)) /\ Cardinality(users[a]) \in Nat /\ Cardinality(Counted(a)) \in Nat
              /\ users'[a] = users[a]
            BY <1>4, <2>1, <2>3, CountsFinite DEF Good, CountExact, TreeInv
        <3>2. CASE a = p
            <4>1. c \notin Counted(a)
                BY <1>1 DEF Counted, Children
            <4>2. Counted(a)' = Counted(a) \cup {c}
                BY <1>15, <3>2
            <4>3. Cardinality(Counted(a) \cup {c}) = Cardinality(Counted(a)) + 1
                BY <3>1, <4>1, FS_AddElement
            <4>4. reference_count'[a] = reference_count[a] + 1
                BY <2>3, <3>2
            <4>5. QED
                BY <3>1, <4>2, <4>3, <4>4
        <3>3. CASE a # p
            <4>1. Counted(a)' = Counted(a)
                BY <1>15, <3>3
            <4>2. reference_count'[a] = reference_count[a]
                BY <2>3, <3>3
            <4>3. QED
                BY <3>1, <4>1, <4>2
        <3>4. QED
            BY <3>2, <3>3
    <2>4. QED
        BY <2>2, <2>3
<1>17. QED
    BY <1>9, <1>12, <1>16 DEF Good

LEMMA CreateGood ==
    ASSUME Good, TreeInv', Orderly', NEW t \in Threads, NEW p \in AllPools, Create(t, p)
    PROVE  Good'
<1>1. PICK c \in Unused : c = NewPool
    BY NewPoolIsUnused DEF Create, Unused
<1>2. /\ Idle(t) /\ Live(p) /\ (p = Base \/ t \in users[p])
      /\ memory' = [memory EXCEPT ![c] = "live"]
      /\ lineage' = [lineage EXCEPT ![c] = lineage[p] \cup {c}]
      /\ parent' = [parent EXCEPT ![c] = p]
      /\ users' = [users EXCEPT ![c] = {t}] /\ first_cleanup' = first_cleanup
      /\ calls' = [calls EXCEPT ![t] = <<Frame(c, "first")>>]
      /\ reference_count' = [reference_count EXCEPT ![c] = 1, ![p] = @ + 1]
    BY <1>1 DEF Create, Allocates, Uses
<1>3. c \in Pools /\ c \in AllPools /\ first_cleanup[c] = {} /\ ~Live(c) /\ c # p
    BY <1>2, UnusedIs DEF Good, TreeInv
<1>4. PICK f \in Frames : f = Frame(c, "first")
    BY <1>3, FrameIsFrame DEF Good, TreeInv, Places
<1>5. f.pool = c /\ f.at = "first" /\ f.left = {}
    BY <1>3, <1>4, FrameIsFrame DEF Good, TreeInv, Places
<1>6. Len(calls'[t]) = 1 /\ calls'[t][1] = f /\ \A u \in Threads \ {t} : calls'[u] = calls[u]
    BY <1>2, <1>4, CallBegins DEF Good, TreeInv
<1>7. \A i \in 1..Len(calls'[t]) :
          calls'[t][i].pool = c /\ calls'[t][i].at = "first" /\ calls'[t][i].left = {}
    BY <1>5, <1>6
<1>8. \A a \in AllPools \ {c} : lineage'[a] = lineage[a]
    BY <1>2 DEF Good, TreeInv, TypeOK
<1>9. /\ reference_count'[c] = 1
      /\ \A a \in AllPools \ {c} :
             reference_count'[a] = IF a = p THEN reference_count[a] + 1 ELSE reference_count[a]
    BY <1>2, <1>3 DEF Good, TreeInv, TypeOK
<1>10. CallsInv'
    BY CreateCalls
<1>11. /\ p \in AllPools \cup {NoPool} /\ (p # NoPool => Live(p) /\ (p = Base \/ t \in users[p]))
       /\ memory' = [memory EXCEPT ![c] = "live"] /\ parent' = [parent EXCEPT ![c] = p]
       /\ users' = [users EXCEPT ![c] = {t}] /\ first_cleanup' = first_cleanup /\ Idle(t)
    BY <1>2
<1>12. \A u \in Threads \ {t} : calls'[u] = calls[u]
    BY <1>6
<1>13. QED
    BY <1>7, <1>8, <1>9, <1>10, <1>11, <1>12, CreatedGood

LEMMA CreateThreadGood ==
    ASSUME Good, TreeInv', Orderly', NEW t \in Threads, CreateThread(t)
    PROVE  Good'
<1>1. PICK c \in Unused : c = NewPool
    BY NewPoolIsUnused DEF CreateThread, Unused
<1>2. /\ Idle(t)
      /\ memory' = [memory EXCEPT ![c] = "live"]
      /\ lineage' = [lineage EXCEPT ![c] = {} \cup {c}]
      /\ users' = [users EXCEPT ![c] = {t}] /\ first_cleanup' = first_cleanup
      /\ calls' = calls /\ parent' = parent
      /\ reference_count' = [reference_count EXCEPT ![c] = 1]
    BY <1>1 DEF CreateThread, Allocates
<1>3. parent' = [parent EXCEPT ![c] = NoPool]
    BY <1>2, UnusedIs DEF Good, TreeInv, TypeOK
<1>4. \A a \in AllPools \ {c} : lineage'[a] = lineage[a]
    BY <1>2 DEF Good, TreeInv, TypeOK
<1>5. /\ reference_count'[c] = 1
      /\ \A a \in AllPools \ {c} :
             reference_count'[a] = IF a = NoPool THEN reference_count[a] + 1 ELSE reference_count[a]
    BY <1>2, UnusedIs DEF Good, TreeInv, TypeOK, AllPools
<1>6. \A i \in 1..Len(calls'[t]) : FALSE
    BY <1>2, StackTyped DEF Good, TreeInv
<1>7. CallsInv'
    BY CreateThreadCalls
<1>8. NoPool \in AllPools \cup {NoPool}
    OBVIOUS
<1>9. QED
    BY <1>2, <1>3, <1>4, <1>5, <1>6, <1>7, <1>8, CreatedGood

(* With a pool goes no pool whose user stays, but for those at work above it. *)
LEMMA GoneUsers ==
    ASSUME Good, NEW t \in Threads, Free(t), NEW b \in Under(Top(t).pool),
           NEW a \in Pools, a \in users[b], Live(a), a \notin Under(Top(t).pool)
    PROVE  /\ a \in AtWork(t) /\ ~Spent(Top(t).pool)
           /\ \A i \in 1..Len(calls[t]) : calls[t][i].pool = a => calls[t][i].left = {}
<1> DEFINE p == Top(t).pool
<1>1. /\ p \in Pools /\ Live(p) /\ p \in AtWork(t) /\ p \in Under(p)
    BY FreeLeaves
<1>2. /\ ~Idle(t) /\ Top(t) = calls[t][1] /\ 1 \in 1..Len(calls[t]) /\ Top(t).at = "free"
      /\ Len(calls[t]) \in Nat
    BY TopIsLive, StackTyped DEF Free, Good, TreeInv, Places
<1>3. Destroys(t, p)
    BY <1>2, GoodFrame
<1>4. b \in Pools /\ Live(b) /\ p \in lineage[b]
    BY DEF Under
<1>5. ~Spent(p)
    <2>1. Spent(p) => b = p
        BY <1>1, <1>4, SpentAlone DEF Spent, Good, TreeInv
    <2>2. QED
        BY <2>1 DEF Spent
<1>6. PICK r : r = Root(t)
    OBVIOUS
<1>7. /\ Owns(t, r) /\ r \in lineage[p]
      /\ \A d \in lineage[p] : r \in lineage[d] => d \in AtWork(t)
    BY <1>3, <1>5, <1>6 DEF Destroys
<1>8. b \in Under(r)
    BY <1>1, <1>4, <1>7 DEF Under, Good, TreeInv, LineageInv
<1>9. a # t
    BY DEF AllPools
<1>10. a \in Under(r) /\ a \in lineage[b]
    BY <1>7, <1>8, <1>9 DEF Owns
<1>11. p \notin lineage[a]
    BY DEF Under
<1>12. a \in lineage[p]
    BY <1>4, <1>10, <1>11 DEF Good, TreeInv, LineageInv
<1>13. a \in AtWork(t)
    BY <1>7, <1>10, <1>12 DEF Under
<1>14. ASSUME NEW i \in 1..Len(calls[t]), calls[t][i].pool = a
       PROVE  calls[t][i].left = {}
    <2>1. i # 1
        BY <1>1, <1>2, <1>14
    <2>2. 1 < i
        BY <1>2, <2>1
    <2>3. Inside(calls[t][1], calls[t][i])
        BY <1>2, <2>2 DEF Good, CallsInv, StackInv
    <2>4. QED
        BY <1>2, <1>5, <2>3 DEF Inside
<1>15. QED
    BY <1>5, <1>13, <1>14

(* The frames of the calls that are not for p stay, and those alone. *)
LeavesFrames(p) ==
    /\ \A u \in Threads : \A i \in 1..Len(calls'[u]) :
          \E k \in 1..Len(calls[u]) : calls'[u][i] = calls[u][k] /\ calls[u][k].pool # p
    /\ \A u \in Threads : \A i \in 1..Len(calls[u]) : calls[u][i].pool # p =>
          \E k \in 1..Len(calls'[u]) : calls'[u][k] = calls[u][i]

LEMMA FreeFrames ==
    ASSUME Good, NEW t \in Threads, Free(t), NEW p, p = Top(t).pool
    PROVE  LeavesFrames(p)
<1> DEFINE n == Len(calls[t])
<1>1. /\ p \in AtWork(t) /\ n \in Nat /\ n >= 1
      /\ Len(calls'[t]) = n - 1
      /\ \A i \in 1..(n - 1) : calls'[t][i] = calls[t][i + 1]
      /\ \A u \in Threads \ {t} : calls'[u] = calls[u] /\ AtWork(u)' = AtWork(u)
    BY FreeLeaves
<1>2. Top(t) = calls[t][1] /\ 1 \in 1..n
    BY TopIsLive, StackTyped DEF Free, Good, TreeInv, Places
<1>3. calls[t][1].pool = p /\ \A i \in 2..n : calls[t][i].pool # p
    <2>1. \A i \in 2..n : i \in 1..n /\ i # 1
        BY <1>1
    <2>2. QED
        BY <1>2, <2>1, GoodAtWork
<1>4. ASSUME NEW u \in Threads, NEW i \in 1..Len(calls'[u])
      PROVE  \E k \in 1..Len(calls[u]) : calls'[u][i] = calls[u][k] /\ calls[u][k].pool # p
    <2>1. CASE u = t
        <3>1. i + 1 \in 1..n /\ i + 1 \in 2..n /\ calls'[t][i] = calls[t][i + 1]
            BY <1>1, <2>1
        <3>2. calls[t][i + 1].pool # p
            BY <1>3, <3>1
        <3>3. QED
            BY <2>1, <3>1, <3>2
    <2>2. CASE u # t
        <3>1. calls[u][i].pool \in AtWork(u) /\ i \in 1..Len(calls[u]) /\ calls'[u] = calls[u]
            BY <1>1, <2>2 DEF AtWork
        <3>2. calls[u][i].pool # p
            BY <1>1, <2>2, <3>1, GoodAtWork
        <3>3. QED
            BY <3>1, <3>2
    <2>3. QED
        BY <2>1, <2>2
<1>5. ASSUME NEW u \in Threads, NEW i \in 1..Len(calls[u]), calls[u][i].pool # p
      PROVE  \E k \in 1..Len(calls'[u]) : calls'[u][k] = calls[u][i]
    <2>1. CASE u = t
        <3>1. i # 1
            BY <1>2, <1>3, <1>5, <2>1
        <3>2. i - 1 \in 1..(n - 1) /\ (i - 1) + 1 = i
            BY <1>1, <2>1, <3>1
        <3>3. calls'[t][i - 1] = calls[t][i]
            BY <1>1, <3>2
        <3>4. QED
            BY <1>1, <2>1, <3>2, <3>3
    <2>2. CASE u # t
        BY <1>1, <2>2
    <2>3. QED
        BY <2>1, <2>2
<1>6. QED
    BY <1>4, <1>5 DEF LeavesFrames

LEMMA FreeStands ==
    ASSUME Good, NEW t \in Threads, Free(t), NEW d, d # Top(t).pool, NEW P
    PROVE  Stands(d, P)' <=> Stands(d, P)
<1>1. PICK p : p = Top(t).pool
    OBVIOUS
<1>2. LeavesFrames(p)
    BY <1>1, FreeFrames
<1>3. ASSUME Stands(d, P), NEW u \in Threads, NEW i \in 1..Len(calls'[u]), calls'[u][i].pool = d
      PROVE  calls'[u][i].at \in P
    <2>1. PICK k \in 1..Len(calls[u]) : calls'[u][i] = calls[u][k]
        <3>1. \A v \in Threads : \A j \in 1..Len(calls'[v]) :
                  \E k \in 1..Len(calls[v]) : calls'[v][j] = calls[v][k]
            BY <1>2 DEF LeavesFrames
        <3>2. QED
            BY <1>3, <3>1
    <2>2. calls[u][k].pool = d
        BY <1>3, <2>1
    <2>3. calls[u][k].at \in P
        BY <1>3, <2>2 DEF Stands
    <2>4. QED
        BY <2>1, <2>3
<1>4. ASSUME Stands(d, P)', NEW u \in Threads, NEW i \in 1..Len(calls[u]), calls[u][i].pool = d
      PROVE  calls[u][i].at \in P
    <2>1. calls[u][i].pool # p
        BY <1>1, <1>4
    <2>2. PICK k \in 1..Len(calls'[u]) : calls'[u][k] = calls[u][i]
        BY <1>2, <1>4, <2>1 DEF LeavesFrames
    <2>3. calls'[u][k].pool = d
        BY <1>4, <2>2
    <2>4. calls'[u][k].at \in P
        BY <1>4, <2>3 DEF Stands
    <2>5. QED
        BY <2>2, <2>4
<1>5. QED
    BY <1>3, <1>4 DEF Stands

(* A pool that stays has its children but the one that is freed. *)
LEMMA FreeChildren ==
    ASSUME Good, NEW t \in Threads, Free(t), NEW p, p = Top(t).pool
    PROVE  /\ \A a \in AllPools : \A d : d \in Children(a)' <=> d \in Children(a) /\ d \notin Under(p)
           /\ \A a \in AllPools : \A d \in Children(a) :
                 /\ a \in Under(p) => d \in Under(p)
                 /\ a \notin Under(p) /\ Live(a) /\ d \in Under(p) => d = p
           /\ \A a \in AllPools : Live(a) /\ a \notin Under(p) =>
                 \A d : d \in Children(a)' <=> d \in Children(a) /\ d # p
<1>1. p \in Pools /\ Live(p) /\ p \in Under(p)
    BY FreeLeaves
<1>2. /\ \A q \in AllPools : Live(q)' <=> Live(q) /\ q \notin Under(p)
      /\ \A q \in AllPools : q \notin Under(p) => parent'[q] = parent[q]
      /\ Under(p) \subseteq Pools
    BY WhatIsFreed DEF Good, TreeInv
<1>3. ASSUME NEW a \in AllPools, NEW d
      PROVE  d \in Children(a)' <=> d \in Children(a) /\ d \notin Under(p)
    BY <1>2, <1>3 DEF Children, AllPools
<1>4. ASSUME NEW a \in AllPools, NEW d \in Children(a)
      PROVE  /\ a \in Under(p) => d \in Under(p)
             /\ a \notin Under(p) /\ Live(a) /\ d \in Under(p) => d = p
    <2>1. d \in Pools /\ Live(d) /\ lineage[d] = lineage[a] \cup {d}
        BY ChildBelow DEF Good, TreeInv
    <2>2. a \in Under(p) => d \in Under(p)
        BY <2>1 DEF Under
    <2>3. a \notin Under(p) /\ Live(a) => p \notin lineage[a]
        BY <1>1 DEF Under, AllPools, Good, TreeInv, LineageInv
    <2>4. QED
        BY <2>1, <2>2, <2>3 DEF Under
<1>5. ASSUME NEW a \in AllPools, Live(a), a \notin Under(p), NEW d
      PROVE  d \in Children(a)' <=> d \in Children(a) /\ d # p
    BY <1>1, <1>3, <1>4, <1>5
<1>6. QED
    BY <1>3, <1>4, <1>5

LEMMA FreeGood ==
    ASSUME Good, TreeInv', Orderly', NEW t \in Threads, Free(t)
    PROVE  Good'
<1> DEFINE p == Top(t).pool
           n == Len(calls[t])
<1>1. /\ p \in Pools /\ Live(p) /\ p \in AtWork(t) /\ p \in Under(p)
      /\ n \in Nat /\ n >= 1
      /\ Len(calls'[t]) = n - 1
      /\ \A i \in 1..(n - 1) : calls'[t][i] = calls[t][i + 1]
      /\ \A u \in Threads \ {t} : calls'[u] = calls[u] /\ AtWork(u)' = AtWork(u)
      /\ AtWork(t)' = AtWork(t) \ {p}
      /\ \A u \in Threads : \A a \in AtWork(u) \ {p} :
            /\ a \in Pools /\ Live(a) /\ a \notin Under(p) /\ p \notin lineage[a]
    BY FreeLeaves
<1>2. /\ \A q \in AllPools : Live(q)' <=> Live(q) /\ q \notin Under(p)
      /\ \A q \in AllPools : q \notin Under(p) =>
            /\ parent'[q] = parent[q] /\ users'[q] = users[q]
            /\ first_cleanup'[q] = first_cleanup[q] /\ reference_count'[q] = reference_count[q]
      /\ \A q \in Under(p) : users'[q] = {} /\ first_cleanup'[q] = {} /\ parent'[q] = NoPool
      /\ lineage' = lineage /\ Under(p) \subseteq Pools
    BY WhatIsFreed DEF Good, TreeInv
<1>3. ~Idle(t) /\ Top(t) = calls[t][1] /\ Top(t).at = "free" /\ 1 \in 1..n
    BY TopIsLive, StackTyped DEF Free, Good, TreeInv, Places
<1>4. \A b \in Under(p) : \A a \in Pools : a \in users[b] /\ Live(a) /\ a \notin Under(p) =>
          /\ a \in AtWork(t)
          /\ \A i \in 1..n : calls[t][i].pool = a => calls[t][i].left = {}
    BY GoneUsers
<1>5. Top(t).pool = p
    OBVIOUS
<1>6. ~Stands(p, Places \ {"free"})
    BY <1>3, TopStands
<1> HIDE DEF p
<1>7. CallsInv'
    BY FreeCalls
<1>8. /\ \A u \in Threads : \A i \in 1..Len(calls'[u]) :
            \E k \in 1..Len(calls[u]) : calls'[u][i] = calls[u][k] /\ calls[u][k].pool # p
      /\ \A d : d # p => (Stands(d, Places \ {"free"})' <=> Stands(d, Places \ {"free"}))
    <2>1. LeavesFrames(p)
        BY <1>5, FreeFrames
    <2>2. PICK S : S = Places \ {"free"}
        OBVIOUS
    <2>3. \A d : d # p => (Stands(d, S)' <=> Stands(d, S))
        BY <1>5, FreeStands
    <2>4. \A d : /\ Stands(d, S) <=> Stands(d, Places \ {"free"})
                 /\ Stands(d, S)' <=> Stands(d, Places \ {"free"})'
        BY <2>2 DEF Stands
    <2>5. QED
        BY <2>1, <2>3, <2>4 DEF LeavesFrames
<1>9. \A b \in Pools : b \in AllPools /\ (b \in Under(p) \/ users'[b] = users[b])
    BY <1>2 DEF AllPools
<1>10. CleanupsInv'
    <2>1. ASSUME NEW a \in Pools, NEW b \in Pools, a \in users'[b]
          PROVE  b \notin lineage'[a] /\ (Live(a)' => b \in first_cleanup'[a])
        <3>1. a \in users[b]
            BY <1>2, <1>9, <2>1
        <3>2. QED
            BY <1>2, <1>9, <3>1 DEF Good, CleanupsInv
    <2>2. ASSUME NEW a \in Pools, NEW b \in Pools,
                 Live(a)', b \in first_cleanup'[a], \A u \in Threads : a \notin AtWork(u)'
          PROVE  a \in users'[b]
        <3>1. Live(a) /\ a \notin Under(p) /\ b \in first_cleanup[a] /\ a # p
            BY <1>1, <1>2, <1>9, <2>2
        <3>2. \A u \in Threads : a \notin AtWork(u)
            BY <1>1, <2>2, <3>1
        <3>3. a \in users[b]
            BY <3>1, <3>2 DEF Good, CleanupsInv
        <3>4. b \notin Under(p)
            BY <1>4, <3>1, <3>2, <3>3
        <3>5. QED
            BY <1>9, <3>3, <3>4
    <2>3. ASSUME NEW u \in Threads, NEW i \in 1..Len(calls'[u]), NEW b \in Pools
          PROVE  b \in calls'[u][i].left <=> calls'[u][i].pool \in users'[b]
        <3>1. PICK k \in 1..Len(calls[u]) : calls'[u][i] = calls[u][k] /\ calls[u][k].pool # p
            BY <1>8
        <3>2. b \in calls[u][k].left <=> calls[u][k].pool \in users[b]
            BY DEF Good, CleanupsInv
        <3>3. CASE b \notin Under(p)
            BY <1>9, <3>1, <3>2, <3>3
        <3>4. CASE b \in Under(p)
            <4>1. calls[u][k].pool \in AtWork(u)
                BY DEF AtWork
            <4>2. /\ calls[u][k].pool \in Pools /\ Live(calls[u][k].pool)
                  /\ calls[u][k].pool \notin Under(p)
                BY <1>1, <3>1, <4>1
            <4>3. ASSUME b \in calls[u][k].left PROVE FALSE
                <5>1. calls[u][k].pool \in AtWork(t)
                    BY <1>4, <3>2, <3>4, <4>2, <4>3
                <5>2. u = t
                    BY <4>1, <5>1, GoodAtWork
                <5>3. QED
                    BY <1>4, <3>2, <3>4, <4>2, <4>3, <5>2
            <4>4. QED
                BY <1>2, <3>1, <3>4, <4>3
        <3>5. QED
            BY <3>3, <3>4
    <2>4. QED
        BY <2>1, <2>2, <2>3 DEF CleanupsInv
<1>11. /\ \A a \in AllPools : \A d : d \in Children(a)' <=> d \in Children(a) /\ d \notin Under(p)
       /\ \A a \in AllPools : \A d \in Children(a) : a \in Under(p) => d \in Under(p)
       /\ \A a \in AllPools : Live(a) /\ a \notin Under(p) =>
             \A d : d \in Children(a)' <=> d \in Children(a) /\ d # p
    BY <1>5, FreeChildren
<1>12. UsersInv'
    <2>1. users'[Base] = {Base}
        BY <1>2 DEF AllPools, Good, UsersInv
    <2>2. ASSUME NEW a \in Pools
          PROVE  /\ Base \notin users'[a]
                 /\ users'[a] # {} => Live(a)'
                 /\ Children(a)' # {} => users'[a] # {}
                 /\ Live(a)' /\ users'[a] = {} => \E u \in Threads : a \in AtWork(u)'
        <3>1. /\ Base \notin users[a] /\ (users[a] # {} => Live(a)) /\ (Children(a) # {} => users[a] # {})
              /\ Live(a) /\ users[a] = {} => \E u \in Threads : a \in AtWork(u)
            BY DEF Good, UsersInv
        <3>2. CASE a \in Under(p)
            <4>1. Children(a)' = {}
                BY <1>9, <1>11, <3>2
            <4>2. QED
                BY <1>2, <1>9, <3>2, <4>1
        <3>3. CASE a \notin Under(p)
            <4>1. users'[a] = users[a] /\ (Live(a)' <=> Live(a)) /\ a # p
                BY <1>1, <1>2, <1>9, <3>3
            <4>2. \A u \in Threads : a \in AtWork(u) => a \in AtWork(u)'
                BY <1>1, <4>1
            <4>3. Children(a)' # {} => Children(a) # {}
                BY <1>9, <1>11
            <4>4. QED
                BY <3>1, <4>1, <4>2, <4>3
        <3>4. QED
            BY <3>2, <3>3
    <2>3. QED
        BY <2>1, <2>2 DEF UsersInv
<1>13. ASSUME NEW a \in AllPools, Live(a), a \notin Under(p)
       PROVE  Counted(a)' = Counted(a)
    <2>1. \A d : d \in Children(a)' <=> d \in Children(a) /\ d # p
        BY <1>1, <1>11, <1>13
    <2>2. \A d : d \in Counted(a)' <=> d \in Counted(a)
        BY <1>6, <1>8, <2>1 DEF Counted
    <2>3. QED
        BY <2>2
<1>14. CountExact'
    <2>1. SUFFICES ASSUME NEW a \in AllPools, Live(a)'
                   PROVE  reference_count'[a] = Cardinality(users'[a]) + Cardinality(Counted(a)')
        BY DEF CountExact
    <2>2. /\ Live(a) /\ a \notin Under(p) /\ users'[a] = users[a] /\ Counted(a)' = Counted(a)
          /\ reference_count'[a] = reference_count[a]
        BY <1>2, <1>13, <2>1
    <2>3. reference_count[a] = Cardinality(users[a]) + Cardinality(Counted(a))
        BY <2>2 DEF Good, CountExact
    <2>4. QED
        BY <2>2, <2>3
<1>15. QED
    BY <1>7, <1>10, <1>12, <1>14 DEF Good

LEMMA OrderlyBefore ==
    ASSUME Next, Orderly'
    PROVE  Orderly
<1>1. ASSUME NEW t \in Threads, NEW p, Create(t, p) \/ CreateThread(t) PROVE Orderly
    BY <1>1 DEF Create, CreateThread, Allocates, Orderly
<1>2. ASSUME NEW t \in Threads, NEW u, NEW p, NEW q,
             \/ AddReference(t, u, p) \/ Release(t, p) \/ Destroy(t, p)
             \/ RegisterCleanup(t, p, q) \/ DeregisterCleanup(t, p, q)
      PROVE  Orderly
    <2>1. CASE AddReference(t, u, p) \/ Destroy(t, p)
        BY <2>1 DEF AddReference, Destroy, history, Orderly
    <2>2. CASE Release(t, p)
        BY <2>2 DEF Release, LetGo, Orderly
    <2>3. CASE RegisterCleanup(t, p, q) \/ DeregisterCleanup(t, p, q)
        BY <2>3 DEF RegisterCleanup, DeregisterCleanup, history, Orderly
    <2>4. QED
        BY <1>2, <2>1, <2>2, <2>3
<1>3. ASSUME NEW t \in Threads, GoOn(t) PROVE Orderly
    <2>1. CASE AddChild(t) \/ LinkChild(t) \/ DestroyChild(t)
        BY <2>1 DEF AddChild, LinkChild, DestroyChild, history, Orderly
    <2>2. CASE Search(t) \/ Unlink(t) \/ ReleaseParent(t) \/ Free(t)
        BY <2>2 DEF Search, Unlink, ReleaseParent, Free, history, Orderly
    <2>3. CASE RunCleanup(t)
        BY <2>3 DEF RunCleanup, LetGo, Orderly
    <2>4. CASE ChildrenGone(t)
        BY <2>4 DEF ChildrenGone, Orderly
    <2>5. CASE NotAChild(t) \/ UseFreed(t)
        BY <2>5 DEF NotAChild, UseFreed, Orderly
    <2>6. QED
        BY <1>3, <2>1, <2>2, <2>3, <2>4, <2>5 DEF GoOn
<1>4. CASE Ended
    BY <1>4 DEF Ended, vars, history, Orderly
<1>5. QED
    BY <1>1, <1>2, <1>3, <1>4 DEF Next, Begin

LEMMA GoodStuttering ==
    ASSUME Good, UNCHANGED vars
    PROVE  Good'
<1>1. UNCHANGED <<memory, lineage, parent, reference_count, first_child, next_sibling,
                  first_cleanup, users, calls, broken, early, overlapped>>
    BY DEF vars, structVars, listVars, countVars, history
<1>2. TreeInv'
    BY TreeStuttering DEF Good
<1>3. (\A t : Idle(t)' <=> Idle(t)) /\ (\A p : Live(p)' <=> Live(p))
      /\ (\A p : Under(p)' = Under(p)) /\ (\A p : Children(p)' = Children(p))
    <2>1. (\A t : Idle(t)' <=> Idle(t)) /\ (\A p : Live(p)' <=> Live(p))
        BY <1>1 DEF Idle, Live
    <2>2. \A p : Under(p)' = Under(p)
        BY <1>1, <2>1 DEF Under
    <2>3. \A p : Children(p)' = Children(p)
        BY <1>1, <2>1 DEF Children
    <2>4. QED
        BY <2>1, <2>2, <2>3
<1>4. \A t : AtWork(t)' = AtWork(t) /\ Root(t)' = Root(t)
    BY <1>1 DEF AtWork, Root
<1>5. (\A p : Spent(p)' <=> Spent(p)) /\ (\A t, p : Owns(t, p)' <=> Owns(t, p))
    BY <1>1, <1>3, <1>4 DEF Spent, Owns
<1>6. \A t : StackInv(t)' <=> StackInv(t)
    <2>1. \A f, g : Inside(f, g)' <=> Inside(f, g)
        BY <1>1, <1>5 DEF Inside
    <2>2. \A t, f : Creates(t, f)' <=> Creates(t, f)
        BY <1>1 DEF Creates
    <2>3. \A t, p : Destroys(t, p)' <=> Destroys(t, p)
        BY <1>1, <1>4, <1>5 DEF Destroys
    <2>4. QED
        BY <1>1, <1>3, <2>1, <2>2, <2>3 DEF StackInv
<1>7. CallsInv'
    BY <1>4, <1>6 DEF Good, CallsInv
<1>8. CleanupsInv' /\ UsersInv'
    BY <1>1, <1>3, <1>4 DEF Good, CleanupsInv, UsersInv
<1>9. \A p : Counted(p)' = Counted(p)
    BY <1>1, <1>3 DEF Counted, Stands
<1>10. CountExact' /\ Orderly'
    BY <1>1, <1>3, <1>9 DEF Good, CountExact, Orderly
<1>11. QED
    BY <1>2, <1>7, <1>8, <1>10 DEF Good

LEMMA GoodStep ==
    ASSUME Good, TreeInv', Orderly', Next
    PROVE  Good'
<1>1. ASSUME NEW t \in Threads, Begin(t) PROVE Good'
    <2>1. CASE CreateThread(t)
        BY <2>1, CreateThreadGood
    <2>2. ASSUME NEW p \in AllPools, Create(t, p) PROVE Good'
        BY <2>2, CreateGood
    <2>3. ASSUME NEW p \in Pools, Release(t, p) \/ Destroy(t, p) PROVE Good'
        BY <2>3, ReleaseGood, DestroyGood
    <2>4. ASSUME NEW p \in Pools, NEW u \in Threads, AddReference(t, u, p) PROVE Good'
        BY <2>4, ShareGood
    <2>5. ASSUME NEW p \in Pools, NEW q \in Pools, RegisterCleanup(t, p, q) \/ DeregisterCleanup(t, p, q)
          PROVE  Good'
        BY <2>5, ShareGood
    <2>6. QED
        BY <1>1, <2>1, <2>2, <2>3, <2>4, <2>5 DEF Begin
<1>2. ASSUME NEW t \in Threads, GoOn(t) PROVE Good'
    <2>1. CASE AddChild(t) \/ LinkChild(t) \/ ChildrenGone(t) \/ Search(t) \/ Unlink(t)
        BY <2>1, InListGood
    <2>2. CASE RunCleanup(t) \/ DestroyChild(t) \/ ReleaseParent(t) \/ Free(t)
        BY <2>2, RunCleanupGood, DestroyChildGood, ReleaseParentGood, FreeGood
    <2>3. CASE NotAChild(t) \/ UseFreed(t)
        BY <2>3 DEF NotAChild, UseFreed, Orderly
    <2>4. QED
        BY <1>2, <2>1, <2>2, <2>3 DEF GoOn
<1>3. CASE Ended
    BY <1>3, GoodStuttering DEF Ended
<1>4. QED
    BY <1>1, <1>2, <1>3 DEF Next

LEMMA GoodInit ==
    ASSUME Init
    PROVE  Good
<1>1. TreeInv /\ Orderly
    BY TreeInit DEF Init, Orderly
<1>2. \A t \in Threads : Len(calls[t]) = 0
    BY DEF Init
<1>3. \A t \in Threads : 1..Len(calls[t]) = {} /\ AtWork(t) = {}
    BY <1>2 DEF AtWork
<1>4. CallsInv
    BY <1>3 DEF CallsInv, StackInv
<1>5. \A p \in Pools : users[p] = {} /\ first_cleanup[p] = {} /\ ~Live(p)
    BY DEF Init, Live, AllPools
<1>6. CleanupsInv
    BY <1>3, <1>5 DEF CleanupsInv
<1>7. users[Base] = {Base} /\ reference_count[Base] = 1
    BY DEF Init, AllPools
<1>8. \A p : Children(p) = {} /\ Counted(p) = {}
    BY <1>5 DEF Children, Counted
<1>9. UsersInv
    BY <1>5, <1>7, <1>8 DEF UsersInv
<1>10. CountExact
    <2>1. SUFFICES ASSUME NEW p \in AllPools, Live(p)
                   PROVE  reference_count[p] = Cardinality(users[p]) + Cardinality(Counted(p))
        BY DEF CountExact
    <2>2. p = Base
        BY <1>5, <2>1 DEF AllPools
    <2>3. Cardinality({Base}) = 1 /\ Cardinality({}) = 0
        BY FS_Singleton, FS_EmptySet
    <2>4. Cardinality(users[p]) = 1
        BY <1>7, <2>2, <2>3
    <2>5. Cardinality(Counted(p)) = 0
        BY <1>8, <2>3
    <2>6. QED
        BY <1>7, <2>2, <2>4, <2>5
<1>11. QED
    BY <1>1, <1>4, <1>6, <1>9, <1>10 DEF Good

-----------------------------------------------------------------------------
(* Lists, as long as no two threads are in one *)

Standing == {"destroy", "search", "unlink"}

HasList(p) == \E s \in Orders(p) : Linked(p, s)

Lists ==
    /\ \A p \in AllPools : Live(p) => HasList(p)
    /\ \A t \in Threads : ~Idle(t) => ListStep(Top(t))
    /\ \A t, u \in Threads :
          /\ t # u /\ ~Idle(t) /\ ~Idle(u)
          /\ Top(t).at \in InList /\ Top(u).at \in InList
          => parent[Top(t).pool] # parent[Top(u).pool]

LEMMA StandsKept ==
    ASSUME NEW d, NEW P,
           \A u \in Threads : \A i \in 1..Len(calls'[u]) : calls'[u][i].pool = d =>
               \/ calls'[u][i].at \in P
               \/ \E k \in 1..Len(calls[u]) : calls'[u][i] = calls[u][k],
           \A u \in Threads : \A i \in 1..Len(calls[u]) : calls[u][i].pool = d =>
               \/ calls[u][i].at \in P
               \/ \E k \in 1..Len(calls'[u]) : calls'[u][k] = calls[u][i]
    PROVE  Stands(d, P)' <=> Stands(d, P)
<1>1. ASSUME Stands(d, P), NEW u \in Threads, NEW i \in 1..Len(calls'[u]), calls'[u][i].pool = d
      PROVE  calls'[u][i].at \in P
    BY <1>1 DEF Stands
<1>2. ASSUME Stands(d, P)', NEW u \in Threads, NEW i \in 1..Len(calls[u]), calls[u][i].pool = d
      PROVE  calls[u][i].at \in P
    BY <1>2 DEF Stands
<1>3. QED
    BY <1>1, <1>2 DEF Stands

(* A thread goes on with the frame of a pool: only that pool may stand elsewhere. *)
LEMMA StandsReplaced ==
    ASSUME Good, NEW t \in Threads, ~Idle(t), NEW f \in Frames, Continue(t, <<>>, f),
           f.pool = Top(t).pool, NEW P
    PROVE  /\ \A d : d # f.pool => (Stands(d, P)' <=> Stands(d, P))
           /\ Stands(f.pool, P)' <=> f.at \in P
           /\ Stands(f.pool, P) <=> Top(t).at \in P
<1>1. /\ Len(calls'[t]) = Len(calls[t]) /\ Len(calls[t]) \in Nat /\ Top(t) = calls[t][1]
      /\ calls'[t][1] = f /\ \A i \in 2..Len(calls[t]) : calls'[t][i] = calls[t][i]
      /\ \A v \in Threads \ {t} : calls'[v] = calls[v]
      /\ 1 \in 1..Len(calls[t])
    BY TopReplaced, StackTyped DEF Good, TreeInv
<1>2. \A i \in 1..Len(calls[t]) : i = 1 \/ i \in 2..Len(calls[t])
    BY <1>1
<1>3. ASSUME NEW d, d # f.pool
      PROVE  Stands(d, P)' <=> Stands(d, P)
    <2>1. \A u \in Threads : \A i \in 1..Len(calls'[u]) : calls'[u][i].pool = d =>
              \E k \in 1..Len(calls[u]) : calls'[u][i] = calls[u][k]
        BY <1>1, <1>2, <1>3
    <2>2. \A u \in Threads : \A i \in 1..Len(calls[u]) : calls[u][i].pool = d =>
              \E k \in 1..Len(calls'[u]) : calls'[u][k] = calls[u][i]
        BY <1>1, <1>2, <1>3
    <2>3. QED
        BY <2>1, <2>2, StandsKept
<1>4. ASSUME NEW u \in Threads, NEW i \in 1..Len(calls'[u]), calls'[u][i].pool = f.pool
      PROVE  calls'[u][i] = f
    <2>1. CASE u = t
        <3>1. i = 1 \/ (calls'[t][i] = calls[t][i] /\ i \in 1..Len(calls[t]))
            BY <1>1, <1>2, <2>1
        <3>2. i = 1
            BY <1>1, <1>4, <2>1, <3>1, GoodAtWork
        <3>3. QED
            BY <1>1, <2>1, <3>2
    <2>2. CASE u # t
        <3>1. f.pool \in AtWork(u) /\ f.pool \in AtWork(t)
            BY <1>1, <1>4, <2>2 DEF AtWork
        <3>2. QED
            BY <2>2, <3>1, GoodAtWork
    <2>3. QED
        BY <2>1, <2>2
<1>5. Stands(f.pool, P)' <=> f.at \in P
    BY <1>1, <1>4 DEF Stands
<1>6. Stands(f.pool, P) <=> Top(t).at \in P
    BY TopStands
<1>7. QED
    BY <1>3, <1>5, <1>6

(* The children in the list of each pool stay the same. *)
LEMMA ListedKept ==
    ASSUME Good, UNCHANGED <<memory, parent>>, NEW t \in Threads,
           \A u \in Threads \ {t} : calls'[u] = calls[u],
           ~Idle(t) => Top(t).at \in Standing,
           NEW N, NewFrames(N), \A f \in N : f.at \in Standing
    PROVE  \A p : Listed(p)' = Listed(p)
<1>1. \A p : Children(p)' = Children(p)
    BY DEF Live, Children
<1>2. ASSUME NEW d
      PROVE  Stands(d, Standing)' <=> Stands(d, Standing)
    <2>1. \A u \in Threads : \A i \in 1..Len(calls'[u]) :
              calls'[u][i].at \in Standing \/ \E k \in 1..Len(calls[u]) : calls'[u][i] = calls[u][k]
        BY DEF NewFrames
    <2>2. ASSUME NEW u \in Threads, NEW i \in 1..Len(calls[u])
          PROVE  calls[u][i].at \in Standing \/ \E k \in 1..Len(calls'[u]) : calls'[u][k] = calls[u][i]
        <3>1. CASE u = t
            BY <3>1, OnlyTopFree DEF Standing
        <3>2. CASE u # t
            BY <3>2
        <3>3. QED
            BY <3>1, <3>2
    <2>3. QED
        BY <2>1, <2>2, StandsKept
<1>3. QED
    BY <1>1, <1>2 DEF Listed, Standing

LEMMA ListedReplaced ==
    ASSUME Good, UNCHANGED <<memory, parent>>, NEW t \in Threads, ~Idle(t),
           NEW f \in Frames, Continue(t, <<>>, f), f.pool = Top(t).pool,
           f.at \in Standing <=> Top(t).at \in Standing
    PROVE  \A p : Listed(p)' = Listed(p)
<1>1. \A p : Children(p)' = Children(p)
    BY DEF Live, Children
<1>2. \A d : Stands(d, Standing)' <=> Stands(d, Standing)
    BY StandsReplaced
<1>3. QED
    BY <1>1, <1>2 DEF Listed, Standing

(* A list depends on the pointers of its pool and of the children in it. *)
LEMMA LinkedKept ==
    ASSUME NEW p, Listed(p)' = Listed(p), first_child'[p] = first_child[p],
           \A c \in Listed(p) : next_sibling'[c] = next_sibling[c]
    PROVE  /\ Orders(p)' = Orders(p)
           /\ \A s \in Orders(p) : Linked(p, s)' <=> Linked(p, s)
<1>1. Orders(p)' = Orders(p)
    BY DEF Orders
<1>2. ASSUME NEW s \in Orders(p)
      PROVE  Linked(p, s)' <=> Linked(p, s)
    <2>1. \A k \in DOMAIN s : s[k] \in Listed(p)
        BY DEF Orders
    <2>2. QED
        BY <2>1 DEF Linked, Nth
<1>3. QED
    BY <1>1, <1>2

LEMMA HasListKept ==
    ASSUME NEW p, Listed(p)' = Listed(p), first_child'[p] = first_child[p],
           \A c \in Listed(p) : next_sibling'[c] = next_sibling[c], HasList(p)
    PROVE  HasList(p)'
BY LinkedKept DEF HasList

LEMMA ListStepKept ==
    ASSUME NEW f, NEW up, up = parent[f.pool], parent'[f.pool] = up,
           Listed(up)' = Listed(up), first_child'[up] = first_child[up],
           \A c \in Listed(up) : next_sibling'[c] = next_sibling[c],
           f.at = "link" => next_sibling'[f.pool] = next_sibling[f.pool],
           ListStep(f)
    PROVE  ListStep(f)'
<1>1. /\ Orders(up)' = Orders(up)
      /\ \A s \in Orders(up) : Linked(up, s)' <=> Linked(up, s)
    BY LinkedKept
<1>2. QED
    BY <1>1 DEF ListStep, Searching, Nth

ListSame(p) ==
    /\ Listed(p)' = Listed(p) /\ first_child'[p] = first_child[p]
    /\ \A c \in Listed(p) : next_sibling'[c] = next_sibling[c]

(* Where the pool of a frame in a list is *)
LEMMA InListIs ==
    ASSUME Good, NEW t \in Threads, ~Idle(t), Top(t).at \in InList \cup {"parent"}
    PROVE  LET c == Top(t).pool
               up == parent[c]
           IN  /\ c \in Pools /\ c \in AllPools /\ Live(c) /\ up \in AllPools /\ up # NoPool /\ Live(up)
               /\ c \in Children(up) /\ up # c /\ up \in lineage[c] /\ c \in AtWork(t)
               /\ Top(t) \in Frames /\ Top(t) = calls[t][1] /\ 1 \in 1..Len(calls[t])
<1>1. Top(t) = calls[t][1] /\ 1 \in 1..Len(calls[t]) /\ Top(t) \in Frames
    BY StackTyped DEF Good, TreeInv
<1>2. At(t, Top(t).at)
    BY <1>1, GoodFrame DEF At, Good, Orderly
<1>3. parent[Top(t).pool] # NoPool
    BY <1>1, <1>2 DEF Good, TreeInv, FamilyInv, At
<1>4. Top(t).pool \in Pools /\ Live(Top(t).pool) /\ Top(t).pool \in AtWork(t)
    BY <1>1, GoodFrame
<1>5. parent[Top(t).pool] \in AllPools
    BY <1>3, <1>4 DEF Good, TreeInv, TypeOK, AllPools
<1>6. /\ parent[Top(t).pool] \in lineage[Top(t).pool] /\ parent[Top(t).pool] # Top(t).pool
      /\ Live(parent[Top(t).pool])
    BY <1>3, <1>4 DEF Good, TreeInv, LineageInv
<1>7. QED
    BY <1>1, <1>3, <1>4, <1>5, <1>6 DEF Children, AllPools

(* A step of thread t in the list of P leaves the others where they are in theirs. *)
LEMMA ListsStep ==
    ASSUME Good, Lists, NEW t \in Threads, \A u \in Threads \ {t} : calls'[u] = calls[u],
           NEW P,
           \A a \in AllPools : Live(a) /\ Live(a)' /\ a # P => ListSame(a),
           \A a \in AllPools : Live(a)' /\ (a = P \/ ~Live(a)) => HasList(a)',
           \A u \in Threads \ {t} : ~Idle(u) /\ Top(u).at \in InList =>
               /\ parent[Top(u).pool] # P /\ memory'[parent[Top(u).pool]] = "live"
               /\ parent'[Top(u).pool] = parent[Top(u).pool]
               /\ next_sibling'[Top(u).pool] = next_sibling[Top(u).pool],
           \A f : ~Idle(t)' /\ f = Top(t)' =>
               /\ ListStep(f)'
               /\ f.at \in InList => \A u \in Threads \ {t} :
                      ~Idle(u) /\ Top(u).at \in InList => parent'[f.pool] # parent[Top(u).pool]
    PROVE  Lists'
<1>1. ASSUME NEW a \in AllPools, Live(a)'
      PROVE  HasList(a)'
    <2>1. CASE Live(a) /\ a # P
        <3>1. ListSame(a) /\ HasList(a)
            BY <1>1, <2>1 DEF Lists
        <3>2. QED
            BY <3>1, HasListKept DEF ListSame
    <2>2. QED
        BY <1>1, <2>1
<1>2. \A u \in Threads \ {t} : (Idle(u)' <=> Idle(u)) /\ Top(u)' = Top(u)
    BY DEF Idle, Top
<1>3. ASSUME NEW u \in Threads \ {t}, ~Idle(u), NEW f, f = Top(u)
      PROVE  ListStep(f)'
    <2>1. CASE f.at \in InList
        <3>1. PICK up \in AllPools : up = parent[f.pool] /\ Live(up)
            BY <1>3, <2>1, InListIs
        <3>2. /\ parent'[f.pool] = up /\ Live(up)' /\ up # P
              /\ next_sibling'[f.pool] = next_sibling[f.pool]
            BY <1>3, <2>1, <3>1 DEF Live
        <3>3. ListSame(up) /\ ListStep(f)
            BY <1>3, <3>1, <3>2 DEF Lists
        <3>4. QED
            BY <3>1, <3>2, <3>3, ListStepKept DEF ListSame
    <2>2. CASE f.at \notin InList
        BY <2>2 DEF ListStep, InList
    <2>3. QED
        BY <2>1, <2>2
<1>4. ASSUME NEW u \in Threads, ~Idle(u)', NEW f, f = Top(u)'
      PROVE  ListStep(f)'
    BY <1>2, <1>3, <1>4
<1>5. ASSUME NEW u \in Threads, NEW v \in Threads, u # v, ~Idle(u)', ~Idle(v)',
             NEW f, f = Top(u)', NEW g, g = Top(v)', f.at \in InList, g.at \in InList
      PROVE  parent'[f.pool] # parent'[g.pool]
    <2>1. CASE u = t
        <3>1. v # t /\ ~Idle(v) /\ g = Top(v)
            BY <1>2, <1>5, <2>1
        <3>2. QED
            BY <1>5, <2>1, <3>1
    <2>2. CASE v = t
        <3>1. u # t /\ ~Idle(u) /\ f = Top(u)
            BY <1>2, <1>5, <2>2
        <3>2. QED
            BY <1>5, <2>2, <3>1
    <2>3. CASE u # t /\ v # t
        <3>1. ~Idle(u) /\ f = Top(u) /\ ~Idle(v) /\ g = Top(v)
            BY <1>2, <1>5, <2>3
        <3>2. parent[f.pool] # parent[g.pool]
            BY <1>5, <3>1 DEF Lists
        <3>3. QED
            BY <1>5, <2>3, <3>1, <3>2
    <2>4. QED
        BY <2>1, <2>2, <2>3
<1>6. QED
    BY <1>1, <1>4, <1>5 DEF Lists

LEMMA TopAfter ==
    ASSUME TypeOK', NEW t \in Threads
    PROVE  /\ Idle(t)' <=> Len(calls'[t]) = 0
           /\ ~Idle(t)' => Top(t)' = calls'[t][1] /\ 1 \in 1..Len(calls'[t])
           /\ calls' \in [Threads -> Seq(Frames)] /\ Len(calls'[t]) \in Nat
<1>1. calls' \in [Threads -> Seq(Frames)]
    BY DEF TypeOK
<1>2. calls'[t] \in Seq(Frames)
    BY <1>1
<1>3. QED
    BY <1>1, <1>2 DEF Idle, Top

(* Steps that do nothing in a list *)
LEMMA QuietLists ==
    ASSUME Good, Lists, TypeOK', UNCHANGED <<memory, parent, first_child, next_sibling>>,
           NEW t \in Threads, \A u \in Threads \ {t} : calls'[u] = calls[u],
           \A p \in AllPools : Listed(p)' = Listed(p),
           Len(calls'[t]) # 0 => calls'[t][1].at \notin InList
    PROVE  Lists'
<1>1. \A a \in AllPools : ListSame(a) /\ (Live(a)' <=> Live(a))
    BY DEF ListSame, Live
<1>2. \A u \in Threads \ {t} : ~Idle(u) /\ Top(u).at \in InList =>
          /\ parent[Top(u).pool] # NoPool /\ memory'[parent[Top(u).pool]] = "live"
          /\ parent'[Top(u).pool] = parent[Top(u).pool]
          /\ next_sibling'[Top(u).pool] = next_sibling[Top(u).pool]
    BY InListIs DEF Live
<1>3. \A f : ~Idle(t)' /\ f = Top(t)' => f.at \notin InList
    BY TopAfter
<1>4. \A f : f.at \notin InList => ListStep(f)'
    BY DEF ListStep, InList
<1>5. /\ \A a \in AllPools : Live(a) /\ Live(a)' /\ a # NoPool => ListSame(a)
      /\ \A a \in AllPools : Live(a)' /\ (a = NoPool \/ ~Live(a)) => HasList(a)'
    BY <1>1 DEF AllPools
<1>6. \A f : ~Idle(t)' /\ f = Top(t)' =>
          /\ ListStep(f)'
          /\ f.at \in InList => \A u \in Threads \ {t} :
                 ~Idle(u) /\ Top(u).at \in InList => parent'[f.pool] # parent[Top(u).pool]
    BY <1>3, <1>4
<1>7. QED
    BY <1>2, <1>5, <1>6, ListsStep

LEMMA BeginLists ==
    ASSUME Good, Lists, TreeInv', NEW t \in Threads, NEW p \in Pools, NEW q \in Pools, NEW w \in Threads,
           \/ AddReference(t, w, p)
           \/ RegisterCleanup(t, p, q)
           \/ DeregisterCleanup(t, p, q)
           \/ Release(t, p)
           \/ Destroy(t, p)
    PROVE  Lists'
<1>1. /\ UNCHANGED <<memory, parent, first_child, next_sibling>> /\ Idle(t)
      /\ \/ calls' = calls
         \/ calls' = [calls EXCEPT ![t] = <<>>]
         \/ calls' = [calls EXCEPT ![t] = <<Frame(p, "destroy")>>]
    BY DEF AddReference, RegisterCleanup, DeregisterCleanup, Release, Destroy, DestroyAtZero,
           structVars, listVars, Uses
<1>2. PICK f \in Frames : f = Frame(p, "destroy")
    BY FrameIsFrame DEF Good, TreeInv, Places, AllPools
<1>3. f.at = "destroy"
    BY <1>2, FrameIsFrame DEF Good, TreeInv, Places, AllPools
<1>4. CASE calls' = calls \/ calls' = [calls EXCEPT ![t] = <<>>]
    <2>1. calls' = calls
        BY <1>1, <1>4 DEF Idle, Good, TreeInv, TypeOK
    <2>2. Len(calls'[t]) = 0
        BY <1>1, <2>1 DEF Idle
    <2>3. \A a : Listed(a)' = Listed(a)
        BY <1>1, <2>1 DEF Listed, Children, Live, Stands
    <2>4. QED
        BY <1>1, <2>1, <2>2, <2>3, QuietLists DEF TreeInv
<1>5. CASE calls' = [calls EXCEPT ![t] = <<Frame(p, "destroy")>>]
    <2>1. /\ NewFrames({f}) /\ \A u \in Threads \ {t} : calls'[u] = calls[u]
          /\ calls'[t][1] = f
        BY <1>2, <1>5, FramesBegun, CallBegins DEF Good, TreeInv
    <2>2. \A a : Listed(a)' = Listed(a)
        BY <1>1, <1>3, <2>1, ListedKept DEF Standing
    <2>3. calls'[t][1].at \notin InList
        BY <1>3, <2>1 DEF InList
    <2>4. QED
        BY <1>1, <2>1, <2>2, <2>3, QuietLists DEF TreeInv
<1>6. QED
    BY <1>1, <1>4, <1>5

LEMMA CallLists ==
    ASSUME Good, Lists, TreeInv', Orderly', NEW t \in Threads, RunCleanup(t) \/ DestroyChild(t)
    PROVE  Lists'
<1>1. /\ UNCHANGED <<memory, parent, first_child, next_sibling>> /\ ~Idle(t) /\ Top(t).at = "destroy"
      /\ Top(t) \in Frames
    <2>1. At(t, "destroy") /\ UNCHANGED <<memory, parent, first_child, next_sibling>>
        BY DEF RunCleanup, DestroyChild, InChildren, structVars, listVars
    <2>2. QED
        BY <2>1, TopIsLive DEF Good, TreeInv, Places
<1>2. \E f \in Frames : /\ f.pool = Top(t).pool /\ f.at = "destroy"
                        /\ \/ Continue(t, <<>>, f)
                           \/ \E c \in AllPools : Continue(t, <<Frame(c, "destroy")>>, f)
    <2>1. CASE RunCleanup(t)
        <3>1. PICK q \in Top(t).left :
                  Live(q) /\ Continue(t, DestroyAtZero(q), [Top(t) EXCEPT !.left = @ \ {q}])
            BY <2>1 DEF RunCleanup
        <3>2. PICK f : f = [Top(t) EXCEPT !.left = @ \ {q}]
            OBVIOUS
        <3>3. f \in Frames /\ f.pool = Top(t).pool /\ f.at = "destroy" /\ q \in AllPools
            BY <1>1, <3>2 DEF Frames, AllPools
        <3>4. QED
            BY <3>1, <3>2, <3>3 DEF DestroyAtZero
    <2>2. CASE DestroyChild(t)
        BY <1>1, <2>2, ChildIs DEF AllPools
    <2>3. QED
        BY <2>1, <2>2
<1>3. PICK f \in Frames : /\ f.pool = Top(t).pool /\ f.at = "destroy"
                          /\ \/ Continue(t, <<>>, f)
                             \/ \E c \in AllPools : Continue(t, <<Frame(c, "destroy")>>, f)
    BY <1>2
<1>4. CASE Continue(t, <<>>, f)
    <2>1. \A a : Listed(a)' = Listed(a)
        BY <1>1, <1>3, <1>4, ListedReplaced
    <2>2. calls'[t][1] = f /\ \A u \in Threads \ {t} : calls'[u] = calls[u]
        BY <1>1, <1>4, TopReplaced DEF Good, TreeInv
    <2>3. calls'[t][1].at \notin InList
        BY <1>3, <2>2 DEF InList
    <2>4. QED
        BY <1>1, <2>1, <2>2, <2>3, QuietLists DEF TreeInv
<1>5. CASE \E c \in AllPools : Continue(t, <<Frame(c, "destroy")>>, f)
    <2>1. PICK c \in AllPools : Continue(t, <<Frame(c, "destroy")>>, f)
        BY <1>5
    <2>2. PICK g \in Frames : g = Frame(c, "destroy") /\ g.at = "destroy"
        BY FrameIsFrame DEF Good, TreeInv, Places
    <2>3. Continue(t, <<g>>, f)
        BY <2>1, <2>2
    <2>4. NewFrames({f, g}) /\ calls'[t][1] = g /\ \A u \in Threads \ {t} : calls'[u] = calls[u]
        BY <1>1, <2>3, FramesCalled, TopCalls DEF Good, TreeInv
    <2>5. \A a : Listed(a)' = Listed(a)
        <3>1. \A h \in {f, g} : h.at \in Standing
            BY <1>3, <2>2 DEF Standing
        <3>2. Top(t).at \in Standing
            BY <1>1 DEF Standing
        <3>3. QED
            BY <1>1, <2>4, <3>1, <3>2, ListedKept
    <2>6. calls'[t][1].at \notin InList
        BY <2>2, <2>4 DEF InList
    <2>7. QED
        BY <1>1, <2>4, <2>5, <2>6, QuietLists DEF TreeInv
<1>6. QED
    BY <1>3, <1>4, <1>5

LEMMA ReleaseParentLists ==
    ASSUME Good, Lists, TreeInv', NEW t \in Threads, ReleaseParent(t)
    PROVE  Lists'
<1>1. At(t, "parent") /\ UNCHANGED <<memory, parent, first_child, next_sibling>>
    BY DEF ReleaseParent, structVars, listVars
<1>2. PICK f : f = [Top(t) EXCEPT !.at = "free"]
    OBVIOUS
<1>3. ~Idle(t) /\ Top(t) \in Frames /\ Top(t).at = "parent"
    BY <1>1, TopIsLive DEF Good, TreeInv, Places
<1>4. f \in Frames /\ f.pool = Top(t).pool /\ f.at = "free"
    BY <1>2, <1>3 DEF Frames, Places
<1>5. Continue(t, <<>>, f)
    BY <1>1, <1>2, ParentStays DEF ReleaseParent, DestroyAtZero
<1>6. f.at \in Standing <=> Top(t).at \in Standing
    BY <1>3, <1>4 DEF Standing
<1>7. \A a : Listed(a)' = Listed(a)
    BY <1>1, <1>3, <1>4, <1>5, <1>6, ListedReplaced
<1>8. calls'[t][1] = f /\ \A u \in Threads \ {t} : calls'[u] = calls[u]
    BY <1>3, <1>4, <1>5, TopReplaced DEF Good, TreeInv
<1>9. calls'[t][1].at \notin InList
    BY <1>4, <1>8 DEF InList
<1>10. QED
    BY <1>1, <1>7, <1>8, <1>9, QuietLists DEF TreeInv

(* The pools of L, numbered along the links from the first of them *)
Chain(L, first, next, s) ==
    /\ \A c \in L : \E k \in DOMAIN s : s[k] = c
    /\ \A j, k \in DOMAIN s : s[j] = s[k] => j = k
    /\ first = Nth(s, 1)
    /\ \A k \in DOMAIN s : next[s[k]] = Nth(s, k + 1)

LEMMA LinkedIsChain ==
    ASSUME NEW p, NEW s
    PROVE  Linked(p, s) <=> Chain(Listed(p), first_child[p], next_sibling, s)
BY DEF Linked, Chain

(* One pool more, at the front *)
LEMMA ChainPrepended ==
    ASSUME NEW L, IsFiniteSet(L), NEW c, c \notin L, NEW s \in [1..Cardinality(L) -> L],
           NEW first, NEW next, Chain(L, first, next, s), next[c] = first
    PROVE  \E z \in [1..Cardinality(L \cup {c}) -> L \cup {c}] : Chain(L \cup {c}, c, next, z)
<1> DEFINE n == Cardinality(L)
<1>1. n \in Nat /\ Cardinality(L \cup {c}) = n + 1
    BY FS_CardinalityType, FS_AddElement
<1>2. PICK z : z = [k \in 1..(n + 1) |-> IF k = 1 THEN c ELSE s[k - 1]]
    OBVIOUS
<1>3. DOMAIN s = 1..n /\ DOMAIN z = 1..(n + 1) /\ \A k \in 1..n : s[k] \in L
    BY <1>2
<1>4. z[1] = c /\ \A k \in 1..n : z[k + 1] = s[k] /\ k + 1 \in 1..(n + 1)
    BY <1>1, <1>2
<1>5. \A k \in 1..(n + 1) : k = 1 \/ (k - 1 \in 1..n /\ (k - 1) + 1 = k)
    BY <1>1
<1>6. \A k \in 1..(n + 1) : k # 1 => z[k] = s[k - 1] /\ z[k] # c
    BY <1>3, <1>4, <1>5
<1>7. z \in [1..(n + 1) -> L \cup {c}]
    <2>1. \A k \in 1..(n + 1) : z[k] \in L \cup {c}
        BY <1>3, <1>4, <1>5, <1>6
    <2>2. QED
        BY <1>2, <2>1
<1>8. \A d \in L \cup {c} : \E k \in DOMAIN z : z[k] = d
    <2>1. \A d \in L : \E k \in 1..n : s[k] = d
        BY <1>3 DEF Chain
    <2>2. 1 \in 1..(n + 1)
        BY <1>1
    <2>3. QED
        BY <1>3, <1>4, <2>1, <2>2
<1>9. ASSUME NEW j \in 1..(n + 1), NEW k \in 1..(n + 1), z[j] = z[k]
      PROVE  j = k
    <2>1. CASE j = 1 \/ k = 1
        BY <1>4, <1>6, <1>9, <2>1
    <2>2. CASE j # 1 /\ k # 1
        <3>1. j - 1 \in 1..n /\ k - 1 \in 1..n /\ s[j - 1] = s[k - 1]
            BY <1>5, <1>6, <1>9, <2>2
        <3>2. j - 1 = k - 1
            BY <1>3, <3>1 DEF Chain
        <3>3. QED
            BY <3>2
    <2>3. QED
        BY <2>1, <2>2
<1>10. ASSUME NEW k \in 1..n
       PROVE  Nth(s, k) = Nth(z, k + 1)
    BY <1>3, <1>4 DEF Nth
<1>11. Nth(s, n + 1) = Nth(z, n + 2)
    BY <1>1, <1>3 DEF Nth
<1>12. c = Nth(z, 1)
    BY <1>1, <1>3, <1>4 DEF Nth
<1>13. ASSUME NEW k \in 1..(n + 1)
       PROVE  next[z[k]] = Nth(z, k + 1)
    <2>1. CASE k = 1
        <3>1. next[z[k]] = Nth(s, 1)
            BY <1>4, <2>1 DEF Chain
        <3>2. n = 0 \/ 1 \in 1..n
            BY <1>1
        <3>3. QED
            BY <1>10, <1>11, <2>1, <3>1, <3>2
    <2>2. CASE k # 1
        <3>1. k - 1 \in 1..n /\ z[k] = s[k - 1] /\ (k - 1) + 1 = k
            BY <1>5, <1>6, <2>2
        <3>2. next[z[k]] = Nth(s, k)
            BY <1>3, <3>1 DEF Chain
        <3>3. k \in 1..n \/ k = n + 1
            BY <1>1
        <3>4. (n + 1) + 1 = n + 2
            BY <1>1
        <3>5. QED
            BY <1>10, <1>11, <3>2, <3>3, <3>4
    <2>3. QED
        BY <2>1, <2>2
<1>14. Chain(L \cup {c}, c, next, z)
    BY <1>3, <1>8, <1>9, <1>12, <1>13 DEF Chain
<1>15. QED
    BY <1>1, <1>7, <1>14

(* Past the pool at k: its neighbour before it, or the pool of the list, points to
   the one after it. *)
Skips(L, s, k, first, next, first2, next2) ==
    /\ k = 1 => first2 = Nth(s, 2) /\ \A d \in L : next2[d] = next[d]
    /\ k # 1 => /\ first2 = first /\ next2[s[k - 1]] = Nth(s, k + 1)
               /\ \A d \in L : d # s[k - 1] => next2[d] = next[d]

(* One less, out of any place *)
LEMMA ChainRemoved ==
    ASSUME NEW L, IsFiniteSet(L), NEW s \in [1..Cardinality(L) -> L],
           NEW first, NEW next, Chain(L, first, next, s), NEW k \in DOMAIN s,
           NEW first2, NEW next2, Skips(L, s, k, first, next, first2, next2)
    PROVE  \E z \in [1..Cardinality(L \ {s[k]}) -> L \ {s[k]}] : Chain(L \ {s[k]}, first2, next2, z)
<1> DEFINE n == Cardinality(L)
<1>0. /\ k = 1 => first2 = Nth(s, 2) /\ \A d \in L : next2[d] = next[d]
      /\ k # 1 => /\ first2 = first /\ next2[s[k - 1]] = Nth(s, k + 1)
                  /\ \A d \in L : d # s[k - 1] => next2[d] = next[d]
    BY DEF Skips
<1>1. k \in 1..n /\ n \in Nat /\ DOMAIN s = 1..n /\ \A i \in 1..n : s[i] \in L
    BY FS_CardinalityType
<1>2. Cardinality(L \ {s[k]}) = n - 1
    BY <1>1, FS_RemoveElement
<1>3. PICK z : z = [i \in 1..(n - 1) |-> IF i < k THEN s[i] ELSE s[i + 1]]
    OBVIOUS
<1>4. DOMAIN z = 1..(n - 1)
    BY <1>3
<1>5. ASSUME NEW i \in 1..(n - 1)
      PROVE  /\ i \in 1..n /\ i + 1 \in 1..n
             /\ i < k => z[i] = s[i]
             /\ i >= k => z[i] = s[i + 1]
    BY <1>1, <1>3
<1>6. ASSUME NEW i \in 1..n, i # k
      PROVE  \/ i < k /\ i \in 1..(n - 1) /\ z[i] = s[i]
             \/ i > k /\ i - 1 \in 1..(n - 1) /\ z[i - 1] = s[i]
    <2>1. CASE i < k
        BY <1>1, <1>5, <2>1
    <2>2. CASE i > k
        <3>1. i - 1 \in 1..(n - 1) /\ ~(i - 1 < k) /\ (i - 1) + 1 = i
            BY <1>1, <2>2
        <3>2. z[i - 1] = s[i]
            BY <1>3, <3>1
        <3>3. QED
            BY <2>2, <3>1, <3>2
    <2>3. QED
        BY <1>1, <1>6, <2>1, <2>2
<1>7. \A i, j \in 1..n : s[i] = s[j] => i = j
    BY <1>1 DEF Chain
<1>8. ASSUME NEW i \in 1..(n - 1)
      PROVE  z[i] \in L \ {s[k]}
    <2>1. CASE i < k
        BY <1>1, <1>5, <1>7, <2>1
    <2>2. CASE i >= k
        <3>1. i + 1 # k
            BY <1>1, <2>2
        <3>2. QED
            BY <1>1, <1>5, <1>7, <2>2, <3>1
    <2>3. QED
        BY <1>1, <2>1, <2>2
<1>9. z \in [1..(n - 1) -> L \ {s[k]}]
    BY <1>3, <1>8
<1>10. \A d \in L \ {s[k]} : \E i \in 1..(n - 1) : z[i] = d
    <2>1. SUFFICES ASSUME NEW d \in L \ {s[k]} PROVE \E i \in 1..(n - 1) : z[i] = d
        OBVIOUS
    <2>2. PICK i \in 1..n : s[i] = d
        BY <1>1 DEF Chain
    <2>3. i # k
        BY <2>2
    <2>4. QED
        BY <1>6, <2>2, <2>3
<1>11. ASSUME NEW i \in 1..(n - 1), NEW j \in 1..(n - 1), z[i] = z[j]
       PROVE  i = j
    <2>1. CASE i < k /\ j < k
        BY <1>5, <1>7, <1>11, <2>1
    <2>2. CASE i >= k /\ j >= k
        <3>1. i + 1 = j + 1
            BY <1>5, <1>7, <1>11, <2>2
        <3>2. QED
            BY <3>1
    <2>3. CASE i < k /\ j >= k
        <3>1. i = j + 1
            BY <1>5, <1>7, <1>11, <2>3
        <3>2. QED
            BY <1>1, <2>3, <3>1
    <2>4. CASE i >= k /\ j < k
        <3>1. i + 1 = j
            BY <1>5, <1>7, <1>11, <2>4
        <3>2. QED
            BY <1>1, <2>4, <3>1
    <2>5. QED
        BY <1>1, <2>1, <2>2, <2>3, <2>4
(* The place after i, in s and in z *)
<1>12. ASSUME NEW i \in Nat, i < k
       PROVE  i # 0 => Nth(z, i) = Nth(s, i)
    <2>1. SUFFICES ASSUME i # 0 PROVE Nth(z, i) = Nth(s, i)
        OBVIOUS
    <2>2. i \in 1..(n - 1) /\ i \in 1..n
        BY <1>1, <1>12, <2>1
    <2>3. QED
        BY <1>1, <1>4, <1>5, <1>12, <2>2 DEF Nth
<1>13. ASSUME NEW i \in Nat, i >= k
       PROVE  Nth(z, i) = Nth(s, i + 1)
    <2>1. CASE i <= n - 1
        <3>1. i \in 1..(n - 1) /\ i + 1 \in 1..n
            BY <1>1, <1>13, <2>1
        <3>2. QED
            BY <1>1, <1>4, <1>5, <1>13, <3>1 DEF Nth
    <2>2. CASE i > n - 1
        <3>1. i \notin 1..(n - 1) /\ i + 1 \notin 1..n
            BY <1>1, <2>2
        <3>2. QED
            BY <1>1, <1>4, <3>1 DEF Nth
    <2>3. QED
        BY <1>1, <2>1, <2>2
<1>14. first2 = Nth(z, 1)
    <2>1. CASE k = 1
        <3>1. Nth(z, 1) = Nth(s, 1 + 1)
            BY <1>13, <2>1
        <3>2. QED
            BY <1>0, <2>1, <3>1
    <2>2. CASE k # 1
        <3>1. 1 < k
            BY <1>1, <2>2
        <3>2. Nth(z, 1) = Nth(s, 1)
            BY <1>12, <3>1
        <3>3. QED
            BY <1>0, <2>2, <3>2 DEF Chain
    <2>3. QED
        BY <2>1, <2>2
<1>15. ASSUME NEW i \in 1..n
       PROVE  /\ next[s[i]] = Nth(s, i + 1)
              /\ (k = 1 \/ i # k - 1) => next2[s[i]] = Nth(s, i + 1)
    <2>1. next[s[i]] = Nth(s, i + 1) /\ s[i] \in L
        BY <1>1 DEF Chain
    <2>2. ASSUME k # 1, i # k - 1 PROVE s[i] # s[k - 1]
        <3>1. k - 1 \in 1..n
            BY <1>1, <2>2
        <3>2. QED
            BY <1>7, <2>2, <3>1
    <2>3. QED
        BY <1>0, <2>1, <2>2
<1>16. ASSUME NEW i \in 1..(n - 1)
       PROVE  next2[z[i]] = Nth(z, i + 1)
    <2>1. CASE i + 1 < k
        <3>1. i < k /\ i # k - 1 /\ i + 1 \in Nat /\ i + 1 # 0
            BY <1>1, <2>1
        <3>2. next2[z[i]] = Nth(s, i + 1)
            BY <1>5, <1>15, <3>1
        <3>3. QED
            BY <1>12, <2>1, <3>1, <3>2
    <2>2. CASE i + 1 = k
        <3>1. i < k /\ i = k - 1 /\ k # 1 /\ i + 1 \in Nat
            BY <1>1, <2>2
        <3>2. next2[z[i]] = Nth(s, k + 1)
            BY <1>0, <1>5, <3>1
        <3>3. Nth(z, i + 1) = Nth(s, (i + 1) + 1)
            BY <1>1, <1>13, <2>2, <3>1
        <3>4. QED
            BY <2>2, <3>2, <3>3
    <2>3. CASE i >= k
        <3>1. i + 1 \in 1..n /\ i + 1 # k - 1 /\ i + 1 \in Nat /\ i + 1 >= k
            BY <1>1, <2>3
        <3>2. next2[z[i]] = Nth(s, (i + 1) + 1)
            BY <1>5, <1>15, <2>3, <3>1
        <3>3. QED
            BY <1>13, <3>1, <3>2
    <2>4. QED
        BY <1>1, <2>1, <2>2, <2>3
<1>17. Chain(L \ {s[k]}, first2, next2, z)
    BY <1>4, <1>10, <1>11, <1>14, <1>16 DEF Chain
<1>18. QED
    BY <1>2, <1>9, <1>17

(* A pool without children has the list of no pools. *)
LEMMA EmptyList ==
    ASSUME NEW p, Listed(p)' = {}, first_child'[p] = NoPool
    PROVE  HasList(p)'
<1>1. Cardinality({}) = 0
    BY FS_EmptySet
<1>2. PICK s : s = [k \in 1..0 |-> k]
    OBVIOUS
<1>3. DOMAIN s = {} /\ s \in [1..0 -> {}] /\ 1 \notin DOMAIN s
    BY <1>2
<1>4. Orders(p)' = [1..0 -> {}]
    BY <1>1 DEF Orders
<1>5. Linked(p, s)'
    BY <1>3 DEF Linked, Nth
<1>6. QED
    BY <1>3, <1>4, <1>5 DEF HasList

(* A new pool is not in the list of its parent yet. *)
LEMMA CreatedLists ==
    ASSUME Good, Lists, TreeInv', NEW t \in Threads, Idle(t), NEW c \in Unused,
           NEW p \in AllPools \cup {NoPool}, p # NoPool => Live(p),
           memory' = [memory EXCEPT ![c] = "live"], parent' = [parent EXCEPT ![c] = p],
           UNCHANGED <<first_child, next_sibling>>,
           \A u \in Threads \ {t} : calls'[u] = calls[u],
           \A i \in 1..Len(calls'[t]) : calls'[t][i].pool = c /\ calls'[t][i].at = "first",
           p # NoPool => 1 \in 1..Len(calls'[t]),
           \A u \in Threads \ {t} : ~Idle(u) /\ Top(u).at \in InList => parent[Top(u).pool] # p
    PROVE  Lists'
<1>1. /\ c \in Pools /\ c \in AllPools /\ ~Live(c) /\ p # c /\ c # NoPool
      /\ first_child[c] = NoPool
      /\ \A q \in AllPools : c # parent[q]
    BY DEF Unused, Live, AllPools, Good, TreeInv, UnusedInv
<1>2. /\ \A q \in AllPools \ {c} : (Live(q)' <=> Live(q)) /\ parent'[q] = parent[q]
      /\ parent'[c] = p
    BY <1>1 DEF Good, TreeInv, TypeOK, Live
<1>3. Len(calls[t]) = 0 /\ 1..Len(calls[t]) = {}
    BY StackTyped DEF Good, TreeInv
<1>4. \A d : d # c => (Stands(d, Standing)' <=> Stands(d, Standing))
    <2>1. SUFFICES ASSUME NEW d, d # c PROVE Stands(d, Standing)' <=> Stands(d, Standing)
        OBVIOUS
    <2>2. \A u \in Threads : \A i \in 1..Len(calls'[u]) : calls'[u][i].pool = d =>
              \E k \in 1..Len(calls[u]) : calls'[u][i] = calls[u][k]
        BY <2>1
    <2>3. \A u \in Threads : \A i \in 1..Len(calls[u]) : calls[u][i].pool = d =>
              \E k \in 1..Len(calls'[u]) : calls'[u][k] = calls[u][i]
        BY <1>3
    <2>4. QED
        BY <2>2, <2>3, StandsKept
<1>5. ASSUME NEW a \in AllPools, Live(a)
      PROVE  ListSame(a)
    <2>1. a # c
        BY <1>1, <1>5
    <2>2. \A d \in Pools \ {c} : d \in Children(a)' <=> d \in Children(a)
        BY <1>2 DEF Children, AllPools
    <2>3. c \notin Listed(a)'
        <3>1. SUFFICES ASSUME c \in Children(a)', Stands(c, Standing)' PROVE FALSE
            BY DEF Listed, Standing
        <3>2. p = a /\ p # NoPool
            BY <1>2, <3>1 DEF Children, AllPools
        <3>3. calls'[t][1].at \in Standing
            BY <3>1, <3>2 DEF Stands
        <3>4. QED
            BY <3>2, <3>3 DEF Standing
    <2>4. c \notin Listed(a)
        BY <1>1 DEF Listed, Children
    <2>5. \A d \in Pools \ {c} : d \in Listed(a)' <=> d \in Listed(a)
        BY <1>4, <2>2 DEF Listed, Standing
    <2>6. Listed(a)' \subseteq Pools /\ Listed(a) \subseteq Pools
        BY DEF Listed, Children
    <2>7. \A d : d \in Listed(a)' <=> d \in Listed(a)
        BY <2>3, <2>4, <2>5, <2>6
    <2>8. QED
        BY <2>7 DEF ListSame
<1>6. ASSUME NEW a \in AllPools, Live(a)', ~Live(a)
      PROVE  HasList(a)'
    <2>1. a = c
        BY <1>2, <1>6
    <2>2. ASSUME NEW d \in Pools PROVE parent'[d] # c
        BY <1>1, <1>2 DEF AllPools
    <2>3. Listed(a)' = {}
        BY <2>1, <2>2 DEF Listed, Children
    <2>4. QED
        BY <1>1, <2>1, <2>3, EmptyList
<1>7. ASSUME NEW u \in Threads \ {t}, ~Idle(u), Top(u).at \in InList
      PROVE  /\ parent[Top(u).pool] # NoPool /\ memory'[parent[Top(u).pool]] = "live"
             /\ parent'[Top(u).pool] = parent[Top(u).pool]
             /\ next_sibling'[Top(u).pool] = next_sibling[Top(u).pool]
    <2>1. PICK d, up \in AllPools : /\ d = Top(u).pool /\ d \in AllPools /\ Live(d)
                                    /\ up = parent[d] /\ up # NoPool /\ Live(up)
        BY <1>7, InListIs
    <2>2. Live(up)' /\ parent'[d] = parent[d]
        BY <1>1, <1>2, <2>1
    <2>3. QED
        BY <2>1, <2>2 DEF Live
<1>8. \A f : ~Idle(t)' /\ f = Top(t)' => f.pool = c /\ f.at = "first"
    BY TopAfter DEF TreeInv
<1>9. \A f : f.at = "first" => ListStep(f)'
    BY DEF ListStep
<1>10. \A f : ~Idle(t)' /\ f = Top(t)' =>
          /\ ListStep(f)'
          /\ f.at \in InList => \A u \in Threads \ {t} :
                 ~Idle(u) /\ Top(u).at \in InList => parent'[f.pool] # parent[Top(u).pool]
    BY <1>2, <1>8, <1>9
<1>11. PICK P : P = NoPool
    OBVIOUS
<1>12. \A a \in AllPools : Live(a) /\ Live(a)' /\ a # P => ListSame(a)
    BY <1>5
<1>13. \A a \in AllPools : Live(a)' /\ (a = P \/ ~Live(a)) => HasList(a)'
    BY <1>6, <1>11 DEF AllPools
<1>14. \A u \in Threads \ {t} : ~Idle(u) /\ Top(u).at \in InList =>
           /\ parent[Top(u).pool] # P /\ memory'[parent[Top(u).pool]] = "live"
           /\ parent'[Top(u).pool] = parent[Top(u).pool]
           /\ next_sibling'[Top(u).pool] = next_sibling[Top(u).pool]
    BY <1>7, <1>11
<1>15. \A u \in Threads \ {t} : calls'[u] = calls[u]
    OBVIOUS
<1>16. Good /\ Lists /\ t \in Threads
    OBVIOUS
<1>17. QED
    BY ONLY <1>10, <1>12, <1>13, <1>14, <1>15, <1>16, ListsStep

LEMMA CreateLists ==
    ASSUME Good, Lists, TreeInv', ~overlapped', NEW t \in Threads, NEW p \in AllPools, Create(t, p)
    PROVE  Lists'
<1>1. PICK c \in Unused : c = NewPool
    BY NewPoolIsUnused DEF Create, Unused
<1>2. /\ Idle(t) /\ Live(p)
      /\ memory' = [memory EXCEPT ![c] = "live"] /\ parent' = [parent EXCEPT ![c] = p]
      /\ UNCHANGED <<first_child, next_sibling>>
      /\ calls' = [calls EXCEPT ![t] = <<Frame(c, "first")>>]
      /\ \A u \in Threads \ {t} : ~Idle(u) /\ Top(u).at \in InList => parent[Top(u).pool] # p
    BY <1>1 DEF Create, Allocates, Uses, listVars, EnterList
<1>3. PICK f \in Frames : f = Frame(c, "first")
    BY FrameIsFrame DEF Good, TreeInv, Places, Unused, AllPools
<1>4. f.pool = c /\ f.at = "first"
    BY <1>3 DEF Frame
<1>5. Len(calls'[t]) = 1 /\ calls'[t][1] = f /\ \A u \in Threads \ {t} : calls'[u] = calls[u]
    BY <1>2, <1>3, CallBegins DEF Good, TreeInv
<1>6. 1 \in 1..Len(calls'[t]) /\ \A i \in 1..Len(calls'[t]) : calls'[t][i].pool = c /\ calls'[t][i].at = "first"
    BY <1>4, <1>5
<1>7. p \in AllPools \cup {NoPool}
    OBVIOUS
<1>8. QED
    BY <1>2, <1>5, <1>6, <1>7, CreatedLists

LEMMA CreateThreadLists ==
    ASSUME Good, Lists, TreeInv', NEW t \in Threads, CreateThread(t)
    PROVE  Lists'
<1>1. PICK c \in Unused : c = NewPool
    BY NewPoolIsUnused DEF CreateThread, Unused
<1>2. /\ Idle(t) /\ memory' = [memory EXCEPT ![c] = "live"]
      /\ UNCHANGED <<parent, first_child, next_sibling, calls>>
    BY <1>1 DEF CreateThread, Allocates, listVars
<1>3. parent' = [parent EXCEPT ![c] = NoPool]
    BY <1>2, UnusedIs DEF Good, TreeInv, TypeOK
<1>4. \A i \in 1..Len(calls'[t]) : FALSE
    BY <1>2, StackTyped DEF Good, TreeInv
<1>5. \A u \in Threads \ {t} : ~Idle(u) /\ Top(u).at \in InList => parent[Top(u).pool] # NoPool
    BY InListIs
<1>6. NoPool \in AllPools \cup {NoPool} /\ \A u \in Threads \ {t} : calls'[u] = calls[u]
    BY <1>2
<1>7. QED
    BY <1>2, <1>3, <1>4, <1>5, <1>6, CreatedLists

(* A thread has worked in the list of up, and on no other. *)
LEMMA ListWorked ==
    ASSUME Good, Lists, TypeOK', UNCHANGED <<memory, parent>>,
           NEW t \in Threads, ~Idle(t), Top(t).at \in InList,
           \A u \in Threads \ {t} : calls'[u] = calls[u],
           NEW up \in AllPools, up = parent[Top(t).pool],
           \A a \in AllPools : Live(a) /\ a # up => ListSame(a),
           HasList(up)',
           \A d \in Pools : d # Top(t).pool /\ parent[d] # up => next_sibling'[d] = next_sibling[d],
           \A f : Len(calls'[t]) # 0 /\ f = calls'[t][1] =>
               ListStep(f)' /\ (f.at \in InList => f.pool = Top(t).pool)
    PROVE  Lists'
<1>1. \A u \in Threads \ {t} : ~Idle(u) /\ Top(u).at \in InList => parent[Top(u).pool] # up
    BY DEF Lists
<1>2. ASSUME NEW u \in Threads \ {t}, ~Idle(u), Top(u).at \in InList
      PROVE  /\ parent[Top(u).pool] # up /\ memory'[parent[Top(u).pool]] = "live"
             /\ parent'[Top(u).pool] = parent[Top(u).pool]
             /\ next_sibling'[Top(u).pool] = next_sibling[Top(u).pool]
    <2>1. Top(u).pool \in Pools /\ Live(parent[Top(u).pool]) /\ Top(u).pool \in AtWork(u)
        BY <1>2, InListIs
    <2>2. Top(t).pool \in AtWork(t)
        BY InListIs
    <2>3. Top(u).pool # Top(t).pool
        BY <2>1, <2>2, GoodAtWork
    <2>4. QED
        BY <1>1, <1>2, <2>1, <2>3 DEF Live
<1>3. \A f : ~Idle(t)' /\ f = Top(t)' =>
          /\ ListStep(f)'
          /\ f.at \in InList => \A u \in Threads \ {t} :
                 ~Idle(u) /\ Top(u).at \in InList => parent'[f.pool] # parent[Top(u).pool]
    <2>1. \A f : ~Idle(t)' /\ f = Top(t)' => Len(calls'[t]) # 0 /\ f = calls'[t][1]
        BY TopAfter
    <2>2. QED
        BY <1>1, <2>1
<1>4. /\ \A a \in AllPools : Live(a) /\ Live(a)' /\ a # up => ListSame(a)
      /\ \A a \in AllPools : Live(a)' /\ (a = up \/ ~Live(a)) => HasList(a)'
    BY DEF Live
<1>5. QED
    BY <1>2, <1>3, <1>4, ListsStep

LEMMA ListedMembers ==
    ASSUME NEW p
    PROVE  /\ Listed(p) \subseteq Pools /\ IsFiniteSet(Listed(p))
           /\ \A c \in Listed(p) : Live(c) /\ parent[c] = p
           /\ Cardinality(Listed(p)) \in Nat
           /\ \A s \in Orders(p) : /\ DOMAIN s = 1..Cardinality(Listed(p))
                                   /\ \A k \in DOMAIN s : s[k] \in Listed(p)
<1>1. Listed(p) \subseteq Pools
    BY DEF Listed, Children
<1>2. IsFiniteSet(Listed(p))
    BY <1>1, FS_Subset
<1>3. QED
    BY <1>1, <1>2, FS_CardinalityType DEF Listed, Children, Orders

LEMMA AddChildLists ==
    ASSUME Good, Lists, TreeInv', NEW t \in Threads, AddChild(t)
    PROVE  Lists'
<1>1. At(t, "first") /\ UNCHANGED <<memory, parent, first_child>>
    BY DEF AddChild, structVars
<1>2. ~Idle(t) /\ Top(t) \in Frames /\ Top(t).at = "first"
    BY <1>1, TopIsLive DEF Good, TreeInv, Places
<1>3. PICK c, up \in AllPools : /\ c = Top(t).pool /\ c \in Pools /\ up = parent[c] /\ Live(up)
    BY <1>2, InListIs DEF InList
<1>4. next_sibling' = [next_sibling EXCEPT ![c] = first_child[up]]
    BY <1>3 DEF AddChild
<1>5. \A d \in AllPools : d # c => next_sibling'[d] = next_sibling[d]
    BY <1>4 DEF Good, TreeInv, TypeOK
<1>6. next_sibling'[c] = first_child[up]
    BY <1>3, <1>4 DEF Good, TreeInv, TypeOK, AllPools
<1>7. PICK f : f = [Top(t) EXCEPT !.at = "link"]
    OBVIOUS
<1>8. f \in Frames /\ f.pool = c /\ f.at = "link" /\ Continue(t, <<>>, f)
    BY <1>2, <1>3, <1>7 DEF Frames, Places, AddChild
<1>9. \A a : Listed(a)' = Listed(a)
    <2>1. f.at \in Standing <=> Top(t).at \in Standing
        BY <1>2, <1>8 DEF Standing
    <2>2. QED
        BY <1>1, <1>2, <1>3, <1>8, <2>1, ListedReplaced
<1>10. \A a : c \notin Listed(a)
    <2>1. ~Stands(c, Standing)
        BY <1>2, <1>3, TopStands DEF Standing
    <2>2. QED
        BY <2>1 DEF Listed, Standing
<1>11. \A a \in AllPools : ListSame(a)
    <2>1. \A a : \A d \in Listed(a) : d \in AllPools /\ d # c
        BY <1>10, ListedMembers DEF AllPools
    <2>2. QED
        BY <1>1, <1>5, <1>9, <2>1 DEF ListSame
<1>12. HasList(up)'
    BY <1>3, <1>11, HasListKept DEF ListSame, Lists
<1>13. /\ Len(calls'[t]) # 0 => calls'[t][1] = f
       /\ \A u \in Threads \ {t} : calls'[u] = calls[u]
    BY <1>2, <1>8, TopReplaced DEF Good, TreeInv
<1>14. ListStep(f)'
    BY <1>1, <1>3, <1>6, <1>8 DEF ListStep
<1>15. QED
    <2>1. Top(t).at \in InList
        BY <1>2 DEF InList
    <2>2. \A d \in Pools : d # Top(t).pool => next_sibling'[d] = next_sibling[d]
        BY <1>3, <1>5 DEF AllPools
    <2>3. TypeOK'
        BY DEF TreeInv
    <2>4. QED
        BY <1>1, <1>2, <1>3, <1>8, <1>11, <1>12, <1>13, <1>14, <2>1, <2>2, <2>3, ListWorked

(* The child is now the first of the list. *)
LEMMA LinkChildLists ==
    ASSUME Good, Lists, TreeInv', NEW t \in Threads, LinkChild(t)
    PROVE  Lists'
<1>1. At(t, "link") /\ UNCHANGED <<memory, parent, next_sibling>> /\ Return(t)
    BY DEF LinkChild, structVars
<1>2. ~Idle(t) /\ Top(t) \in Frames /\ Top(t).at = "link"
    BY <1>1, TopIsLive DEF Good, TreeInv, Places
<1>3. PICK c, up \in AllPools : /\ c = Top(t).pool /\ c \in Pools /\ up = parent[c] /\ Live(up) /\ Live(c)
                                /\ c \in Children(up) /\ c \in AtWork(t)
                                /\ Top(t) = calls[t][1] /\ 1 \in 1..Len(calls[t])
    BY <1>2, InListIs DEF InList
<1>4. first_child' = [first_child EXCEPT ![up] = c]
    BY <1>3 DEF LinkChild
<1>5. (\A a \in AllPools : a # up => first_child'[a] = first_child[a]) /\ first_child'[up] = c
    BY <1>4 DEF Good, TreeInv, TypeOK
<1>6. Len(calls[t]) = 1
    <2>1. Creates(t, Top(t))
        BY <1>2, <1>3, GoodFrame
    <2>2. QED
        BY <2>1 DEF Creates
<1>7. Len(calls'[t]) = 0 /\ \A u \in Threads \ {t} : calls'[u] = calls[u]
    BY <1>1, <1>2, <1>6, TopReturns DEF Good, TreeInv
<1>8. 1..Len(calls'[t]) = {} /\ \A i \in 1..Len(calls[t]) : calls[t][i].pool = c
    BY <1>3, <1>6, <1>7
<1>9. Stands(c, Standing)'
    <2>1. \A u \in Threads \ {t} : c \notin AtWork(u)
        BY <1>3, GoodAtWork
    <2>2. \A u \in Threads \ {t} : \A i \in 1..Len(calls[u]) : calls[u][i].pool # c
        BY <2>1 DEF AtWork
    <2>3. QED
        BY <1>7, <1>8, <2>2 DEF Stands
<1>10. ASSUME NEW d, d # c
       PROVE  Stands(d, Standing)' <=> Stands(d, Standing)
    <2>1. \A u \in Threads : \A i \in 1..Len(calls'[u]) : calls'[u][i].pool = d =>
              \E k \in 1..Len(calls[u]) : calls'[u][i] = calls[u][k]
        BY <1>7, <1>8
    <2>2. \A u \in Threads : \A i \in 1..Len(calls[u]) : calls[u][i].pool = d =>
              \E k \in 1..Len(calls'[u]) : calls'[u][k] = calls[u][i]
        BY <1>7, <1>8, <1>10
    <2>3. QED
        BY <2>1, <2>2, StandsKept
<1>11. \A a : Children(a)' = Children(a)
    BY <1>1 DEF Live, Children
<1>12. ~Stands(c, Standing)
    BY <1>2, <1>3, TopStands DEF Standing
<1>13. Listed(up)' = Listed(up) \cup {c} /\ c \notin Listed(up)
    BY <1>3, <1>9, <1>10, <1>11, <1>12 DEF Listed, Standing
<1>14. \A a : a # up => Listed(a)' = Listed(a)
    <2>1. SUFFICES ASSUME NEW a, a # up PROVE Listed(a)' = Listed(a)
        OBVIOUS
    <2>2. c \notin Children(a)
        BY <1>3, <2>1 DEF Children
    <2>3. QED
        BY <1>10, <1>11, <2>2 DEF Listed, Standing
<1>15. \A a \in AllPools : Live(a) /\ a # up => ListSame(a)
    BY <1>1, <1>5, <1>14 DEF ListSame
<1>16. HasList(up)'
    <2>1. PICK s \in Orders(up) : Linked(up, s)
        BY <1>3 DEF Lists, HasList
    <2>2. Chain(Listed(up), first_child[up], next_sibling, s)
        BY <2>1, LinkedIsChain
    <2>3. next_sibling[c] = first_child[up]
        BY <1>2, <1>3 DEF Lists, ListStep
    <2>4. IsFiniteSet(Listed(up)) /\ s \in [1..Cardinality(Listed(up)) -> Listed(up)]
        BY <2>1, ListedMembers DEF Orders
    <2>5. PICK L : L = Listed(up)
        OBVIOUS
    <2>6. PICK z \in [1..Cardinality(L \cup {c}) -> L \cup {c}] : Chain(L \cup {c}, c, next_sibling, z)
        BY <1>13, <2>2, <2>3, <2>4, <2>5, ChainPrepended
    <2>7. Listed(up)' = L \cup {c}
        BY <1>13, <2>5
    <2>8. z \in Orders(up)' /\ Linked(up, z)'
        BY <1>1, <1>5, <2>6, <2>7 DEF Orders, Linked, Chain
    <2>9. QED
        BY <2>8 DEF HasList
<1>17. QED
    <2>1. Top(t).at \in InList
        BY <1>2 DEF InList
    <2>2. TypeOK'
        BY DEF TreeInv
    <2>3. QED
        BY <1>1, <1>2, <1>3, <1>7, <1>15, <1>16, <2>1, <2>2, ListWorked

(* A thread goes on with a frame that is at the same pool, and nothing is written. *)
LEMMA ListRead ==
    ASSUME Good, Lists, UNCHANGED <<memory, parent, first_child, next_sibling>>,
           NEW t \in Threads, ~Idle(t), NEW f \in Frames, Continue(t, <<>>, f), f.pool = Top(t).pool,
           f.at \in Standing <=> Top(t).at \in Standing
    PROVE  /\ \A a \in AllPools : ListSame(a)
           /\ \A a \in AllPools : Orders(a)' = Orders(a)
           /\ \A a \in AllPools : \A s \in Orders(a) : Linked(a, s)' <=> Linked(a, s)
           /\ \A a \in AllPools : Live(a) => HasList(a)'
           /\ Len(calls'[t]) # 0 => calls'[t][1] = f
           /\ \A u \in Threads \ {t} : calls'[u] = calls[u]
<1>1. \A a : Listed(a)' = Listed(a)
    BY ListedReplaced
<1>2. \A a \in AllPools : ListSame(a)
    BY <1>1 DEF ListSame
<1>3. ASSUME NEW a \in AllPools
      PROVE  Orders(a)' = Orders(a) /\ \A s \in Orders(a) : Linked(a, s)' <=> Linked(a, s)
    BY <1>2, LinkedKept DEF ListSame
<1>4. \A a \in AllPools : Live(a) => HasList(a)'
    BY <1>2, HasListKept DEF ListSame, Lists
<1>5. /\ Len(calls'[t]) # 0 => calls'[t][1] = f
      /\ \A u \in Threads \ {t} : calls'[u] = calls[u]
    BY TopReplaced DEF Good, TreeInv
<1>6. QED
    BY <1>2, <1>3, <1>4, <1>5

LEMMA SearchLists ==
    ASSUME Good, Lists, TreeInv', NEW t \in Threads, Search(t)
    PROVE  Lists'
<1>1. At(t, "search") /\ UNCHANGED <<memory, parent, first_child, next_sibling>>
    BY DEF Search, structVars, listVars
<1>2. ~Idle(t) /\ Top(t) \in Frames /\ Top(t).at = "search"
    BY <1>1, TopIsLive DEF Good, TreeInv, Places
<1>3. PICK c, up \in AllPools : /\ c = Top(t).pool /\ c \in Pools /\ up = parent[c] /\ Live(up)
                                /\ c \in Children(up)
    BY <1>2, InListIs DEF InList
<1>4. PICK s \in Orders(up) : Linked(up, s) /\ \E k \in DOMAIN s : Searching(Top(t), s, k)
    BY <1>2, <1>3 DEF Lists, ListStep
<1>5. PICK k \in DOMAIN s : Searching(Top(t), s, k)
    BY <1>4
<1>6. /\ DOMAIN s = 1..Cardinality(Listed(up)) /\ Cardinality(Listed(up)) \in Nat
      /\ s[k] \in Listed(up) /\ s[k] \in Pools
    BY <1>5, ListedMembers
<1>7. next_sibling[s[k]] = Nth(s, k + 1)
    BY <1>4 DEF Linked
<1>8. next_sibling[s[k]] \in Pools \cup {NoPool}
    BY <1>6 DEF Good, TreeInv, TypeOK, AllPools
<1>9. Top(t).sibling = s[k] /\ Top(t).prev = Nth(s, k - 1)
      /\ \A i \in DOMAIN s : i < k => s[i] # c
    BY <1>3, <1>5 DEF Searching
<1>10. c \in Listed(up)
    BY <1>2, <1>3, TopStands DEF Listed, Standing
<1>11. \E f \in Frames :
           /\ f.pool = c /\ Continue(t, <<>>, f)
           /\ \/ s[k] = c /\ f.at = "unlink" /\ f.prev = Nth(s, k - 1) /\ f.sibling = Nth(s, k + 1)
              \/ s[k] # c /\ f.at = "search" /\ f.prev = s[k] /\ f.sibling = Nth(s, k + 1)
    <2>1. CASE s[k] = c
        <3>1. PICK f : f = [Top(t) EXCEPT !.at = "unlink", !.sibling = next_sibling[c]]
            OBVIOUS
        <3>2. f \in Frames /\ f.pool = c /\ f.at = "unlink" /\ f.prev = Top(t).prev /\ f.sibling = next_sibling[c]
            BY <1>2, <1>3, <1>8, <2>1, <3>1 DEF Frames, Places
        <3>3. Continue(t, <<>>, f)
            BY <1>3, <1>9, <2>1, <3>1 DEF Search
        <3>4. QED
            BY <1>7, <1>9, <2>1, <3>2, <3>3
    <2>2. CASE s[k] # c
        <3>1. PICK f : f = [Top(t) EXCEPT !.prev = s[k], !.sibling = next_sibling[s[k]]]
            OBVIOUS
        <3>2. f \in Frames /\ f.pool = c /\ f.at = "search" /\ f.prev = s[k] /\ f.sibling = next_sibling[s[k]]
            BY <1>2, <1>3, <1>6, <1>8, <3>1 DEF Frames
        <3>3. Continue(t, <<>>, f)
            BY <1>3, <1>9, <2>2, <3>1 DEF Search
        <3>4. QED
            BY <1>7, <2>2, <3>2, <3>3
    <2>3. QED
        BY <2>1, <2>2
<1>12. PICK f \in Frames :
           /\ f.pool = c /\ Continue(t, <<>>, f)
           /\ \/ s[k] = c /\ f.at = "unlink" /\ f.prev = Nth(s, k - 1) /\ f.sibling = Nth(s, k + 1)
              \/ s[k] # c /\ f.at = "search" /\ f.prev = s[k] /\ f.sibling = Nth(s, k + 1)
    BY <1>11
<1>13. f.at \in Standing <=> Top(t).at \in Standing
    BY <1>2, <1>12 DEF Standing
<1>14. /\ \A a \in AllPools : ListSame(a)
       /\ \A a \in AllPools : Orders(a)' = Orders(a)
       /\ \A a \in AllPools : \A z \in Orders(a) : Linked(a, z)' <=> Linked(a, z)
       /\ \A a \in AllPools : Live(a) => HasList(a)'
       /\ Len(calls'[t]) # 0 => calls'[t][1] = f
       /\ \A u \in Threads \ {t} : calls'[u] = calls[u]
    BY <1>1, <1>2, <1>3, <1>12, <1>13, ListRead
<1>15. s \in Orders(up)' /\ Linked(up, s)' /\ parent'[f.pool] = up
    BY <1>1, <1>3, <1>4, <1>12, <1>14
<1>16. ListStep(f)'
    <2>1. CASE s[k] = c
        <3>1. f.at = "unlink" /\ s[k] = f.pool /\ f.prev = Nth(s, k - 1) /\ f.sibling = Nth(s, k + 1)
            BY <1>12, <2>1
        <3>2. QED
            BY <1>15, <3>1 DEF ListStep
    <2>2. CASE s[k] # c
        <3>1. f.at = "search" /\ f.prev = s[k] /\ f.sibling = Nth(s, k + 1)
            BY <1>12, <2>2
        <3>2. PICK j \in DOMAIN s : s[j] = c
            BY <1>4, <1>10 DEF Linked
        <3>3. ~(j < k) /\ j # k
            BY <1>9, <2>2, <3>2
        <3>4. k + 1 \in DOMAIN s /\ (k + 1) - 1 = k /\ \A i \in DOMAIN s : i < k + 1 => i < k \/ i = k
            BY <1>6, <3>3
        <3>5. Nth(s, k + 1) = s[k + 1] /\ Nth(s, (k + 1) - 1) = s[k]
            BY <3>4 DEF Nth
        <3>6. \A i \in DOMAIN s : i < k + 1 => s[i] # f.pool
            BY <1>9, <1>12, <2>2, <3>4
        <3>7. Searching(f, s, k + 1)
            BY <3>1, <3>4, <3>5, <3>6 DEF Searching
        <3>8. QED
            BY <1>15, <3>1, <3>4, <3>7 DEF ListStep, Searching, Nth
    <2>3. QED
        BY <2>1, <2>2
<1>17. QED
    <2>1. Top(t).at \in InList /\ TypeOK'
        BY <1>2 DEF InList, TreeInv
    <2>2. HasList(up)'
        BY <1>3, <1>14
    <2>3. QED
        BY <1>1, <1>2, <1>3, <1>12, <1>14, <1>16, <2>1, <2>2, ListWorked

LEMMA UnlinkLists ==
    ASSUME Good, Lists, TreeInv', NEW t \in Threads, Unlink(t)
    PROVE  Lists'
<1>1. At(t, "unlink") /\ UNCHANGED <<memory, parent>>
    BY DEF Unlink, structVars
<1>2. ~Idle(t) /\ Top(t) \in Frames /\ Top(t).at = "unlink"
    BY <1>1, TopIsLive DEF Good, TreeInv, Places
<1>3. PICK c, up \in AllPools : /\ c = Top(t).pool /\ c \in Pools /\ up = parent[c] /\ Live(up)
                                /\ c \in Children(up)
    BY <1>2, InListIs DEF InList
<1>4. PICK s \in Orders(up) : Linked(up, s) /\ \E k \in DOMAIN s :
          s[k] = c /\ Top(t).prev = Nth(s, k - 1) /\ Top(t).sibling = Nth(s, k + 1)
    BY <1>2, <1>3 DEF Lists, ListStep
<1>5. PICK k \in DOMAIN s : s[k] = c /\ Top(t).prev = Nth(s, k - 1) /\ Top(t).sibling = Nth(s, k + 1)
    BY <1>4
<1>6. /\ DOMAIN s = 1..Cardinality(Listed(up)) /\ Cardinality(Listed(up)) \in Nat
      /\ \A i \in DOMAIN s : s[i] \in Listed(up) /\ s[i] \in Pools /\ parent[s[i]] = up
    BY ListedMembers
<1>7. ASSUME k # 1
      PROVE  /\ k - 1 \in DOMAIN s /\ first_child' = first_child
             /\ next_sibling'[s[k - 1]] = Nth(s, k + 1)
             /\ \A d \in Pools : d # s[k - 1] => next_sibling'[d] = next_sibling[d]
    <2>1. k - 1 \in DOMAIN s
        BY <1>6, <1>7
    <2>2. Top(t).prev = s[k - 1] /\ s[k - 1] \in Pools
        BY <1>5, <1>6, <2>1 DEF Nth
    <2>3. next_sibling' = [next_sibling EXCEPT ![s[k - 1]] = Top(t).sibling] /\ first_child' = first_child
        BY <2>2 DEF Unlink
    <2>4. QED
        BY <1>5, <2>1, <2>2, <2>3 DEF Good, TreeInv, TypeOK, AllPools
<1>8. k = 1 => /\ next_sibling' = next_sibling /\ first_child'[up] = Nth(s, 2)
               /\ \A a \in AllPools : a # up => first_child'[a] = first_child[a]
    <2>1. SUFFICES ASSUME k = 1
                   PROVE  /\ next_sibling' = next_sibling /\ first_child'[up] = Nth(s, 2)
                          /\ \A a \in AllPools : a # up => first_child'[a] = first_child[a]
        OBVIOUS
    <2>2. 0 \notin DOMAIN s /\ k - 1 = 0 /\ k + 1 = 2
        BY <1>6, <2>1
    <2>3. Top(t).prev = NoPool
        BY <1>5, <2>2 DEF Nth
    <2>4. first_child' = [first_child EXCEPT ![up] = Top(t).sibling] /\ next_sibling' = next_sibling
        BY <1>3, <2>3 DEF Unlink
    <2>5. QED
        BY <1>5, <2>2, <2>4 DEF Good, TreeInv, TypeOK
<1>9. PICK f : f = [Top(t) EXCEPT !.at = "parent", !.prev = NoPool, !.sibling = NoPool]
    OBVIOUS
<1>10. f \in Frames /\ f.pool = c /\ f.at = "parent" /\ Continue(t, <<>>, f)
    BY <1>2, <1>3, <1>9 DEF Frames, Places, Unlink
<1>11. /\ \A d : d # c => (Stands(d, Standing)' <=> Stands(d, Standing))
       /\ ~Stands(c, Standing)' /\ Stands(c, Standing)
    BY <1>2, <1>3, <1>10, StandsReplaced DEF Standing
<1>12. \A a : Children(a)' = Children(a)
    BY <1>1 DEF Live, Children
<1>13. Listed(up)' = Listed(up) \ {c} /\ \A a : a # up => Listed(a)' = Listed(a)
    <2>1. Listed(up)' = Listed(up) \ {c}
        BY <1>3, <1>11, <1>12 DEF Listed, Standing
    <2>2. \A a : a # up => c \notin Children(a)
        BY <1>3 DEF Children
    <2>3. QED
        BY <1>11, <1>12, <2>1, <2>2 DEF Listed, Standing
<1>14. \A d \in Pools : parent[d] # up => next_sibling'[d] = next_sibling[d]
    BY <1>6, <1>7, <1>8
<1>15. \A a \in AllPools : Live(a) /\ a # up => ListSame(a)
    <2>1. \A a \in AllPools : a # up => first_child'[a] = first_child[a]
        BY <1>7, <1>8
    <2>2. \A a \in AllPools : a # up => \A d \in Listed(a) : next_sibling'[d] = next_sibling[d]
        BY <1>14, ListedMembers
    <2>3. QED
        BY <1>13, <2>1, <2>2 DEF ListSame
<1>16. HasList(up)'
    <2>1. PICK L : L = Listed(up)
        OBVIOUS
    <2>2. /\ IsFiniteSet(L) /\ s \in [1..Cardinality(L) -> L]
          /\ Chain(L, first_child[up], next_sibling, s)
        BY <1>4, <2>1, ListedMembers, LinkedIsChain DEF Orders
    <2>3. L \subseteq Pools
        BY <2>1, ListedMembers
    <2>4. Skips(L, s, k, first_child[up], next_sibling, first_child'[up], next_sibling')
        BY <1>7, <1>8, <2>3 DEF Skips
    <2>5. PICK first, next, first2, next2 :
              /\ first = first_child[up] /\ next = next_sibling
              /\ first2 = first_child'[up] /\ next2 = next_sibling'
        OBVIOUS
    <2>6. PICK z \in [1..Cardinality(L \ {s[k]}) -> L \ {s[k]}] : Chain(L \ {s[k]}, first2, next2, z)
        <3>1. Chain(L, first, next, s) /\ Skips(L, s, k, first, next, first2, next2)
            BY <2>2, <2>4, <2>5
        <3>2. k \in DOMAIN s /\ IsFiniteSet(L) /\ s \in [1..Cardinality(L) -> L]
            BY <2>2
        <3>3. QED
            BY ONLY <3>1, <3>2, ChainRemoved
    <2>7. Listed(up)' = L \ {s[k]}
        BY <1>5, <1>13, <2>1
    <2>8. z \in Orders(up)' /\ Linked(up, z)'
        BY <2>5, <2>6, <2>7 DEF Orders, Linked, Chain
    <2>9. QED
        BY <2>8 DEF HasList
<1>17. QED
    <2>1. Top(t).at \in InList /\ TypeOK'
        BY <1>2 DEF InList, TreeInv
    <2>2. /\ Len(calls'[t]) # 0 => calls'[t][1] = f
          /\ \A u \in Threads \ {t} : calls'[u] = calls[u]
        BY <1>2, <1>10, TopReplaced DEF Good, TreeInv
    <2>3. ListStep(f)' /\ f.at \notin InList
        BY <1>10 DEF ListStep, InList
    <2>4. QED
        BY <1>1, <1>2, <1>3, <1>14, <1>15, <1>16, <2>1, <2>2, <2>3, ListWorked

(* A frame that begins to destroy has not looked for its pool yet. *)
Fresh == \A t \in Threads : \A i \in 1..Len(calls[t]) :
    calls[t][i].at = "destroy" => calls[t][i].prev = NoPool

LEMMA ChildrenGoneLists ==
    ASSUME Good, Lists, Fresh, TreeInv', ~overlapped', NEW t \in Threads, ChildrenGone(t)
    PROVE  Lists'
<1>1. At(t, "destroy") /\ UNCHANGED <<memory, parent, first_child, next_sibling>>
    BY DEF ChildrenGone, InChildren, structVars, listVars
<1>2. /\ ~Idle(t) /\ Top(t) \in Frames /\ Top(t).at = "destroy"
      /\ Top(t) = calls[t][1] /\ 1 \in 1..Len(calls[t])
    BY <1>1, TopIsLive, StackTyped DEF Good, TreeInv, Places
<1>3. PICK c, up : c = Top(t).pool /\ up = parent[c]
    OBVIOUS
<1>4. c \in Pools /\ Live(c) /\ up \in AllPools \cup {NoPool}
    BY <1>2, <1>3, GoodFrame DEF Good, TreeInv, TypeOK, AllPools
<1>5. CASE up = NoPool
    <2>1. PICK f : f = [Top(t) EXCEPT !.at = "free"]
        OBVIOUS
    <2>2. f \in Frames /\ f.pool = c /\ f.at = "free" /\ Continue(t, <<>>, f)
        BY <1>2, <1>3, <1>5, <2>1 DEF Frames, Places, ChildrenGone
    <2>3. \A d : d # c => (Stands(d, Standing)' <=> Stands(d, Standing))
        BY <1>2, <1>3, <2>2, StandsReplaced
    <2>4. ASSUME NEW a \in AllPools
          PROVE  Listed(a)' = Listed(a)
        <3>1. Children(a)' = Children(a) /\ c \notin Children(a)
            BY <1>1, <1>3, <1>5 DEF Live, Children, AllPools
        <3>2. QED
            BY <2>3, <3>1 DEF Listed, Standing
    <2>5. calls'[t][1] = f /\ \A u \in Threads \ {t} : calls'[u] = calls[u]
        BY <1>2, <2>2, TopReplaced DEF Good, TreeInv
    <2>6. calls'[t][1].at \notin InList
        BY <2>2, <2>5 DEF InList
    <2>7. QED
        BY <1>1, <2>4, <2>5, <2>6, QuietLists DEF TreeInv
<1>6. CASE up # NoPool
    <2>1. up \in AllPools /\ Live(up) /\ c \in Children(up)
        BY <1>3, <1>4, <1>6 DEF Good, TreeInv, LineageInv, Children
    <2>2. first_child[up] \in Pools \cup {NoPool}
        BY <2>1 DEF Good, TreeInv, TypeOK
    <2>3. PICK f : f = [Top(t) EXCEPT !.at = "search", !.sibling = first_child[up]]
        OBVIOUS
    <2>4. f \in Frames /\ f.pool = c /\ f.at = "search" /\ f.prev = Top(t).prev /\ f.sibling = first_child[up]
        BY <1>2, <1>3, <2>2, <2>3 DEF Frames, Places
    <2>5. Continue(t, <<>>, f) /\ EnterList(t, up)
        BY <1>3, <1>6, <2>3 DEF ChildrenGone
    <2>6. \A u \in Threads \ {t} : ~Idle(u) /\ Top(u).at \in InList => parent[Top(u).pool] # up
        BY <2>5 DEF EnterList
    <2>7. f.at \in Standing <=> Top(t).at \in Standing
        BY <1>2, <2>4 DEF Standing
    <2>8. /\ \A a \in AllPools : ListSame(a)
          /\ \A a \in AllPools : Orders(a)' = Orders(a)
          /\ \A a \in AllPools : \A z \in Orders(a) : Linked(a, z)' <=> Linked(a, z)
          /\ \A a \in AllPools : Live(a) => HasList(a)'
          /\ Len(calls'[t]) # 0 => calls'[t][1] = f
          /\ \A u \in Threads \ {t} : calls'[u] = calls[u]
        BY <1>1, <1>2, <1>3, <2>4, <2>5, <2>7, ListRead
    <2>9. PICK s \in Orders(up) : Linked(up, s)
        BY <2>1 DEF Lists, HasList
    <2>10. ListStep(f)'
        <3>1. c \in Listed(up)
            BY <1>2, <1>3, <2>1, TopStands DEF Listed, Standing
        <3>2. PICK j \in DOMAIN s : s[j] = c
            BY <2>9, <3>1 DEF Linked
        <3>3. /\ DOMAIN s = 1..Cardinality(Listed(up)) /\ Cardinality(Listed(up)) \in Nat
            BY ListedMembers
        <3>4. 1 \in DOMAIN s /\ 1 - 1 \notin DOMAIN s /\ \A i \in DOMAIN s : ~(i < 1)
            BY <3>2, <3>3
        <3>5. Nth(s, 1) = s[1] /\ Nth(s, 1 - 1) = NoPool
            BY <3>4 DEF Nth
        <3>6. f.sibling = s[1] /\ f.prev = Nth(s, 1 - 1)
            BY <1>2, <2>4, <2>9, <3>5 DEF Fresh, Linked
        <3>7. Searching(f, s, 1)
            BY <3>4, <3>6 DEF Searching
        <3>8. Searching(f, s, 1)'
            BY <3>7 DEF Searching, Nth
        <3>9. s \in Orders(up)' /\ Linked(up, s)' /\ parent'[f.pool] = up
            BY <1>1, <1>3, <2>1, <2>4, <2>8, <2>9
        <3>10. QED
            BY <2>4, <3>4, <3>8, <3>9 DEF ListStep
    <2>11. PICK P : P = NoPool
        OBVIOUS
    <2>12. \A u \in Threads \ {t} : ~Idle(u) /\ Top(u).at \in InList =>
               /\ parent[Top(u).pool] # P /\ memory'[parent[Top(u).pool]] = "live"
               /\ parent'[Top(u).pool] = parent[Top(u).pool]
               /\ next_sibling'[Top(u).pool] = next_sibling[Top(u).pool]
        BY <1>1, <2>11, InListIs DEF Live
    <2>13. \A g : ~Idle(t)' /\ g = Top(t)' =>
               /\ ListStep(g)'
               /\ g.at \in InList => \A u \in Threads \ {t} :
                      ~Idle(u) /\ Top(u).at \in InList => parent'[g.pool] # parent[Top(u).pool]
        <3>1. \A g : ~Idle(t)' /\ g = Top(t)' => g = f
            BY <2>8, TopAfter DEF TreeInv
        <3>2. parent'[f.pool] = up
            BY <1>1, <1>3, <2>4
        <3>3. QED
            BY <2>6, <2>10, <3>1, <3>2
    <2>14. /\ \A a \in AllPools : Live(a) /\ Live(a)' /\ a # P => ListSame(a)
           /\ \A a \in AllPools : Live(a)' /\ (a = P \/ ~Live(a)) => HasList(a)'
        BY <1>1, <2>8, <2>11 DEF Live, AllPools
    <2>15. \A u \in Threads \ {t} : calls'[u] = calls[u]
        BY <2>8
    <2>16. QED
        BY <2>12, <2>13, <2>14, <2>15, ListsStep
<1>7. QED
    BY <1>5, <1>6

(* What is freed is in no list, and what thread t goes on with is in none. *)
LEMMA FreeLists ==
    ASSUME Good, Lists, TreeInv', NEW t \in Threads, Free(t)
    PROVE  Lists'
<1>1. PICK p : p = Top(t).pool
    OBVIOUS
<1>2. /\ p \in Pools /\ p \in Under(p) /\ p \in AtWork(t)
      /\ Len(calls[t]) \in Nat /\ Len(calls[t]) >= 1
      /\ Len(calls'[t]) = Len(calls[t]) - 1
      /\ \A i \in 1..(Len(calls[t]) - 1) : calls'[t][i] = calls[t][i + 1]
      /\ \A u \in Threads \ {t} : calls'[u] = calls[u]
      /\ \A u \in Threads : \A a \in AtWork(u) \ {p} : a \in Pools /\ Live(a) /\ a \notin Under(p)
    BY <1>1, FreeLeaves
<1>3. /\ \A q \in AllPools : Live(q)' <=> Live(q) /\ q \notin Under(p)
      /\ \A q \in AllPools : q \notin Under(p) =>
            /\ parent'[q] = parent[q] /\ first_child'[q] = first_child[q]
            /\ next_sibling'[q] = next_sibling[q]
      /\ \A q \in Under(p) : Live(q) /\ p \in lineage[q]
    BY <1>1, WhatIsFreed DEF Good, TreeInv
<1>4. ~Idle(t) /\ Top(t).at = "free"
    BY TopIsLive DEF Free, Good, TreeInv, Places
<1>5. ~Stands(p, Standing)
    BY <1>1, <1>4, TopStands DEF Standing
<1>6. ASSUME NEW a \in AllPools, Live(a)'
      PROVE  ListSame(a)
    <2>1. Live(a) /\ a \notin Under(p)
        BY <1>3, <1>6
    <2>2. \A d : d \in Children(a)' <=> d \in Children(a) /\ d # p
        BY <1>1, <2>1, FreeChildren
    <2>3. \A d : d # p => (Stands(d, Standing)' <=> Stands(d, Standing))
        BY <1>1, FreeStands
    <2>4. Listed(a)' = Listed(a)
        BY <1>5, <2>2, <2>3 DEF Listed, Standing
    <2>5. ASSUME NEW d \in Listed(a) PROVE next_sibling'[d] = next_sibling[d]
        <3>1. d \in Children(a) /\ d # p /\ d \in AllPools
            BY <1>5 DEF Listed, Standing, Children, AllPools
        <3>2. d \notin Under(p)
            BY <1>1, <2>1, <3>1, FreeChildren
        <3>3. QED
            BY <1>3, <3>1, <3>2
    <2>6. QED
        BY <1>3, <2>1, <2>4, <2>5 DEF ListSame
<1>7. ASSUME NEW u \in Threads \ {t}, ~Idle(u), Top(u).at \in InList
      PROVE  /\ parent[Top(u).pool] # NoPool /\ memory'[parent[Top(u).pool]] = "live"
             /\ parent'[Top(u).pool] = parent[Top(u).pool]
             /\ next_sibling'[Top(u).pool] = next_sibling[Top(u).pool]
    <2>1. PICK d, up \in AllPools : /\ d = Top(u).pool /\ d \in Pools /\ d \in AllPools /\ Live(d) /\ d \in AtWork(u)
                                    /\ up = parent[d] /\ up # NoPool /\ Live(up) /\ up \in lineage[d]
        BY <1>7, InListIs
    <2>2. d # p
        BY <1>2, <2>1, GoodAtWork
    <2>3. d \notin Under(p)
        BY <1>2, <2>1, <2>2
    <2>4. up \notin Under(p)
        <3>1. lineage[up] \subseteq lineage[d]
            BY <2>1 DEF Good, TreeInv, LineageInv
        <3>2. p \notin lineage[d]
            BY <2>1, <2>3 DEF Under
        <3>3. QED
            BY <1>3, <3>1, <3>2
    <2>5. Live(up)' /\ parent'[d] = parent[d] /\ next_sibling'[d] = next_sibling[d]
        BY <1>3, <2>1, <2>3, <2>4
    <2>6. QED
        BY <2>1, <2>5 DEF Live
<1>8. \A g : ~Idle(t)' /\ g = Top(t)' => g.at \notin InList
    <2>1. SUFFICES ASSUME Len(calls'[t]) # 0 PROVE calls'[t][1].at \notin InList
        <3>1. (Idle(t)' <=> Len(calls'[t]) = 0) /\ (~Idle(t)' => Top(t)' = calls'[t][1])
            BY TopAfter DEF TreeInv
        <3>2. QED
            BY <3>1
    <2>2. /\ 1 \in 1..(Len(calls[t]) - 1) /\ 2 \in 1..Len(calls[t]) /\ 1 \in 1..Len(calls[t]) /\ 1 < 2
        <3>1. PICK n : n = Len(calls[t])
            OBVIOUS
        <3>2. n \in Nat /\ n >= 1 /\ Len(calls'[t]) = n - 1
            BY <1>2, <3>1
        <3>3. n - 1 # 0
            BY <2>1, <3>2
        <3>4. 1 \in 1..(n - 1) /\ 2 \in 1..n /\ 1 \in 1..n /\ 1 < 2
            BY <3>2, <3>3
        <3>5. QED
            BY <3>1, <3>4
    <2>3. calls'[t][1] = calls[t][2]
        BY <1>2, <2>2
    <2>4. Inside(calls[t][1], calls[t][2])
        BY <2>2 DEF Good, CallsInv, StackInv
    <2>5. QED
        BY <2>3, <2>4 DEF Inside, InList
<1>9. PICK P : P = NoPool
    OBVIOUS
<1>10. \A u \in Threads \ {t} : ~Idle(u) /\ Top(u).at \in InList =>
           /\ parent[Top(u).pool] # P /\ memory'[parent[Top(u).pool]] = "live"
           /\ parent'[Top(u).pool] = parent[Top(u).pool]
           /\ next_sibling'[Top(u).pool] = next_sibling[Top(u).pool]
    BY <1>7, <1>9
<1>11. /\ \A a \in AllPools : Live(a) /\ Live(a)' /\ a # P => ListSame(a)
       /\ \A a \in AllPools : Live(a)' /\ (a = P \/ ~Live(a)) => HasList(a)'
    BY <1>3, <1>6, <1>9 DEF AllPools
<1>12. \A g : ~Idle(t)' /\ g = Top(t)' =>
           /\ ListStep(g)'
           /\ g.at \in InList => \A u \in Threads \ {t} :
                  ~Idle(u) /\ Top(u).at \in InList => parent'[g.pool] # parent[Top(u).pool]
    <2>1. \A g : g.at \notin InList => ListStep(g)'
        BY DEF ListStep, InList
    <2>2. QED
        BY <1>8, <2>1
<1>13. Good /\ Lists /\ t \in Threads /\ \A u \in Threads \ {t} : calls'[u] = calls[u]
    BY <1>2
<1>14. QED
    BY ONLY <1>10, <1>11, <1>12, <1>13, ListsStep

-----------------------------------------------------------------------------
(* Nothing is lost and nothing is used after it is freed. *)

LEMMA FoundInList ==
    ASSUME Good, Lists, NEW t \in Threads
    PROVE  ~NotAChild(t)
<1>1. SUFFICES ASSUME ~Idle(t), Top(t).at = "search" PROVE Top(t).sibling # NoPool
    BY DEF NotAChild, At
<1>2. PICK up : up = parent[Top(t).pool]
    OBVIOUS
<1>3. PICK s \in Orders(up) : \E k \in DOMAIN s : Searching(Top(t), s, k)
    BY <1>1, <1>2 DEF Lists, ListStep
<1>4. \E k \in DOMAIN s : Top(t).sibling = s[k] /\ s[k] \in Pools
    BY <1>3, ListedMembers DEF Searching
<1>5. QED
    BY <1>4

LEMMA NothingFreedUsed ==
    ASSUME Good, Lists, NEW t \in Threads
    PROVE  ~UseFreed(t)
<1>1. SUFFICES ASSUME ~Idle(t), NEW p \in Accesses(Top(t)), p # NoPool PROVE Live(p)
    BY DEF UseFreed, Live
<1>2. PICK f : f = Top(t)
    OBVIOUS
<1>3. f = calls[t][1] /\ 1 \in 1..Len(calls[t]) /\ f \in Frames
    BY <1>1, <1>2, StackTyped DEF Good, TreeInv
<1>4. f.pool \in Pools /\ Live(f.pool)
    BY <1>3, GoodFrame
<1>5. CASE f.at = "destroy" /\ f.left # {}
    <2>1. p = f.pool \/ p \in f.left
        BY <1>1, <1>2, <1>5 DEF Accesses
    <2>2. ASSUME p \in f.left PROVE Live(p)
        <3>1. p \in Pools
            BY <1>3, <2>2 DEF Frames
        <3>2. f.pool \in users[p]
            BY <1>3, <2>2, <3>1 DEF Good, CleanupsInv
        <3>3. QED
            BY <3>1, <3>2 DEF Good, UsersInv
    <2>3. QED
        BY <1>4, <2>1, <2>2
<1>6. CASE f.at = "destroy" /\ f.left = {}
    <2>1. p = f.pool \/ p = first_child[f.pool]
        BY <1>1, <1>2, <1>6 DEF Accesses
    <2>2. PICK s \in Orders(f.pool) : Linked(f.pool, s)
        BY <1>4 DEF Lists, HasList, AllPools
    <2>3. first_child[f.pool] = Nth(s, 1)
        BY <2>2 DEF Linked
    <2>4. QED
        BY <1>1, <1>4, <2>1, <2>3, ListedMembers DEF Nth
<1>7. CASE f.at = "search"
    <2>1. p = f.pool \/ p = f.sibling
        BY <1>1, <1>2, <1>7 DEF Accesses
    <2>2. PICK up : up = parent[f.pool]
        OBVIOUS
    <2>3. PICK s \in Orders(up) : \E k \in DOMAIN s : Searching(f, s, k)
        BY <1>1, <1>2, <1>7, <2>2 DEF Lists, ListStep
    <2>4. Live(f.sibling)
        BY <2>3, ListedMembers DEF Searching
    <2>5. QED
        BY <1>4, <2>1, <2>4
<1>8. CASE f.at = "unlink"
    <2>1. p = f.pool \/ p = f.prev
        BY <1>1, <1>2, <1>8 DEF Accesses
    <2>2. PICK up : up = parent[f.pool]
        OBVIOUS
    <2>3. PICK s \in Orders(up) : \E k \in DOMAIN s : f.prev = Nth(s, k - 1)
        BY <1>1, <1>2, <1>8, <2>2 DEF Lists, ListStep
    <2>4. f.prev = NoPool \/ Live(f.prev)
        BY <2>3, ListedMembers DEF Nth
    <2>5. QED
        BY <1>1, <1>4, <2>1, <2>4
<1>9. CASE f.at \notin {"destroy", "search", "unlink"}
    <2>1. p = f.pool
        BY <1>1, <1>2, <1>9 DEF Accesses
    <2>2. QED
        BY <1>4, <2>1
<1>10. QED
    BY <1>5, <1>6, <1>7, <1>8, <1>9

LEMMA FreshFrames ==
    ASSUME Fresh, NEW N, NewFrames(N), \A f \in N : f.at = "destroy" => f.prev = NoPool
    PROVE  Fresh'
BY DEF Fresh, NewFrames

LEMMA FreshBegun ==
    ASSUME Good, Fresh, NEW t \in Threads, Begin(t)
    PROVE  Fresh'
<1>1. \A p, place : Frame(p, place).prev = NoPool
    BY DEF Frame
<1>2. CASE calls' = calls
    BY <1>2 DEF Fresh
<1>3. ASSUME NEW p \in AllPools, NEW place \in Places, calls' = [calls EXCEPT ![t] = <<Frame(p, place)>>]
      PROVE  Fresh'
    <2>1. PICK f \in Frames : f = Frame(p, place)
        BY FrameIsFrame DEF Good, TreeInv
    <2>2. NewFrames({f})
        BY <1>3, <2>1, FramesBegun DEF Good, TreeInv
    <2>3. QED
        BY <1>1, <2>1, <2>2, FreshFrames
<1>4. ASSUME NEW p \in AllPools, Create(t, p)
      PROVE  Fresh'
    <2>1. NewPool \in AllPools /\ "first" \in Places
        BY <1>4, NewPoolIsUnused DEF Create, AllPools, Places
    <2>2. calls' = [calls EXCEPT ![t] = <<Frame(NewPool, "first")>>]
        BY <1>4 DEF Create
    <2>3. QED
        BY <1>3, <2>1, <2>2
<1>5. ASSUME NEW p \in Pools, Release(t, p) \/ Destroy(t, p)
      PROVE  Fresh'
    <2>1. p \in AllPools /\ "destroy" \in Places
        BY DEF AllPools, Places
    <2>2. \/ calls' = [calls EXCEPT ![t] = <<Frame(p, "destroy")>>]
          \/ calls' = [calls EXCEPT ![t] = <<>>] /\ Idle(t)
        BY <1>5 DEF Release, Destroy, DestroyAtZero, Uses
    <2>3. calls' = [calls EXCEPT ![t] = <<>>] /\ Idle(t) => calls' = calls
        BY DEF Idle, Good, TreeInv, TypeOK
    <2>4. QED
        BY <1>2, <1>3, <2>1, <2>2, <2>3
<1>6. QED
    <2>1. CreateThread(t) => calls' = calls
        BY DEF CreateThread
    <2>2. \A p, q, u : AddReference(t, u, p) \/ RegisterCleanup(t, p, q) \/ DeregisterCleanup(t, p, q)
              => calls' = calls
        BY DEF AddReference, RegisterCleanup, DeregisterCleanup
    <2>3. QED
        BY <1>2, <1>4, <1>5, <2>1, <2>2 DEF Begin

LEMMA FreshGoneOn ==
    ASSUME Good, Fresh, Orderly', NEW t \in Threads, GoOn(t)
    PROVE  Fresh'
<1>1. ASSUME NEW f \in Frames, ~Idle(t), Continue(t, <<>>, f), f.at = "destroy" => f.prev = NoPool
      PROVE  Fresh'
    <2>1. NewFrames({f})
        BY <1>1, FramesReplaced DEF Good, TreeInv
    <2>2. QED
        BY <1>1, <2>1, FreshFrames
<1>2. ASSUME NEW f \in Frames, NEW c \in AllPools, ~Idle(t), Continue(t, <<Frame(c, "destroy")>>, f),
             f.at = "destroy" => f.prev = NoPool
      PROVE  Fresh'
    <2>1. PICK g \in Frames : g = Frame(c, "destroy") /\ g.prev = NoPool
        BY FrameIsFrame DEF Good, TreeInv, Places
    <2>2. NewFrames({f, g})
        BY <1>2, <2>1, FramesCalled DEF Good, TreeInv
    <2>3. QED
        BY <1>2, <2>1, <2>2, FreshFrames
<1>3. CASE AddChild(t) \/ LinkChild(t) \/ ChildrenGone(t) \/ Search(t) \/ Unlink(t)
    <2>1. ~Idle(t) /\ (Return(t) \/ \E f \in Frames : Continue(t, <<>>, f) /\ f.at # "destroy")
        BY <1>3, InListFrames
    <2>2. CASE Return(t)
        <3>1. NewFrames({})
            BY <2>1, <2>2, FramesReturned DEF Good, TreeInv
        <3>2. QED
            BY <3>1, FreshFrames
    <2>3. QED
        BY <1>1, <2>1, <2>2
<1>4. CASE RunCleanup(t)
    <2>1. PICK q \in Top(t).left :
              Live(q) /\ Continue(t, DestroyAtZero(q), [Top(t) EXCEPT !.left = @ \ {q}])
        BY <1>4 DEF RunCleanup
    <2>2. /\ ~Idle(t) /\ Top(t) \in Frames /\ Top(t) = calls[t][1] /\ 1 \in 1..Len(calls[t])
          /\ Top(t).at = "destroy"
        BY <1>4, TopIsLive, StackTyped DEF RunCleanup, Good, TreeInv, Places
    <2>3. PICK f : f = [Top(t) EXCEPT !.left = @ \ {q}]
        OBVIOUS
    <2>4. f \in Frames /\ f.prev = NoPool /\ q \in AllPools
        BY <2>2, <2>3 DEF Frames, AllPools, Fresh
    <2>5. Continue(t, <<>>, f) \/ Continue(t, <<Frame(q, "destroy")>>, f)
        BY <2>1, <2>3 DEF DestroyAtZero
    <2>6. QED
        BY <1>1, <1>2, <2>2, <2>4, <2>5
<1>5. CASE DestroyChild(t)
    <2>1. /\ ~Idle(t) /\ Top(t) \in Frames /\ Top(t) = calls[t][1] /\ 1 \in 1..Len(calls[t])
          /\ Top(t).at = "destroy"
        BY <1>5, TopIsLive, StackTyped DEF DestroyChild, InChildren, Good, TreeInv, Places
    <2>2. \E c \in AllPools : Continue(t, <<Frame(c, "destroy")>>, Top(t))
        BY <1>5, <2>1, ChildIs DEF AllPools
    <2>3. Top(t).prev = NoPool
        BY <2>1 DEF Fresh
    <2>4. QED
        BY <1>2, <2>1, <2>2, <2>3
<1>6. CASE ReleaseParent(t)
    <2>1. PICK f : f = [Top(t) EXCEPT !.at = "free"]
        OBVIOUS
    <2>2. At(t, "parent")
        BY <1>6 DEF ReleaseParent
    <2>3. ~Idle(t) /\ Top(t) \in Frames
        BY <2>2, TopIsLive DEF Good, TreeInv, Places
    <2>4. f \in Frames /\ f.at = "free" /\ Continue(t, <<>>, f)
        BY <1>6, <2>1, <2>2, <2>3, ParentStays DEF Frames, Places, ReleaseParent, DestroyAtZero
    <2>5. QED
        BY <1>1, <2>3, <2>4
<1>7. CASE Free(t)
    <2>1. ~Idle(t) /\ Return(t)
        BY <1>7, TopIsLive DEF Free, Good, TreeInv, Places
    <2>2. NewFrames({})
        BY <2>1, FramesReturned DEF Good, TreeInv
    <2>3. QED
        BY <2>2, FreshFrames
<1>8. CASE NotAChild(t) \/ UseFreed(t)
    BY <1>8 DEF NotAChild, UseFreed, Orderly
<1>9. QED
    BY <1>3, <1>4, <1>5, <1>6, <1>7, <1>8 DEF GoOn

LEMMA ListsNext ==
    ASSUME Good, Lists, Fresh, TreeInv', Orderly', ~overlapped', NEW t \in Threads, Begin(t) \/ GoOn(t)
    PROVE  Lists'
<1>1. CASE Begin(t)
    <2>1. CASE CreateThread(t)
        BY <2>1, CreateThreadLists
    <2>2. ASSUME NEW p \in AllPools, Create(t, p) PROVE Lists'
        BY <2>2, CreateLists
    <2>3. ASSUME NEW p \in Pools, Release(t, p) \/ Destroy(t, p) PROVE Lists'
        BY <2>3, BeginLists
    <2>4. ASSUME NEW p \in Pools, NEW u \in Threads, AddReference(t, u, p) PROVE Lists'
        BY <2>4, BeginLists
    <2>5. ASSUME NEW p \in Pools, NEW q \in Pools, RegisterCleanup(t, p, q) \/ DeregisterCleanup(t, p, q)
          PROVE  Lists'
        BY <2>5, BeginLists
    <2>6. QED
        BY <1>1, <2>1, <2>2, <2>3, <2>4, <2>5 DEF Begin
<1>2. CASE GoOn(t)
    <2>1. CASE AddChild(t) \/ LinkChild(t) \/ Search(t) \/ Unlink(t)
        BY <2>1, AddChildLists, LinkChildLists, SearchLists, UnlinkLists
    <2>2. CASE ChildrenGone(t)
        BY <2>2, ChildrenGoneLists
    <2>3. CASE RunCleanup(t) \/ DestroyChild(t) \/ ReleaseParent(t) \/ Free(t)
        BY <2>3, CallLists, ReleaseParentLists, FreeLists
    <2>4. CASE NotAChild(t) \/ UseFreed(t)
        BY <2>4 DEF NotAChild, UseFreed, Orderly
    <2>5. QED
        BY <1>2, <2>1, <2>2, <2>3, <2>4 DEF GoOn
<1>3. QED
    BY <1>1, <1>2

LEMMA HistoryGrows ==
    ASSUME Next
    PROVE  (early => early') /\ (overlapped => overlapped')
<1>1. ASSUME NEW t \in Threads, NEW p, Create(t, p) \/ CreateThread(t)
      PROVE  (early => early') /\ (overlapped => overlapped')
    <2>1. CASE Create(t, p)
        <3>1. EnterList(t, p) /\ UNCHANGED early
            BY <2>1 DEF Create, Allocates
        <3>2. QED
            BY <3>1 DEF EnterList
    <2>2. CASE CreateThread(t)
        BY <2>2 DEF CreateThread, Allocates
    <2>3. QED
        BY <1>1, <2>1, <2>2
<1>2. ASSUME NEW t \in Threads, NEW u, NEW p, NEW q,
             \/ AddReference(t, u, p) \/ Release(t, p) \/ Destroy(t, p)
             \/ RegisterCleanup(t, p, q) \/ DeregisterCleanup(t, p, q)
      PROVE  (early => early') /\ (overlapped => overlapped')
    <2>1. CASE Release(t, p)
        <3>1. LetGo(t, p) /\ UNCHANGED overlapped
            BY <2>1 DEF Release
        <3>2. QED
            BY <3>1 DEF LetGo
    <2>2. CASE AddReference(t, u, p) \/ Destroy(t, p)
        BY <2>2 DEF AddReference, Destroy, history
    <2>3. CASE RegisterCleanup(t, p, q) \/ DeregisterCleanup(t, p, q)
        BY <2>3 DEF RegisterCleanup, DeregisterCleanup, history
    <2>4. QED
        BY <1>2, <2>1, <2>2, <2>3
<1>3. ASSUME NEW t \in Threads, GoOn(t)
      PROVE  (early => early') /\ (overlapped => overlapped')
    <2>1. CASE AddChild(t) \/ LinkChild(t) \/ DestroyChild(t) \/ Search(t) \/ NotAChild(t)
        BY <2>1 DEF AddChild, LinkChild, DestroyChild, Search, NotAChild, history
    <2>2. CASE Unlink(t) \/ ReleaseParent(t) \/ Free(t) \/ UseFreed(t)
        BY <2>2 DEF Unlink, ReleaseParent, Free, UseFreed, history
    <2>3. CASE RunCleanup(t)
        BY <2>3 DEF RunCleanup, LetGo
    <2>4. CASE ChildrenGone(t)
        BY <2>4 DEF ChildrenGone, EnterList
    <2>5. QED
        BY <1>3, <2>1, <2>2, <2>3, <2>4 DEF GoOn
<1>4. CASE Ended
    BY <1>4 DEF Ended, vars, history
<1>5. QED
    BY <1>1, <1>2, <1>3, <1>4 DEF Next, Begin

(* How a tree is broken *)
LEMMA Breaks ==
    ASSUME Next, broken = "no", broken' # "no"
    PROVE  \E t \in Threads : NotAChild(t) \/ UseFreed(t)
<1>1. \A t, p : Create(t, p) \/ CreateThread(t) => broken' = broken
    BY DEF Create, CreateThread, Allocates
<1>2. \A t, u, p, q :
          \/ AddReference(t, u, p) \/ Release(t, p) \/ Destroy(t, p)
          \/ RegisterCleanup(t, p, q) \/ DeregisterCleanup(t, p, q)
          => broken' = broken
    BY DEF AddReference, Release, Destroy, RegisterCleanup, DeregisterCleanup
<1>3. \A t : AddChild(t) \/ LinkChild(t) \/ ChildrenGone(t) \/ Search(t) \/ Unlink(t)
             => broken' = broken
    BY DEF AddChild, LinkChild, ChildrenGone, Search, Unlink
<1>4. \A t : RunCleanup(t) \/ DestroyChild(t) \/ ReleaseParent(t) \/ Free(t) => broken' = broken
    BY DEF RunCleanup, DestroyChild, ReleaseParent, Free
<1>5. Ended => broken' = broken
    BY DEF Ended, vars
<1>6. QED
    BY <1>1, <1>2, <1>3, <1>4, <1>5 DEF Next, Begin, GoOn

LEMMA ListsInit ==
    ASSUME Init
    PROVE  Lists /\ Fresh
<1>1. \A t \in Threads : Idle(t) /\ 1..Len(calls[t]) = {}
    <2>1. \A t \in Threads : calls[t] = <<>> /\ Len(calls[t]) = 0
        BY DEF Init
    <2>2. QED
        BY <2>1 DEF Idle
<1>2. ASSUME NEW p \in AllPools, Live(p)
      PROVE  HasList(p)
    <2>1. \A q \in Pools : ~Live(q)
        BY DEF Init, Live, AllPools
    <2>2. Listed(p) = {} /\ first_child[p] = NoPool
        BY <2>1 DEF Init, Listed, Children
    <2>3. Orders(p) = [1..0 -> {}]
        BY <2>2, FS_EmptySet DEF Orders
    <2>4. PICK s : s = [k \in 1..0 |-> k]
        OBVIOUS
    <2>5. DOMAIN s = {} /\ s \in [1..0 -> {}]
        BY <2>4
    <2>6. Linked(p, s)
        BY <2>2, <2>5 DEF Linked, Nth
    <2>7. QED
        BY <2>3, <2>5, <2>6 DEF HasList
<1>3. QED
    BY <1>1, <1>2 DEF Lists, Fresh

LEMMA ListsStuttering ==
    ASSUME Lists, UNCHANGED vars
    PROVE  Lists'
<1>1. UNCHANGED <<memory, parent, first_child, next_sibling, calls>>
    BY DEF vars, structVars, listVars
<1>2. \A p : Listed(p)' = Listed(p)
    BY <1>1 DEF Listed, Children, Live, Stands
<1>3. \A p : Orders(p)' = Orders(p) /\ \A s : Linked(p, s)' <=> Linked(p, s)
    BY <1>1, <1>2 DEF Orders, Linked, Nth
<1>4. (\A p : HasList(p)' <=> HasList(p)) /\ \A f : ListStep(f)' <=> ListStep(f)
    BY <1>1, <1>3 DEF HasList, ListStep, Searching, Nth
<1>5. \A t : (Idle(t)' <=> Idle(t)) /\ Top(t)' = Top(t)
    BY <1>1 DEF Idle, Top
<1>6. \A p \in AllPools : Live(p)' => HasList(p)'
    BY <1>1, <1>4 DEF Lists, Live
<1>7. ASSUME NEW t \in Threads, ~Idle(t)', NEW f, f = Top(t)'
      PROVE  ListStep(f)'
    BY <1>4, <1>5, <1>7 DEF Lists
<1>8. QED
    BY <1>1, <1>5, <1>6, <1>7 DEF Lists

(* What holds of the tree always; as long as it is in order; and as long as in
   addition no two threads are in one list, in which case it stays intact. *)
PoolsInv ==
    /\ TreeInv
    /\ Orderly => Good /\ Fresh
    /\ Orderly /\ ~overlapped => Lists
    /\ broken # "no" => early \/ overlapped

LEMMA PoolsInvariant == Spec => []PoolsInv
<1>1. Init => PoolsInv
    BY GoodInit, ListsInit DEF PoolsInv, Good, Init
<1>2. PoolsInv /\ [Next]_vars => PoolsInv'
    <2>1. SUFFICES ASSUME PoolsInv, Next PROVE PoolsInv'
        <3>1. ASSUME PoolsInv, UNCHANGED vars PROVE PoolsInv'
            <4>1. UNCHANGED <<memory, lineage, parent, reference_count, first_child, next_sibling,
                              first_cleanup, users, calls, broken, early, overlapped>>
                BY <3>1 DEF vars, structVars, listVars, countVars, history
            <4>2. TreeInv'
                BY <3>1, TreeStuttering DEF PoolsInv
            <4>3. (Orderly' <=> Orderly) /\ (Fresh' <=> Fresh)
                BY <4>1 DEF Orderly, Fresh
            <4>4. Good => Good'
                BY <3>1, GoodStuttering
            <4>5. Lists => Lists'
                BY <3>1, ListsStuttering
            <4>6. QED
                BY <3>1, <4>1, <4>2, <4>3, <4>4, <4>5 DEF PoolsInv
        <3>2. QED
            BY <3>1
    <2>2. TreeInv'
        BY <2>1, TreeStep DEF PoolsInv
    <2>3. ASSUME Orderly' PROVE Good' /\ Fresh'
        <3>1. Good /\ Fresh
            BY <2>1, <2>3, OrderlyBefore DEF PoolsInv
        <3>2. Good'
            BY <2>1, <2>2, <2>3, <3>1, GoodStep
        <3>3. Ended => Fresh'
            BY <3>1 DEF Ended, vars, Fresh
        <3>4. QED
            BY <2>1, <2>3, <3>1, <3>2, <3>3, FreshBegun, FreshGoneOn DEF Next
    <2>4. ASSUME Orderly', ~overlapped' PROVE Lists'
        <3>1. Good /\ Fresh /\ Lists /\ Orderly
            BY <2>1, <2>4, OrderlyBefore, HistoryGrows DEF PoolsInv
        <3>2. CASE \E t \in Threads : Begin(t) \/ GoOn(t)
            BY <2>2, <2>4, <3>1, <3>2, ListsNext
        <3>3. CASE Ended
            BY <3>1, <3>3, ListsStuttering DEF Ended
        <3>4. QED
            BY <2>1, <3>2, <3>3 DEF Next
    <2>5. ASSUME broken' # "no" PROVE early' \/ overlapped'
        <3>1. CASE early \/ overlapped
            BY <2>1, <3>1, HistoryGrows
        <3>2. CASE ~early /\ ~overlapped
            <4>1. broken = "no" /\ Orderly
                BY <2>1, <3>2 DEF PoolsInv, Orderly
            <4>2. Good /\ Lists
                BY <2>1, <3>2, <4>1 DEF PoolsInv
            <4>3. \A t \in Threads : ~NotAChild(t) /\ ~UseFreed(t)
                BY <4>2, FoundInList, NothingFreedUsed
            <4>4. QED
                BY <2>1, <2>5, <4>1, <4>3, Breaks
        <3>3. QED
            BY <3>1, <3>2
    <2>6. QED
        BY <2>2, <2>3, <2>4, <2>5 DEF PoolsInv
<1>3. QED
    BY <1>1, <1>2, PTL DEF Spec

(* The count of a live pool is the number of its users and of the children that
   have not given theirs back, for any threads, pools, references and cleanups,
   whatever the lists have come to (afw_pool_multithreaded.c). *)
THEOREM CountsAreExact == Spec => []CountExact
<1>1. PoolsInv => CountExact
    BY DEF PoolsInv, Good, CountExact
<1>2. QED
    BY <1>1, PoolsInvariant, PTL

(* The invariant of the run: the tree, its counts, its lists and the calls, whatever
   threads create, share, release and destroy pools. *)
THEOREM PoolInvariant == Spec => []PoolInv
<1>1. PoolsInv => PoolInv
    <2>1. ASSUME PoolsInv PROVE PoolInv
        <3>1. TypeOK /\ LineageInv /\ UnusedInv /\ FamilyInv
            BY <2>1 DEF PoolsInv, TreeInv
        <3>2. Orderly => CallsInv /\ CleanupsInv /\ UsersInv
            BY <2>1 DEF PoolsInv, Good
        <3>3. CountExact
            BY <2>1 DEF PoolsInv, Good, CountExact
        <3>4. ListIsChildren /\ ListsInv
            BY <2>1 DEF PoolsInv, Lists, HasList, ListIsChildren, ListsInv
        <3>5. QED
            BY <3>1, <3>2, <3>3, <3>4 DEF PoolInv
    <2>2. QED
        BY <2>1
<1>2. QED
    BY <1>1, PoolsInvariant, PTL

(* As long as no pool loses its last user before its children, and no two threads
   are in one list, impl_remove_child finds the child, and no destroy, cleanup or
   search touches a pool that is freed; and what a thread destroys, no other thread
   has in its hands. *)
THEOREM TouchesOnlyLiveHolds == Spec => []TouchesOnlyLive
<1>1. ASSUME PoolsInv PROVE TouchesOnlyLive
    <2>1. broken # "no" => early \/ overlapped
        BY <1>1 DEF PoolsInv
    <2>2. ASSUME Orderly, NEW t \in Threads, NEW i \in 1..Len(calls[t]),
                 calls[t][i].at \notin {"first", "link"}, NEW q \in Under(calls[t][i].pool)
          PROVE  users[q] \cap Threads \subseteq {t}
        <3>1. PICK p : p = calls[t][i].pool
            OBVIOUS
        <3>2. Good
            BY <1>1, <2>2 DEF PoolsInv
        <3>3. p \in Pools /\ Live(p) /\ Destroys(t, p)
            BY <2>2, <3>1, <3>2, GoodFrame
        <3>4. q \in Pools /\ Live(q) /\ p \in lineage[q]
            BY <3>1 DEF Under
        <3>5. CASE Spent(p)
            <4>1. q = p /\ users[p] = {}
                BY <3>2, <3>3, <3>4, <3>5, SpentAlone DEF Spent, Good, TreeInv
            <4>2. QED
                BY <4>1
        <3>6. CASE ~Spent(p)
            <4>1. Owns(t, Root(t)) /\ Root(t) \in lineage[p]
                BY <3>3, <3>6 DEF Destroys
            <4>2. q \in Under(Root(t))
                BY <3>2, <3>4, <4>1 DEF Under, Good, TreeInv, LineageInv
            <4>3. users[q] \ {t} \subseteq Pools /\ Pools \cap Threads = {}
                BY <4>1, <4>2 DEF Owns, Under
            <4>4. QED
                BY <4>3
        <3>7. QED
            BY <3>5, <3>6
    <2>3. QED
        BY <2>1, <2>2 DEF TouchesOnlyLive
<1>2. QED
    BY <1>1, PoolsInvariant, PTL
-----------------------------------------------------------------------------
(* Nothing is left behind, also where a pool loses its last user before its
   children: at zero a pool is destroyed, and above zero somebody has it. *)

(* A cleanup will release c. *)
HasCleanup(c) ==
    \/ \E p \in AllPools : c \in first_cleanup[p]
    \/ \E u \in Threads : \E i \in 1..Len(calls[u]) : c \in calls[u][i].left

(* Nobody but the thread that creates c has it. *)
Newborn(t, c) ==
    /\ c \in Pools /\ users[c] = {t} /\ reference_count[c] = 1
    /\ Children(c) = {} /\ ~HasCleanup(c)

CountBelow ==
    \A p \in Pools : Live(p) =>
        reference_count[p] <= Cardinality(users[p]) + Cardinality(Counted(p))

ZeroDestroyed ==
    \A p \in Pools : Live(p) =>
        reference_count[p] >= 1 \/ \E t \in Threads : p \in AtWork(t)

UsersHaveCleanup ==
    \A p, q \in Pools : Live(p) /\ p \in users[q] => q \in first_cleanup[p]

Newborns ==
    \A t \in Threads : \A i \in 1..Len(calls[t]) : \A c \in AllPools :
        calls[t][i].pool = c /\ calls[t][i].at \in {"first", "link"} /\ Live(c) => Newborn(t, c)

Due == CountBelow /\ ZeroDestroyed /\ UsersHaveCleanup /\ Newborns

(* What a thread in a call goes on with: its own frame, and one for a pool whose
   destroy it begins. *)
Goes(t, f) ==
    /\ f.pool = Top(t).pool /\ f.left \subseteq Top(t).left
    /\ f.at \in {"first", "link"} => Top(t).at \in {"first", "link"}
    /\ f.at = "free" => ReleaseParent(t) \/ parent[f.pool] = NoPool

Starts(f) ==
    f.at = "destroy" /\ f.pool \in AllPools /\ f.left \subseteq first_cleanup[f.pool]

WorksOn(t) ==
    /\ \A u \in Threads : \A i \in 1..Len(calls'[u]) :
          \/ \E k \in 1..Len(calls[u]) : calls'[u][i] = calls[u][k]
          \/ u = t /\ (Goes(t, calls'[u][i]) \/ Starts(calls'[u][i]))
    /\ \A u \in Threads : \A a \in AtWork(u) :
          a \in AtWork(u)' \/ (a = Top(t).pool /\ (LinkChild(t) \/ Free(t)))

LEMMA WorkContinued ==
    ASSUME TypeOK, NEW t \in Threads, ~Idle(t), NEW f \in Frames, Goes(t, f), NEW q \in AllPools,
           Continue(t, <<>>, f) \/ Continue(t, <<Frame(q, "destroy")>>, f)
    PROVE  /\ WorksOn(t)
           /\ Continue(t, <<Frame(q, "destroy")>>, f) => q \in AtWork(t)'
<1>1. PICK g \in Frames : g = Frame(q, "destroy") /\ g.pool = q /\ Starts(g)
    BY FrameIsFrame DEF Starts, Places
<1>2. PICK n \in Nat : n = Len(calls[t]) /\ n >= 1 /\ Top(t) = calls[t][1]
    BY StackTyped
<1>3. /\ \A u \in Threads \ {t} : calls'[u] = calls[u]
      /\ \/ /\ Len(calls'[t]) = n /\ calls'[t][1] = f
            /\ \A i \in 2..n : calls'[t][i] = calls[t][i]
            /\ ~Continue(t, <<g>>, f)
         \/ /\ Len(calls'[t]) = n + 1 /\ calls'[t][1] = g /\ calls'[t][2] = f
            /\ \A i \in 3..(n + 1) : calls'[t][i] = calls[t][i - 1]
    <2>1. CASE Continue(t, <<g>>, f)
        BY <1>1, <1>2, <2>1, TopCalls
    <2>2. CASE ~Continue(t, <<g>>, f)
        BY <1>1, <1>2, <2>2, TopReplaced
    <2>3. QED
        BY <2>1, <2>2
<1>4. ASSUME NEW i \in 1..Len(calls'[t])
      PROVE  calls'[t][i] = f \/ calls'[t][i] = g \/ \E k \in 1..n : calls'[t][i] = calls[t][k]
    <2>1. CASE Len(calls'[t]) = n /\ calls'[t][1] = f /\ \A j \in 2..n : calls'[t][j] = calls[t][j]
        <3>1. i = 1 \/ i \in 2..n
            BY <1>2, <2>1
        <3>2. QED
            BY <1>2, <2>1, <3>1
    <2>2. CASE /\ Len(calls'[t]) = n + 1 /\ calls'[t][1] = g /\ calls'[t][2] = f
               /\ \A j \in 3..(n + 1) : calls'[t][j] = calls[t][j - 1]
        <3>1. i = 1 \/ i = 2 \/ (i \in 3..(n + 1) /\ i - 1 \in 1..n)
            BY <1>2, <2>2
        <3>2. QED
            BY <2>2, <3>1
    <2>3. QED
        BY <1>3, <2>1, <2>2
<1>5. ASSUME NEW k \in 1..n
      PROVE  \E i \in 1..Len(calls'[t]) : calls'[t][i].pool = calls[t][k].pool
    <2>1. f.pool = calls[t][1].pool
        BY <1>2 DEF Goes
    <2>2. CASE Len(calls'[t]) = n /\ calls'[t][1] = f /\ \A j \in 2..n : calls'[t][j] = calls[t][j]
        <3>1. (k = 1 \/ k \in 2..n) /\ 1 \in 1..n
            BY <1>2
        <3>2. QED
            BY <2>1, <2>2, <3>1
    <2>3. CASE /\ Len(calls'[t]) = n + 1 /\ calls'[t][1] = g /\ calls'[t][2] = f
               /\ \A j \in 3..(n + 1) : calls'[t][j] = calls[t][j - 1]
        <3>1. 2 \in 1..(n + 1) /\ k + 1 \in 1..(n + 1) /\ (k = 1 \/ (k + 1 \in 3..(n + 1) /\ (k + 1) - 1 = k))
            BY <1>2
        <3>2. QED
            BY <2>1, <2>3, <3>1
    <2>4. QED
        BY <1>3, <2>2, <2>3
<1>6. ASSUME NEW u \in Threads, NEW a \in AtWork(u) PROVE a \in AtWork(u)'
    <2>1. PICK k \in 1..Len(calls[u]) : calls[u][k].pool = a
        BY DEF AtWork
    <2>2. \E i \in 1..Len(calls'[u]) : calls'[u][i].pool = a
        <3>1. CASE u = t
            BY <1>2, <1>5, <2>1, <3>1
        <3>2. CASE u # t
            BY <1>3, <2>1, <3>2
        <3>3. QED
            BY <3>1, <3>2
    <2>3. QED
        BY <2>2 DEF AtWork
<1>7. Continue(t, <<g>>, f) => q \in AtWork(t)'
    <2>1. Continue(t, <<g>>, f) => 1 \in 1..Len(calls'[t]) /\ calls'[t][1].pool = q
        BY <1>1, <1>2, <1>3
    <2>2. QED
        BY <2>1 DEF AtWork
<1>8. WorksOn(t)
    <2>1. ASSUME NEW u \in Threads, NEW i \in 1..Len(calls'[u])
          PROVE  \/ \E k \in 1..Len(calls[u]) : calls'[u][i] = calls[u][k]
                 \/ u = t /\ (Goes(t, calls'[u][i]) \/ Starts(calls'[u][i]))
        <3>1. CASE u = t
            BY <1>1, <1>2, <1>4, <2>1, <3>1
        <3>2. CASE u # t
            BY <1>3, <2>1, <3>2
        <3>3. QED
            BY <3>1, <3>2
    <2>2. QED
        BY <1>6, <2>1 DEF WorksOn
<1>9. QED
    BY <1>1, <1>7, <1>8

LEMMA WorkReturned ==
    ASSUME TypeOK, NEW t \in Threads, ~Idle(t), Return(t), LinkChild(t) \/ Free(t)
    PROVE  WorksOn(t)
<1>1. PICK n \in Nat : n = Len(calls[t]) /\ n >= 1 /\ Top(t) = calls[t][1]
    BY StackTyped
<1>2. /\ Len(calls'[t]) = n - 1
      /\ \A i \in 1..(n - 1) : calls'[t][i] = calls[t][i + 1]
      /\ \A u \in Threads \ {t} : calls'[u] = calls[u]
    BY <1>1, TopReturns
<1>3. \A i \in 1..(n - 1) : i + 1 \in 1..n
    BY <1>1
<1>4. \A k \in 1..n : k = 1 \/ (k - 1 \in 1..(n - 1) /\ (k - 1) + 1 = k)
    BY <1>1
<1>5. ASSUME NEW u \in Threads, NEW a \in AtWork(u), a # Top(t).pool PROVE a \in AtWork(u)'
    <2>1. PICK k \in 1..Len(calls[u]) : calls[u][k].pool = a
        BY <1>5 DEF AtWork
    <2>2. CASE u = t
        <3>1. k # 1
            BY <1>1, <1>5, <2>1, <2>2
        <3>2. k - 1 \in 1..Len(calls'[t]) /\ calls'[t][k - 1] = calls[t][k]
            BY <1>1, <1>2, <1>4, <2>1, <2>2, <3>1
        <3>3. QED
            BY <2>1, <2>2, <3>2 DEF AtWork
    <2>3. CASE u # t
        BY <1>2, <2>1, <2>3 DEF AtWork
    <2>4. QED
        BY <2>2, <2>3
<1>6. ASSUME NEW u \in Threads, NEW i \in 1..Len(calls'[u])
      PROVE  \E k \in 1..Len(calls[u]) : calls'[u][i] = calls[u][k]
    <2>1. CASE u = t
        BY <1>1, <1>2, <1>3, <1>6, <2>1
    <2>2. CASE u # t
        BY <1>2, <1>6, <2>2
    <2>3. QED
        BY <2>1, <2>2
<1>7. QED
    BY <1>5, <1>6 DEF WorksOn

LEMMA WorkGoesOn ==
    ASSUME TreeInv, NEW t \in Threads, GoOn(t), broken' = "no"
    PROVE  /\ WorksOn(t)
           /\ ~Idle(t) /\ Top(t) \in Frames /\ Live(Top(t).pool)
           /\ Top(t) = calls[t][1] /\ 1 \in 1..Len(calls[t])
           /\ ReleaseParent(t) => At(t, "parent")
           /\ LinkChild(t) => Top(t).at = "link"
<1>1. \E place \in Places : At(t, place)
    BY DEF GoOn, AddChild, LinkChild, RunCleanup, DestroyChild, ChildrenGone, InChildren, Search, NotAChild,
           Unlink, ReleaseParent, Free, UseFreed, Places
<1>2. /\ ~Idle(t) /\ Top(t) \in Frames /\ Live(Top(t).pool) /\ Top(t).pool \in AllPools
      /\ Top(t) = calls[t][1] /\ 1 \in 1..Len(calls[t])
    BY <1>1, TopIsLive, StackTyped DEF TreeInv
<1>3. ASSUME AddChild(t) \/ LinkChild(t) \/ ChildrenGone(t) \/ Search(t) \/ Unlink(t)
      PROVE  WorksOn(t)
    <2>1. CASE LinkChild(t) /\ Return(t)
        BY <1>2, <2>1, WorkReturned DEF TreeInv
    <2>2. ASSUME NEW f \in Frames, Continue(t, <<>>, f), f.pool = Top(t).pool, f.left = Top(t).left,
                 f.at \in {"first", "link"} <=> Top(t).at \in {"first", "link"},
                 f.at = "free" => parent[f.pool] = NoPool
          PROVE  WorksOn(t)
        BY <1>2, <2>2, WorkContinued DEF Goes, TreeInv
    <2>3. QED
        BY <1>3, <2>1, <2>2, InListGoesOn
<1>4. ASSUME RunCleanup(t) PROVE WorksOn(t)
    <2>1. PICK q \in Top(t).left : Continue(t, DestroyAtZero(q), [Top(t) EXCEPT !.left = @ \ {q}])
        BY <1>4 DEF RunCleanup
    <2>2. PICK f : f = [Top(t) EXCEPT !.left = @ \ {q}]
        OBVIOUS
    <2>3. f \in Frames /\ Goes(t, f) /\ q \in AllPools
        <3>1. /\ f \in Frames /\ f.pool = Top(t).pool /\ f.at = Top(t).at /\ f.left = Top(t).left \ {q}
              /\ q \in AllPools /\ Top(t).at = "destroy"
            BY <1>2, <1>4, <2>2 DEF Frames, AllPools, RunCleanup, At
        <3>2. QED
            BY <3>1 DEF Goes
    <2>4. Continue(t, <<>>, f) \/ Continue(t, <<Frame(q, "destroy")>>, f)
        BY <2>1, <2>2 DEF DestroyAtZero
    <2>5. QED
        BY <1>2, <2>3, <2>4, WorkContinued DEF TreeInv
<1>5. ASSUME DestroyChild(t) PROVE WorksOn(t)
    <2>1. PICK q : q = first_child[Top(t).pool]
        OBVIOUS
    <2>2. q \in AllPools /\ Continue(t, <<Frame(q, "destroy")>>, Top(t)) /\ Top(t).at = "destroy"
        BY <1>2, <1>5, <2>1 DEF DestroyChild, InChildren, At, TreeInv, TypeOK, AllPools
    <2>3. Goes(t, Top(t))
        BY <2>2 DEF Goes
    <2>4. QED
        BY <1>2, <2>2, <2>3, WorkContinued DEF TreeInv
<1>6. ASSUME ReleaseParent(t) PROVE WorksOn(t)
    <2>1. PICK q : q = parent[Top(t).pool]
        OBVIOUS
    <2>2. At(t, "parent") /\ q \in AllPools
        BY <1>6, <2>1, InListHasParent DEF ReleaseParent, TreeInv
    <2>3. PICK f : f = [Top(t) EXCEPT !.at = "free"]
        OBVIOUS
    <2>4. f \in Frames /\ f.pool = Top(t).pool /\ f.left = Top(t).left /\ f.at = "free"
        BY <1>2, <2>3 DEF Frames, Places
    <2>5. Continue(t, <<>>, f) \/ Continue(t, <<Frame(q, "destroy")>>, f)
        BY <1>6, <2>1, <2>3 DEF ReleaseParent, DestroyAtZero
    <2>6. QED
        BY <1>2, <1>6, <2>2, <2>4, <2>5, WorkContinued DEF TreeInv, Goes
<1>7. ASSUME Free(t) PROVE WorksOn(t)
    BY <1>2, <1>7, WorkReturned DEF TreeInv, Free
<1>8. ASSUME NotAChild(t) \/ UseFreed(t) PROVE WorksOn(t)
    BY <1>8 DEF NotAChild, UseFreed
<1>9. WorksOn(t)
    BY <1>3, <1>4, <1>5, <1>6, <1>7, <1>8 DEF GoOn
<1>10. QED
    BY <1>2, <1>9 DEF ReleaseParent, LinkChild, At

(* A child is counted until it gives its reference back. *)
LEMMA CountedGrows ==
    ASSUME TreeInv', UNCHANGED <<memory, parent>>, NEW t \in Threads, WorksOn(t),
           NEW p \in AllPools, NEW c \in Counted(p), ~ReleaseParent(t) \/ c # Top(t).pool
    PROVE  c \in Counted(p)'
<1>1. c \in Children(p) /\ c \in Children(p)' /\ parent[c] # NoPool
    BY DEF Counted, Children, Live, AllPools
<1>2. ASSUME NEW u \in Threads, NEW i \in 1..Len(calls'[u]), calls'[u][i].pool = c
      PROVE  calls'[u][i].at # "free"
    <2>1. CASE \E k \in 1..Len(calls[u]) : calls'[u][i] = calls[u][k]
        BY <1>2, <2>1 DEF Counted, Stands
    <2>2. CASE Goes(t, calls'[u][i])
        BY <1>1, <1>2, <2>2 DEF Goes
    <2>3. CASE Starts(calls'[u][i])
        BY <2>3 DEF Starts
    <2>4. QED
        BY <2>1, <2>2, <2>3 DEF WorksOn
<1>3. ASSUME NEW u \in Threads, NEW i \in 1..Len(calls'[u])
      PROVE  calls'[u][i].at \in Places
    <2>1. calls'[u] \in Seq(Frames)
        BY DEF TreeInv, TypeOK
    <2>2. calls'[u][i] \in Frames
        BY <2>1
    <2>3. QED
        BY <2>2 DEF Frames
<1>4. Stands(c, Places \ {"free"})'
    BY <1>2, <1>3 DEF Stands, Places
<1>5. QED
    BY <1>1, <1>4 DEF Counted

(* What nobody has, is the thread's that creates it as long as it is in its call. *)
LEMMA NewbornsGoOn ==
    ASSUME TreeInv, Newborns, NEW t \in Threads, WorksOn(t), ~Idle(t),
           Top(t) = calls[t][1], 1 \in 1..Len(calls[t]),
           \A p \in AllPools : first_cleanup'[p] \subseteq first_cleanup[p],
           \A c \in Pools : Live(c)' => Live(c) /\ Children(c)' \subseteq Children(c),
           \A c \in Pools : Live(c)' /\ Children(c) = {} /\ ~HasCleanup(c) =>
               users'[c] = users[c] /\ reference_count'[c] = reference_count[c]
    PROVE  Newborns'
<1>1. ASSUME NEW c, HasCleanup(c)' PROVE HasCleanup(c)
    <2>1. CASE \E p \in AllPools : c \in first_cleanup'[p]
        BY <2>1 DEF HasCleanup
    <2>2. ASSUME NEW u \in Threads, NEW i \in 1..Len(calls'[u]), c \in calls'[u][i].left
          PROVE  HasCleanup(c)
        <3>1. CASE \E k \in 1..Len(calls[u]) : calls'[u][i] = calls[u][k]
            BY <2>2, <3>1 DEF HasCleanup
        <3>2. CASE Goes(t, calls'[u][i])
            BY <2>2, <3>2 DEF Goes, HasCleanup
        <3>3. CASE Starts(calls'[u][i])
            BY <2>2, <3>3 DEF Starts, HasCleanup
        <3>4. QED
            BY <3>1, <3>2, <3>3 DEF WorksOn
    <2>3. QED
        BY <1>1, <2>1, <2>2 DEF HasCleanup
<1>2. ASSUME NEW u \in Threads, NEW i \in 1..Len(calls'[u]), NEW c,
             calls'[u][i].pool = c, calls'[u][i].at \in {"first", "link"}, Live(c)'
      PROVE  \E k \in 1..Len(calls[u]) : calls[u][k].pool = c /\ calls[u][k].at \in {"first", "link"}
    <2>1. CASE \E k \in 1..Len(calls[u]) : calls'[u][i] = calls[u][k]
        BY <1>2, <2>1
    <2>2. CASE u = t /\ Goes(t, calls'[u][i])
        BY <1>2, <2>2 DEF Goes
    <2>3. CASE Starts(calls'[u][i])
        BY <1>2, <2>3 DEF Starts
    <2>4. QED
        BY <2>1, <2>2, <2>3 DEF WorksOn
<1>3. ASSUME NEW u \in Threads, NEW i \in 1..Len(calls'[u]), NEW c \in AllPools,
             calls'[u][i].pool = c, calls'[u][i].at \in {"first", "link"}, Live(c)'
      PROVE  Newborn(u, c)'
    <2>1. PICK k \in 1..Len(calls[u]) : calls[u][k].pool = c /\ calls[u][k].at \in {"first", "link"}
        BY <1>2, <1>3
    <2>2. Live(c)
        <3>1. CASE c = Base
            BY <3>1 DEF TreeInv, LineageInv
        <3>2. CASE c \in Pools
            BY <1>3, <3>2
        <3>3. QED
            BY <3>1, <3>2 DEF AllPools
    <2>3. Newborn(u, c)
        BY <2>1, <2>2 DEF Newborns
    <2>4. /\ c \in Pools /\ users'[c] = users[c] /\ reference_count'[c] = reference_count[c]
          /\ Children(c)' = {}
        BY <1>3, <2>3 DEF Newborn
    <2>5. ~HasCleanup(c)'
        BY <1>1, <2>3 DEF Newborn
    <2>6. QED
        BY <2>3, <2>4, <2>5 DEF Newborn
<1>4. QED
    BY <1>3 DEF Newborns

LEMMA OneLess ==
    ASSUME NEW S, NEW T, NEW x, IsFiniteSet(S), IsFiniteSet(T), S \ {x} \subseteq T
    PROVE  /\ Cardinality(S) \in Nat /\ Cardinality(T) \in Nat
           /\ Cardinality(S) <= Cardinality(T) + 1
<1>1. Cardinality(S) \in Nat /\ Cardinality(T) \in Nat
    BY FS_CardinalityType
<1>2. IsFiniteSet(S \ {x}) /\ Cardinality(S \ {x}) \in Nat /\ Cardinality(S \ {x}) <= Cardinality(T)
    BY FS_Subset, FS_CardinalityType
<1>3. CASE x \in S
    <2>1. Cardinality(S \ {x}) = Cardinality(S) - 1
        BY <1>3, FS_RemoveElement
    <2>2. QED
        BY <1>1, <1>2, <2>1
<1>4. CASE x \notin S
    <2>1. S \ {x} = S
        BY <1>4
    <2>2. QED
        BY <1>1, <1>2, <2>1
<1>5. QED
    BY <1>1, <1>3, <1>4

(* One reference less on p, of a user or of a child, or none *)
LEMMA CountBelowKept ==
    ASSUME TypeOK, TypeOK', NEW p \in Pools, NEW x,
           reference_count[p] <= Cardinality(users[p]) + Cardinality(Counted(p)),
           \/ /\ reference_count'[p] = reference_count[p]
              /\ users[p] \subseteq users'[p] /\ Counted(p) \subseteq Counted(p)'
           \/ /\ reference_count'[p] = reference_count[p] - 1
              /\ users[p] \ {x} \subseteq users'[p] /\ Counted(p) \subseteq Counted(p)'
           \/ /\ reference_count'[p] = reference_count[p] - 1
              /\ users[p] \subseteq users'[p] /\ Counted(p) \ {x} \subseteq Counted(p)'
    PROVE  reference_count'[p] <= Cardinality(users'[p]) + Cardinality(Counted(p)')
<1>1. /\ IsFiniteSet(users[p]) /\ IsFiniteSet(Counted(p)) /\ reference_count[p] \in Int
      /\ IsFiniteSet(users'[p]) /\ IsFiniteSet(Counted(p)') /\ reference_count'[p] \in Int
    <2>1. p \in AllPools
        BY DEF AllPools
    <2>2. IsFiniteSet(users[p]) /\ IsFiniteSet(Counted(p)) /\ reference_count[p] \in Int
        BY <2>1, CountsFinite DEF TypeOK
    <2>3. IsFiniteSet(users'[p]) /\ reference_count'[p] \in Int
        <3>1. users'[p] \subseteq Threads \cup AllPools /\ reference_count'[p] \in Int
            BY <2>1 DEF TypeOK
        <3>2. IsFiniteSet(AllPools) /\ IsFiniteSet(Threads \cup AllPools)
            BY <2>1, CountsFinite, FS_Union
        <3>3. QED
            BY <3>1, <3>2, FS_Subset
    <2>4. IsFiniteSet(Counted(p)')
        <3>1. Counted(p)' \subseteq Pools
            BY DEF Counted, Children
        <3>2. QED
            BY <3>1, FS_Subset
    <2>5. QED
        BY <2>2, <2>3, <2>4
<1>2. PICK S, S2, C, C2 : S = users[p] /\ S2 = users'[p] /\ C = Counted(p) /\ C2 = Counted(p)'
    OBVIOUS
<1>3. /\ Cardinality(S) \in Nat /\ Cardinality(S2) \in Nat
      /\ Cardinality(C) \in Nat /\ Cardinality(C2) \in Nat
      /\ S \ {x} \subseteq S2 => Cardinality(S) <= Cardinality(S2) + 1
      /\ C \ {x} \subseteq C2 => Cardinality(C) <= Cardinality(C2) + 1
      /\ S \subseteq S2 => Cardinality(S) <= Cardinality(S2)
      /\ C \subseteq C2 => Cardinality(C) <= Cardinality(C2)
    BY <1>1, <1>2, OneLess, FS_Subset, FS_CardinalityType
<1>4. QED
    BY <1>1, <1>2, <1>3

(* A step in a call that frees nothing *)
LEMMA DueGoesOn ==
    ASSUME TreeInv, TreeInv', Due, NEW t \in Threads, GoOn(t), ~Free(t), broken' = "no"
    PROVE  Due'
<1>1. /\ WorksOn(t) /\ ~Idle(t) /\ Top(t) \in Frames /\ Live(Top(t).pool)
      /\ Top(t) = calls[t][1] /\ 1 \in 1..Len(calls[t])
    BY WorkGoesOn
<1>2. UNCHANGED <<memory, lineage, parent, first_cleanup>>
    BY DEF GoOn, AddChild, LinkChild, RunCleanup, DestroyChild, ChildrenGone, Search, NotAChild,
           Unlink, ReleaseParent, UseFreed, structVars
<1>3. ASSUME ReleaseParent(t)
      PROVE  \E c, up \in AllPools :
                 /\ c = Top(t).pool /\ up = parent[c] /\ c \in Children(up) /\ users' = users
                 /\ reference_count' = [reference_count EXCEPT ![up] = reference_count[up] - 1]
                 /\ Continue(t, DestroyAtZero(up), [Top(t) EXCEPT !.at = "free"])
    <2>1. At(t, "parent")
        BY <1>3 DEF ReleaseParent
    <2>2. Top(t).pool \in Pools /\ parent[Top(t).pool] \in AllPools
        BY <2>1, InListHasParent DEF TreeInv
    <2>3. QED
        BY <1>1, <1>3, <2>2 DEF ReleaseParent, Decrement, Children, AllPools
<1>4. ASSUME RunCleanup(t)
      PROVE  \E q \in Top(t).left :
                 /\ q \in Pools /\ HasCleanup(q)
                 /\ users' = [users EXCEPT ![q] = users[q] \ {Top(t).pool}]
                 /\ reference_count' = [reference_count EXCEPT ![q] = reference_count[q] - 1]
                 /\ Continue(t, DestroyAtZero(q), [Top(t) EXCEPT !.left = @ \ {q}])
    <2>1. Top(t).left \subseteq Pools
        BY <1>1 DEF Frames
    <2>2. \A q \in Top(t).left : HasCleanup(q)
        BY <1>1 DEF HasCleanup
    <2>3. QED
        BY <1>4, <2>1, <2>2 DEF RunCleanup, LetGo, Decrement
<1>5. ~ReleaseParent(t) /\ ~RunCleanup(t) => UNCHANGED <<users, reference_count>>
    BY DEF GoOn, AddChild, LinkChild, RunCleanup, DestroyChild, ChildrenGone, Search, NotAChild,
           Unlink, ReleaseParent, UseFreed, countVars
<1>6. (\A p : Live(p)' <=> Live(p)) /\ (\A p : Children(p)' = Children(p))
    BY <1>2 DEF Live, Children
<1>7. \A p \in AllPools : \A c : c \in Counted(p) /\ (~ReleaseParent(t) \/ c # Top(t).pool) => c \in Counted(p)'
    BY <1>1, <1>2, CountedGrows
<1>8. TypeOK /\ TypeOK' /\ users \in [AllPools -> SUBSET (Threads \cup AllPools)]
      /\ reference_count \in [AllPools -> Int]
    BY DEF TreeInv, TypeOK
<1>9. CountBelow'
    <2>1. SUFFICES ASSUME NEW p \in Pools, Live(p)
                   PROVE  reference_count'[p] <= Cardinality(users'[p]) + Cardinality(Counted(p)')
        BY <1>6 DEF CountBelow
    <2>2. reference_count[p] <= Cardinality(users[p]) + Cardinality(Counted(p)) /\ p \in AllPools
        BY <2>1 DEF Due, CountBelow, AllPools
    <2>3. CASE ReleaseParent(t)
        <3>1. PICK c, up \in AllPools :
                 /\ c = Top(t).pool /\ up = parent[c] /\ c \in Children(up) /\ users' = users
                 /\ reference_count' = [reference_count EXCEPT ![up] = reference_count[up] - 1]
            BY <1>3, <2>3
        <3>2. CASE p = up
            <4>1. /\ reference_count'[p] = reference_count[p] - 1 /\ users[p] \subseteq users'[p]
                  /\ Counted(p) \ {c} \subseteq Counted(p)'
                BY <1>7, <1>8, <2>2, <3>1, <3>2
            <4>2. QED
                BY <1>8, <2>2, <4>1, CountBelowKept
        <3>3. CASE p # up
            <4>1. /\ reference_count'[p] = reference_count[p] /\ users[p] \subseteq users'[p]
                BY <1>8, <2>2, <3>1, <3>3
            <4>2. c \notin Counted(p)
                BY <3>1, <3>3 DEF Counted, Children
            <4>3. Counted(p) \subseteq Counted(p)'
                BY <1>7, <2>2, <3>1, <4>2
            <4>4. QED
                BY <1>8, <2>2, <4>1, <4>3, CountBelowKept
        <3>4. QED
            BY <3>2, <3>3
    <2>4. CASE RunCleanup(t)
        <3>1. PICK q \in Pools :
                 /\ users' = [users EXCEPT ![q] = users[q] \ {Top(t).pool}]
                 /\ reference_count' = [reference_count EXCEPT ![q] = reference_count[q] - 1]
            BY <1>4, <2>4
        <3>2. Counted(p) \subseteq Counted(p)'
            <4>1. ~ReleaseParent(t)
                BY <2>4 DEF RunCleanup, ReleaseParent, At
            <4>2. QED
                BY <1>7, <2>2, <4>1
        <3>3. PICK x : x = Top(t).pool
            OBVIOUS
        <3>4. \/ reference_count'[p] = reference_count[p] /\ users[p] \subseteq users'[p]
              \/ reference_count'[p] = reference_count[p] - 1 /\ users[p] \ {x} \subseteq users'[p]
            BY <1>8, <2>2, <3>1, <3>3
        <3>5. QED
            BY <1>8, <2>2, <3>2, <3>4, CountBelowKept
    <2>5. CASE ~ReleaseParent(t) /\ ~RunCleanup(t)
        <3>1. /\ reference_count'[p] = reference_count[p] /\ users[p] \subseteq users'[p]
              /\ Counted(p) \subseteq Counted(p)'
            BY <1>5, <1>7, <2>2, <2>5
        <3>2. QED
            BY <1>8, <2>2, <3>1, CountBelowKept
    <2>6. QED
        BY <2>3, <2>4, <2>5
<1>10. \A u \in Threads : \A a \in AtWork(u) : a \in AtWork(u)' \/ (a = Top(t).pool /\ LinkChild(t))
    BY <1>1 DEF WorksOn
<1>11. ASSUME NEW q \in AllPools, NEW f \in Frames, Continue(t, DestroyAtZero(q), f), reference_count[q] = 1
       PROVE  q \in AtWork(t)'
    <2>1. PICK g \in Frames : g = Frame(q, "destroy") /\ g.pool = q
        BY <1>8, FrameIsFrame DEF Places
    <2>2. Continue(t, <<g>>, f)
        BY <1>11, <2>1 DEF DestroyAtZero
    <2>3. calls'[t][1] = g /\ Len(calls'[t]) = Len(calls[t]) + 1 /\ Len(calls[t]) \in Nat
        BY <1>1, <1>8, <2>2, TopCalls, StackTyped
    <2>4. 1 \in 1..Len(calls'[t]) /\ calls'[t][1].pool = q
        BY <2>1, <2>3
    <2>5. QED
        BY <2>4 DEF AtWork
<1>12. ASSUME NEW p \in AllPools, reference_count'[p] # reference_count[p]
       PROVE  /\ reference_count'[p] = reference_count[p] - 1
              /\ reference_count[p] = 1 => p \in AtWork(t)'
    <2>1. CASE ReleaseParent(t)
        <3>1. PICK up \in AllPools :
                 /\ reference_count' = [reference_count EXCEPT ![up] = reference_count[up] - 1]
                 /\ Continue(t, DestroyAtZero(up), [Top(t) EXCEPT !.at = "free"])
            BY <1>3, <2>1
        <3>2. [Top(t) EXCEPT !.at = "free"] \in Frames
            BY <1>1 DEF Frames, Places
        <3>3. p = up
            BY <1>8, <1>12, <3>1
        <3>4. QED
            BY <1>8, <1>11, <3>1, <3>2, <3>3
    <2>2. CASE RunCleanup(t)
        <3>1. PICK q \in Top(t).left :
                 /\ q \in Pools
                 /\ reference_count' = [reference_count EXCEPT ![q] = reference_count[q] - 1]
                 /\ Continue(t, DestroyAtZero(q), [Top(t) EXCEPT !.left = @ \ {q}])
            BY <1>4, <2>2
        <3>2. [Top(t) EXCEPT !.left = @ \ {q}] \in Frames
            BY <1>1 DEF Frames
        <3>3. p = q
            BY <1>8, <1>12, <3>1
        <3>4. QED
            BY <1>8, <1>11, <3>1, <3>2, <3>3
    <2>3. QED
        BY <1>5, <1>12, <2>1, <2>2
<1>13. ZeroDestroyed'
    <2>1. SUFFICES ASSUME NEW p \in Pools, Live(p), ~(reference_count'[p] >= 1)
                   PROVE  \E u \in Threads : p \in AtWork(u)'
        BY <1>6 DEF ZeroDestroyed
    <2>2. /\ reference_count[p] >= 1 \/ \E u \in Threads : p \in AtWork(u)
          /\ p \in AllPools /\ reference_count[p] \in Int
        BY <1>8, <2>1 DEF Due, ZeroDestroyed, AllPools
    <2>3. CASE reference_count[p] >= 1
        BY <1>12, <2>1, <2>2, <2>3
    <2>4. CASE ~(reference_count[p] >= 1)
        <3>1. PICK u \in Threads : p \in AtWork(u)
            BY <2>2, <2>4
        <3>2. ASSUME p = Top(t).pool, LinkChild(t) PROVE FALSE
            <4>1. Top(t).at = "link"
                BY <3>2, WorkGoesOn
            <4>2. Newborn(t, p)
                BY <1>1, <2>1, <2>2, <3>2, <4>1 DEF Due, Newborns
            <4>3. QED
                BY <2>4, <4>2 DEF Newborn
        <3>3. QED
            BY <1>10, <3>1, <3>2
    <2>5. QED
        BY <2>3, <2>4
<1>14. UsersHaveCleanup'
    <2>1. ASSUME NEW p \in Pools, NEW q \in Pools, p \in users'[q] PROVE p \in users[q]
        <3>1. CASE RunCleanup(t)
            <4>1. PICK r \in Pools : users' = [users EXCEPT ![r] = users[r] \ {Top(t).pool}]
                BY <1>4, <3>1
            <4>2. users'[q] \subseteq users[q]
                BY <1>8, <4>1 DEF AllPools
            <4>3. QED
                BY <2>1, <4>2
        <3>2. CASE ReleaseParent(t)
            BY <1>3, <2>1, <3>2
        <3>3. QED
            BY <1>5, <2>1, <3>1, <3>2
    <2>2. QED
        BY <1>2, <1>6, <2>1 DEF Due, UsersHaveCleanup
<1>15. Newborns'
    <2>1. ASSUME NEW c \in Pools, Children(c) = {}, ~HasCleanup(c)
          PROVE  users'[c] = users[c] /\ reference_count'[c] = reference_count[c]
        <3>1. c \in AllPools
            BY DEF AllPools
        <3>2. CASE RunCleanup(t)
            <4>1. PICK q \in Pools :
                     /\ HasCleanup(q)
                     /\ users' = [users EXCEPT ![q] = users[q] \ {Top(t).pool}]
                     /\ reference_count' = [reference_count EXCEPT ![q] = reference_count[q] - 1]
                BY <1>4, <3>2
            <4>2. c # q
                BY <2>1, <4>1
            <4>3. QED
                BY <1>8, <3>1, <4>1, <4>2
        <3>3. CASE ReleaseParent(t)
            <4>1. PICK up \in AllPools :
                     /\ Children(up) # {} /\ users' = users
                     /\ reference_count' = [reference_count EXCEPT ![up] = reference_count[up] - 1]
                BY <1>3, <3>3
            <4>2. c # up
                BY <2>1, <4>1
            <4>3. QED
                BY <1>8, <3>1, <4>1, <4>2
        <3>4. QED
            BY <1>5, <3>2, <3>3
    <2>2. /\ \A p \in AllPools : first_cleanup'[p] \subseteq first_cleanup[p]
          /\ \A c \in Pools : Live(c)' => Live(c) /\ Children(c)' \subseteq Children(c)
        BY <1>2, <1>6
    <2>3. \A c \in Pools : Live(c)' /\ Children(c) = {} /\ ~HasCleanup(c) =>
               users'[c] = users[c] /\ reference_count'[c] = reference_count[c]
        BY <2>1
    <2>4. Newborns
        BY DEF Due
    <2>5. QED
        BY <1>1, <2>2, <2>3, <2>4, NewbornsGoOn
<1>16. QED
    BY <1>9, <1>13, <1>14, <1>15 DEF Due

(* What is freed takes its frames and its references with it. *)
LEMMA DueFreed ==
    ASSUME TreeInv, TreeInv', Due, NEW t \in Threads, Free(t)
    PROVE  Due'
<1>1. GoOn(t) /\ broken' = "no"
    BY DEF GoOn, Free, At
<1>2. /\ WorksOn(t) /\ ~Idle(t) /\ Top(t) = calls[t][1] /\ 1 \in 1..Len(calls[t])
      /\ Top(t).at = "free"
    BY <1>1, WorkGoesOn DEF Free, At
<1>3. PICK r \in AllPools :
          /\ r = Top(t).pool
          /\ \A q \in AllPools : Live(q)' <=> Live(q) /\ q \notin Under(r)
          /\ \A q \in AllPools : q \notin Under(r) =>
                /\ parent'[q] = parent[q] /\ users'[q] = users[q]
                /\ first_cleanup'[q] = first_cleanup[q]
                /\ reference_count'[q] = reference_count[q]
          /\ \A q \in Under(r) : first_cleanup'[q] = {} /\ parent'[q] = NoPool
          /\ r \in Pools => r \in Under(r)
    BY WhatIsFreed DEF TreeInv
<1>4. ~ReleaseParent(t) /\ ~LinkChild(t)
    BY <1>2 DEF ReleaseParent, LinkChild, At
<1>5. ASSUME NEW p \in AllPools, NEW c \in Children(p)'
      PROVE  c \in Children(p)
    <2>1. c \in Pools /\ c \in AllPools /\ Live(c)' /\ parent'[c] = p
        BY DEF Children, AllPools
    <2>2. Live(c) /\ parent[c] = p
        BY <1>3, <2>1
    <2>3. QED
        BY <2>1, <2>2 DEF Children
<1>6. ASSUME NEW p \in Pools, Live(p)'
      PROVE  /\ p \in AllPools /\ Live(p) /\ p \notin Under(r) /\ p # r /\ users'[p] = users[p]
             /\ first_cleanup'[p] = first_cleanup[p] /\ reference_count'[p] = reference_count[p]
    BY <1>3, <1>6 DEF AllPools
<1>7. ASSUME NEW p \in Pools, Live(p)', NEW c \in Counted(p)
      PROVE  c \in Counted(p)'
    <2>1. c \in Children(p) /\ Stands(c, Places \ {"free"})
        BY DEF Counted
    <2>2. p \in AllPools /\ Live(p) /\ p \notin Under(r)
        BY <1>6, <1>7
    <2>3. /\ c \in Pools /\ Live(c) /\ parent[c] = p /\ lineage[c] = lineage[p] \cup {c} /\ c \in AllPools
        BY <2>1, <2>2, ChildBelow DEF TreeInv, AllPools
    <2>4. c # r
        BY <1>2, <1>3, <2>1 DEF Stands
    <2>5. c \notin Under(r)
        BY <1>7, <2>2, <2>3, <2>4 DEF Under
    <2>6. c \in Children(p)'
        BY <1>3, <2>3, <2>5 DEF Children
    <2>7. ASSUME NEW u \in Threads, NEW i \in 1..Len(calls'[u]), calls'[u][i].pool = c
          PROVE  calls'[u][i].at \in Places \ {"free"}
        <3>1. CASE \E k \in 1..Len(calls[u]) : calls'[u][i] = calls[u][k]
            BY <2>1, <2>7, <3>1 DEF Stands
        <3>2. CASE Goes(t, calls'[u][i])
            BY <1>3, <2>4, <2>7, <3>2 DEF Goes
        <3>3. CASE Starts(calls'[u][i])
            BY <3>3 DEF Starts, Places
        <3>4. QED
            BY <1>2, <3>1, <3>2, <3>3 DEF WorksOn
    <2>8. QED
        BY <2>6, <2>7 DEF Counted, Stands
<1>8. CountBelow'
    <2>1. SUFFICES ASSUME NEW p \in Pools, Live(p)'
                   PROVE  reference_count'[p] <= Cardinality(users'[p]) + Cardinality(Counted(p)')
        BY DEF CountBelow
    <2>2. reference_count[p] <= Cardinality(users[p]) + Cardinality(Counted(p))
        BY <1>6, <2>1 DEF Due, CountBelow
    <2>3. /\ reference_count'[p] = reference_count[p] /\ users[p] \subseteq users'[p]
          /\ Counted(p) \subseteq Counted(p)'
        BY <1>6, <1>7, <2>1
    <2>4. TypeOK /\ TypeOK'
        BY DEF TreeInv
    <2>5. QED
        BY <2>2, <2>3, <2>4, CountBelowKept
<1>9. ZeroDestroyed'
    <2>1. SUFFICES ASSUME NEW p \in Pools, Live(p)'
                   PROVE  reference_count'[p] >= 1 \/ \E u \in Threads : p \in AtWork(u)'
        BY DEF ZeroDestroyed
    <2>2. reference_count[p] >= 1 \/ \E u \in Threads : p \in AtWork(u)
        BY <1>6, <2>1 DEF Due, ZeroDestroyed
    <2>3. \A u \in Threads : p \in AtWork(u) => p \in AtWork(u)'
        BY <1>2, <1>3, <1>6, <2>1 DEF WorksOn
    <2>4. QED
        BY <1>6, <2>1, <2>2, <2>3
<1>10. UsersHaveCleanup'
    <2>1. SUFFICES ASSUME NEW p \in Pools, NEW q \in Pools, Live(p)', p \in users'[q]
                   PROVE  q \in first_cleanup'[p]
        BY DEF UsersHaveCleanup
    <2>2. p \in users[q]
        <3>1. q \in AllPools
            BY DEF AllPools
        <3>2. q \in Under(r) => users'[q] = {}
            BY <1>3, WhatIsFreed DEF TreeInv
        <3>3. QED
            BY <1>3, <2>1, <3>1, <3>2
    <2>3. QED
        BY <1>6, <2>1, <2>2 DEF Due, UsersHaveCleanup
<1>11. Newborns'
    <2>1. \A p \in AllPools : first_cleanup'[p] \subseteq first_cleanup[p]
        BY <1>3
    <2>2. \A c \in Pools : Live(c)' => Live(c) /\ Children(c)' \subseteq Children(c)
        BY <1>5, <1>6
    <2>3. \A c \in Pools : Live(c)' /\ Children(c) = {} /\ ~HasCleanup(c) =>
               users'[c] = users[c] /\ reference_count'[c] = reference_count[c]
        BY <1>6
    <2>4. Newborns
        BY DEF Due
    <2>5. QED
        BY <1>2, <2>1, <2>2, <2>3, <2>4, NewbornsGoOn
<1>12. QED
    BY <1>8, <1>9, <1>10, <1>11 DEF Due

(* A thread that is in no call begins one, or makes one that is a single step. *)
Begins(t, f) ==
    /\ \A u \in Threads : \A i \in 1..Len(calls'[u]) :
          (\E k \in 1..Len(calls[u]) : calls'[u][i] = calls[u][k]) \/ (u = t /\ calls'[u][i] = f)
    /\ \A u \in Threads : AtWork(u) \subseteq AtWork(u)'

LEMMA WorkBegun ==
    ASSUME TypeOK, NEW t \in Threads, Idle(t), NEW f \in Frames,
           calls' = calls \/ calls' = [calls EXCEPT ![t] = <<f>>]
    PROVE  /\ Begins(t, f)
           /\ calls' = [calls EXCEPT ![t] = <<f>>] => f.pool \in AtWork(t)'
<1>1. AtWork(t) = {}
    BY AtWorkIs
<1>2. ASSUME calls' = calls PROVE Begins(t, f)
    BY <1>2 DEF Begins, AtWork
<1>3. CASE calls' = [calls EXCEPT ![t] = <<f>>]
    <2>1. /\ Len(calls'[t]) = 1 /\ calls'[t][1] = f
          /\ \A u \in Threads \ {t} : calls'[u] = calls[u]
        BY <1>3, CallBegins
    <2>2. \A u \in Threads \ {t} : AtWork(u)' = AtWork(u)
        BY <2>1 DEF AtWork
    <2>3. f.pool \in AtWork(t)'
        BY <2>1 DEF AtWork
    <2>4. QED
        BY <1>1, <2>1, <2>2, <2>3 DEF Begins
<1>4. QED
    <2>1. CASE calls' = [calls EXCEPT ![t] = <<f>>]
        BY <1>3, <2>1
    <2>2. CASE calls' # [calls EXCEPT ![t] = <<f>>]
        BY <1>2, <2>2
    <2>3. QED
        BY <2>1, <2>2

LEMMA BegunCounted ==
    ASSUME TypeOK', NEW t \in Threads, NEW f, Begins(t, f), f.at # "free", NEW p, NEW c,
           c \in Children(p)', Stands(c, Places \ {"free"})
    PROVE  c \in Counted(p)'
<1>1. ASSUME NEW u \in Threads, NEW i \in 1..Len(calls'[u]), calls'[u][i].pool = c
      PROVE  calls'[u][i].at \in Places \ {"free"}
    <2>1. calls'[u] \in Seq(Frames)
        BY DEF TypeOK
    <2>2. calls'[u][i] \in Frames
        BY <2>1
    <2>3. calls'[u][i].at \in Places
        BY <2>2 DEF Frames
    <2>4. CASE \E k \in 1..Len(calls[u]) : calls'[u][i] = calls[u][k]
        BY <1>1, <2>4 DEF Stands
    <2>5. CASE calls'[u][i] = f
        BY <2>3, <2>5
    <2>6. QED
        BY <2>4, <2>5 DEF Begins
<1>2. QED
    BY <1>1 DEF Counted, Stands

(* A thread that is in no call changes who uses q, or begins its destroy. *)
LEMMA DueBegins ==
    ASSUME TreeInv, TreeInv', Due, NEW t \in Threads, Idle(t), NEW q \in Pools,
           t \in users[q] \/ HasCleanup(q),
           UNCHANGED <<memory, lineage, parent>>,
           calls' = calls \/ calls' = [calls EXCEPT ![t] = <<Frame(q, "destroy")>>],
           \A p \in AllPools : p # q =>
               users'[p] = users[p] /\ reference_count'[p] = reference_count[p],
           reference_count'[q] + Cardinality(users[q]) <= reference_count[q] + Cardinality(users'[q]),
           reference_count[q] >= 1 =>
               \/ reference_count'[q] >= 1
               \/ calls' = [calls EXCEPT ![t] = <<Frame(q, "destroy")>>],
           UsersHaveCleanup',
           \A p \in AllPools : first_cleanup'[p] \subseteq first_cleanup[p] \cup {q}
    PROVE  Due'
<1>1. PICK f \in Frames : f = Frame(q, "destroy") /\ f.pool = q /\ f.at = "destroy" /\ f.left = first_cleanup[q]
    BY FrameIsFrame DEF TreeInv, Places, AllPools
<1>2. /\ Begins(t, f) /\ q \in AllPools /\ TypeOK /\ TypeOK'
      /\ calls' = [calls EXCEPT ![t] = <<f>>] => q \in AtWork(t)'
    BY <1>1, WorkBegun DEF TreeInv, AllPools
<1>3. (\A p : Live(p)' <=> Live(p)) /\ (\A p : Children(p)' = Children(p))
    BY DEF Live, Children
<1>4. \A p \in AllPools : Counted(p) \subseteq Counted(p)'
    <2>1. ASSUME NEW p \in AllPools, NEW c \in Counted(p) PROVE c \in Counted(p)'
        <3>1. c \in Children(p)' /\ Stands(c, Places \ {"free"})
            BY <1>3 DEF Counted
        <3>2. QED
            BY <1>1, <1>2, <3>1, BegunCounted
    <2>2. QED
        BY <2>1
<1>5. CountBelow'
    <2>1. SUFFICES ASSUME NEW p \in Pools, Live(p)
                   PROVE  reference_count'[p] <= Cardinality(users'[p]) + Cardinality(Counted(p)')
        BY <1>3 DEF CountBelow
    <2>2. /\ reference_count[p] <= Cardinality(users[p]) + Cardinality(Counted(p))
          /\ p \in AllPools /\ Counted(p) \subseteq Counted(p)'
        BY <1>4, <2>1 DEF Due, CountBelow, AllPools
    <2>3. CASE p # q
        BY <1>2, <2>2, <2>3, CountBelowKept
    <2>4. CASE p = q
        <3>1. /\ Cardinality(users[q]) \in Nat /\ Cardinality(Counted(q)) \in Nat
              /\ reference_count[q] \in Int /\ reference_count'[q] \in Int
            BY <1>2, CountsFinite DEF TypeOK
        <3>2. IsFiniteSet(Counted(q)') /\ Cardinality(Counted(q)') \in Nat
            <4>1. Counted(q)' \subseteq Pools
                BY DEF Counted, Children
            <4>2. QED
                BY <4>1, FS_Subset, FS_CardinalityType
        <3>3. Cardinality(users'[q]) \in Nat
            <4>1. users'[q] \subseteq Threads \cup AllPools
                BY <1>2 DEF TypeOK
            <4>2. IsFiniteSet(AllPools) /\ IsFiniteSet(Threads \cup AllPools)
                BY <1>2, CountsFinite, FS_Union
            <4>3. QED
                BY <4>1, <4>2, FS_Subset, FS_CardinalityType
        <3>4. Cardinality(Counted(q)) <= Cardinality(Counted(q)')
            BY <2>2, <2>4, <3>2, FS_Subset
        <3>5. PICK a \in Int, b \in Int : a = reference_count[q] /\ b = reference_count'[q]
            BY <3>1
        <3>6. PICK c \in Int, d \in Int : c = Cardinality(users[q]) /\ d = Cardinality(users'[q])
            BY <3>1, <3>3
        <3>7. PICK e \in Int, g \in Int : e = Cardinality(Counted(q)) /\ g = Cardinality(Counted(q)')
            BY <3>1, <3>2
        <3>8. a <= c + e /\ b + c <= a + d /\ e <= g
            BY <2>2, <2>4, <3>4, <3>5, <3>6, <3>7
        <3>9. b <= d + g
            BY <3>8
        <3>10. QED
            BY <2>4, <3>5, <3>6, <3>7, <3>9
    <2>5. QED
        BY <2>3, <2>4
<1>6. ZeroDestroyed'
    <2>1. SUFFICES ASSUME NEW p \in Pools, Live(p)
                   PROVE  reference_count'[p] >= 1 \/ \E u \in Threads : p \in AtWork(u)'
        BY <1>3 DEF ZeroDestroyed
    <2>2. p \in AllPools /\ (reference_count[p] >= 1 \/ \E u \in Threads : p \in AtWork(u))
        BY <2>1 DEF Due, ZeroDestroyed, AllPools
    <2>3. CASE \E u \in Threads : p \in AtWork(u)
        BY <1>2, <2>3 DEF Begins
    <2>4. CASE reference_count[p] >= 1 /\ p # q
        BY <2>2, <2>4
    <2>5. CASE reference_count[p] >= 1 /\ p = q
        BY <1>1, <1>2, <2>5
    <2>6. QED
        BY <2>2, <2>3, <2>4, <2>5
<1>7. Newborns'
    <2>1. SUFFICES ASSUME NEW u \in Threads, NEW i \in 1..Len(calls'[u]), NEW c \in AllPools,
                          calls'[u][i].pool = c, calls'[u][i].at \in {"first", "link"}, Live(c)
                   PROVE  Newborn(u, c)'
        BY <1>3 DEF Newborns
    <2>2. PICK k \in 1..Len(calls[u]) : calls'[u][i] = calls[u][k]
        BY <1>1, <1>2, <2>1 DEF Begins
    <2>3. Newborn(u, c)
        BY <2>1, <2>2 DEF Due, Newborns
    <2>4. u # t
        <3>1. 1..Len(calls[t]) = {}
            BY <1>2, StackTyped
        <3>2. QED
            BY <2>2, <3>1
    <2>5. t \notin users[c] /\ ~HasCleanup(c) /\ c # q
        BY <2>3, <2>4 DEF Newborn
    <2>6. ~HasCleanup(c)'
        <3>1. \A p \in AllPools : c \notin first_cleanup'[p]
            BY <2>5 DEF HasCleanup
        <3>2. ASSUME NEW v \in Threads, NEW j \in 1..Len(calls'[v]) PROVE c \notin calls'[v][j].left
            <4>1. CASE \E m \in 1..Len(calls[v]) : calls'[v][j] = calls[v][m]
                BY <2>5, <4>1 DEF HasCleanup
            <4>2. CASE calls'[v][j] = f
                BY <1>1, <1>2, <2>5, <4>2 DEF HasCleanup
            <4>3. QED
                BY <1>2, <4>1, <4>2 DEF Begins
        <3>3. QED
            BY <3>1, <3>2 DEF HasCleanup
    <2>7. users'[c] = users[c] /\ reference_count'[c] = reference_count[c] /\ Children(c)' = Children(c)
        BY <1>3, <2>1, <2>5
    <2>8. QED
        BY <2>3, <2>6, <2>7 DEF Newborn
<1>8. QED
    BY <1>5, <1>6, <1>7 DEF Due

LEMMA Swapped ==
    ASSUME NEW S, IsFiniteSet(S), NEW x, NEW y, y \notin S
    PROVE  /\ Cardinality(S) \in Nat /\ Cardinality((S \ {x}) \cup {y}) \in Nat
           /\ Cardinality(S) <= Cardinality((S \ {x}) \cup {y})
<1>1. IsFiniteSet(S \ {x}) /\ Cardinality(S \ {x}) \in Nat /\ Cardinality(S) \in Nat
    BY FS_Subset, FS_CardinalityType
<1>2. Cardinality(S) <= Cardinality(S \ {x}) + 1
    BY <1>1, OneLess
<1>3. Cardinality((S \ {x}) \cup {y}) = Cardinality(S \ {x}) + 1
    BY <1>1, FS_AddElement
<1>4. QED
    BY <1>1, <1>2, <1>3

LEMMA DueShared ==
    ASSUME TreeInv, TreeInv', Due, NEW t \in Threads, NEW p \in Pools, NEW q \in Pools, NEW u \in Threads,
           \/ AddReference(t, u, q) \/ Release(t, q) \/ Destroy(t, q)
           \/ RegisterCleanup(t, p, q) \/ DeregisterCleanup(t, p, q)
    PROVE  Due'
<1>1. /\ Idle(t) /\ q \in AllPools /\ p \in AllPools /\ p \notin Threads /\ t \notin Pools /\ u \notin Pools
      /\ users \in [AllPools -> SUBSET (Threads \cup AllPools)]
      /\ reference_count \in [AllPools -> Int] /\ first_cleanup \in [AllPools -> SUBSET Pools]
    BY DEF AddReference, Release, Destroy, RegisterCleanup, DeregisterCleanup, Uses, TreeInv, TypeOK, AllPools
<1>2. UNCHANGED <<memory, lineage, parent>>
    BY DEF AddReference, Release, Destroy, RegisterCleanup, DeregisterCleanup, structVars
<1>3. \A a : Live(a)' <=> Live(a)
    BY <1>2 DEF Live
<1>4. IsFiniteSet(users[q]) /\ Cardinality(users[q]) \in Nat /\ reference_count[q] \in Int
    BY <1>1, CountsFinite DEF TreeInv
<1>5. UsersHaveCleanup
    BY DEF Due
<1>6. CASE AddReference(t, u, q)
    <2>1. /\ t \in users[q] /\ u \notin users[q] /\ calls' = calls /\ first_cleanup' = first_cleanup
          /\ reference_count' = [reference_count EXCEPT ![q] = reference_count[q] + 1]
          /\ users' = [users EXCEPT ![q] = users[q] \cup {u}]
        BY <1>1, <1>6 DEF AddReference, Uses, structVars
    <2>2. Cardinality(users'[q]) = Cardinality(users[q]) + 1
        <3>1. users'[q] = users[q] \cup {u}
            BY <1>1, <2>1
        <3>2. Cardinality(users[q] \cup {u}) = Cardinality(users[q]) + 1
            BY ONLY <1>4, <2>1, FS_AddElement
        <3>3. QED
            BY <3>1, <3>2
    <2>3. reference_count'[q] = reference_count[q] + 1
        BY <1>1, <2>1
    <2>4. /\ reference_count'[q] + Cardinality(users[q]) <= reference_count[q] + Cardinality(users'[q])
          /\ reference_count[q] >= 1 => reference_count'[q] >= 1
        BY <1>4, <2>2, <2>3
    <2>5. UsersHaveCleanup'
        <3>1. \A b \in Pools : \A a \in Pools : a \in users'[b] => a \in users[b]
            BY <1>1, <2>1 DEF AllPools
        <3>2. QED
            BY <1>3, <1>5, <2>1, <3>1 DEF UsersHaveCleanup
    <2>6. \A a \in AllPools : a # q => users'[a] = users[a] /\ reference_count'[a] = reference_count[a]
        BY <1>1, <2>1
    <2>7. QED
        BY <1>1, <1>2, <2>1, <2>4, <2>5, <2>6, DueBegins
<1>7. CASE Release(t, q)
    <2>1. /\ t \in users[q] /\ first_cleanup' = first_cleanup
          /\ reference_count' = [reference_count EXCEPT ![q] = reference_count[q] - 1]
          /\ users' = [users EXCEPT ![q] = users[q] \ {t}]
          /\ calls' = [calls EXCEPT ![t] = DestroyAtZero(q)]
        BY <1>1, <1>7 DEF Release, Decrement, LetGo, Uses, structVars
    <2>2. calls' = calls \/ calls' = [calls EXCEPT ![t] = <<Frame(q, "destroy")>>]
        <3>1. [calls EXCEPT ![t] = <<>>] = calls
            BY <1>1 DEF Idle, TreeInv, TypeOK
        <3>2. QED
            BY <2>1, <3>1 DEF DestroyAtZero
    <2>3. reference_count[q] = 1 => calls' = [calls EXCEPT ![t] = <<Frame(q, "destroy")>>]
        BY <2>1 DEF DestroyAtZero
    <2>4. Cardinality(users'[q]) = Cardinality(users[q]) - 1
        BY <1>1, <1>4, <2>1, FS_RemoveElement
    <2>5. reference_count'[q] = reference_count[q] - 1
        BY <1>1, <2>1
    <2>6. reference_count'[q] + Cardinality(users[q]) <= reference_count[q] + Cardinality(users'[q])
        BY <1>4, <2>4, <2>5
    <2>7. reference_count[q] >= 1 =>
               \/ reference_count'[q] >= 1
               \/ calls' = [calls EXCEPT ![t] = <<Frame(q, "destroy")>>]
        BY <1>4, <2>3, <2>5
    <2>8. UsersHaveCleanup'
        <3>1. \A b \in Pools : \A a \in Pools : a \in users'[b] => a \in users[b]
            BY <1>1, <2>1 DEF AllPools
        <3>2. QED
            BY <1>3, <1>5, <2>1, <3>1 DEF UsersHaveCleanup
    <2>9. \A a \in AllPools : a # q => users'[a] = users[a] /\ reference_count'[a] = reference_count[a]
        BY <1>1, <2>1
    <2>10. QED
        BY <1>1, <1>2, <2>1, <2>2, <2>6, <2>7, <2>8, <2>9, DueBegins
<1>8. CASE Destroy(t, q)
    <2>1. /\ t \in users[q] /\ UNCHANGED <<first_cleanup, reference_count, users>>
          /\ calls' = [calls EXCEPT ![t] = <<Frame(q, "destroy")>>]
        BY <1>1, <1>8 DEF Destroy, Uses, structVars, countVars
    <2>2. UsersHaveCleanup'
        BY <1>3, <1>5, <2>1 DEF UsersHaveCleanup
    <2>3. reference_count'[q] + Cardinality(users[q]) <= reference_count[q] + Cardinality(users'[q])
        BY <1>4, <2>1
    <2>4. QED
        BY <1>1, <1>2, <2>1, <2>2, <2>3, DueBegins
<1>9. CASE RegisterCleanup(t, p, q)
    <2>1. /\ t \in users[q] /\ Live(p) /\ q \notin first_cleanup[p] /\ UNCHANGED <<calls, reference_count>>
          /\ first_cleanup' = [first_cleanup EXCEPT ![p] = first_cleanup[p] \cup {q}]
          /\ users' = [users EXCEPT ![q] = (users[q] \ {t}) \cup {p}]
        BY <1>1, <1>9 DEF RegisterCleanup, Uses
    <2>2. p \notin users[q]
        BY <1>5, <2>1 DEF UsersHaveCleanup
    <2>3. Cardinality(users[q]) <= Cardinality(users'[q]) /\ Cardinality(users'[q]) \in Nat
        BY <1>1, <1>4, <2>1, <2>2, Swapped
    <2>4. reference_count'[q] + Cardinality(users[q]) <= reference_count[q] + Cardinality(users'[q])
        BY <1>4, <2>1, <2>3
    <2>5. UsersHaveCleanup'
        <3>1. SUFFICES ASSUME NEW a \in Pools, NEW b \in Pools, Live(a), a \in users'[b]
                       PROVE  b \in first_cleanup'[a]
            BY <1>3 DEF UsersHaveCleanup
        <3>2. a \in AllPools /\ b \in AllPools
            BY DEF AllPools
        <3>3. CASE a = p /\ b = q
            BY <1>1, <2>1, <3>3
        <3>4. CASE ~(a = p /\ b = q)
            <4>1. a \in users[b]
                BY <1>1, <2>1, <3>1, <3>2, <3>4
            <4>2. b \in first_cleanup[a]
                BY <1>5, <3>1, <4>1 DEF UsersHaveCleanup
            <4>3. QED
                BY <1>1, <2>1, <3>2, <4>2
        <3>5. QED
            BY <3>3, <3>4
    <2>6. \A a \in AllPools : a # q => users'[a] = users[a] /\ reference_count'[a] = reference_count[a]
        BY <1>1, <2>1
    <2>7. \A a \in AllPools : first_cleanup'[a] \subseteq first_cleanup[a] \cup {q}
        BY <1>1, <2>1
    <2>8. QED
        BY <1>1, <1>2, <2>1, <2>4, <2>5, <2>6, <2>7, DueBegins
<1>10. CASE DeregisterCleanup(t, p, q)
    <2>1. /\ t \notin users[q] /\ q \in first_cleanup[p] /\ UNCHANGED <<calls, reference_count>>
          /\ first_cleanup' = [first_cleanup EXCEPT ![p] = first_cleanup[p] \ {q}]
          /\ users' = [users EXCEPT ![q] = (users[q] \ {p}) \cup {t}]
        BY <1>1, <1>10 DEF DeregisterCleanup
    <2>2. HasCleanup(q)
        BY <1>1, <2>1 DEF HasCleanup
    <2>3. Cardinality(users[q]) <= Cardinality(users'[q]) /\ Cardinality(users'[q]) \in Nat
        BY <1>1, <1>4, <2>1, Swapped
    <2>4. reference_count'[q] + Cardinality(users[q]) <= reference_count[q] + Cardinality(users'[q])
        BY <1>4, <2>1, <2>3
    <2>5. UsersHaveCleanup'
        <3>1. SUFFICES ASSUME NEW a \in Pools, NEW b \in Pools, Live(a), a \in users'[b]
                       PROVE  b \in first_cleanup'[a]
            BY <1>3 DEF UsersHaveCleanup
        <3>2. a \in AllPools /\ b \in AllPools /\ a # t
            BY <1>1 DEF AllPools
        <3>3. a \in users[b] /\ ~(a = p /\ b = q)
            BY <1>1, <2>1, <3>1, <3>2
        <3>4. b \in first_cleanup[a]
            BY <1>5, <3>1, <3>3 DEF UsersHaveCleanup
        <3>5. QED
            BY <1>1, <2>1, <3>2, <3>3, <3>4
    <2>6. \A a \in AllPools : a # q => users'[a] = users[a] /\ reference_count'[a] = reference_count[a]
        BY <1>1, <2>1
    <2>7. \A a \in AllPools : first_cleanup'[a] \subseteq first_cleanup[a] \cup {q}
        BY <1>1, <2>1
    <2>8. QED
        BY <1>1, <1>2, <2>1, <2>2, <2>4, <2>5, <2>6, <2>7, DueBegins
<1>11. QED
    BY <1>6, <1>7, <1>8, <1>9, <1>10

(* A thread that is in no call creates a pool, which has a parent or has none. *)
Born(t, c, p) ==
    /\ p # NoPool => Live(p) /\ (p = Base \/ t \in users[p])
    /\ memory' = [memory EXCEPT ![c] = "live"]
    /\ parent' = [parent EXCEPT ![c] = p]
    /\ users' = [users EXCEPT ![c] = {t}]
    /\ first_cleanup' = first_cleanup
    /\ \A a \in AllPools :
          reference_count'[a] = IF a = c THEN 1
                                ELSE IF a = p THEN reference_count[a] + 1 ELSE reference_count[a]
    /\ calls' = calls \/ calls' = [calls EXCEPT ![t] = <<Frame(c, "first")>>]

LEMMA DueBorn ==
    ASSUME TreeInv, TreeInv', Due, NEW t \in Threads, Idle(t), NEW c \in Unused,
           NEW p \in AllPools \cup {NoPool}, Born(t, c, p)
    PROVE  Due'
<1>. USE DEF Born
<1>1. /\ c \in Pools /\ c \in AllPools /\ c # NoPool /\ c # Base /\ c \notin Threads /\ ~Live(c)
      /\ first_cleanup[c] = {}
      /\ \A a \in AllPools : c # parent[a] /\ c \notin users[a] /\ c \notin first_cleanup[a]
      /\ \A u \in Threads : \A i \in 1..Len(calls[u]) : c \notin Names(calls[u][i])
    BY UnusedIs DEF TreeInv
<1>2. TypeOK /\ TypeOK' /\ t \notin Pools
    BY DEF TreeInv, AllPools
<1>3. PICK f \in Frames : f = Frame(c, "first") /\ f.pool = c /\ f.at = "first" /\ f.left = {}
    BY <1>1, <1>2, FrameIsFrame DEF Places
<1>4. Begins(t, f)
    BY <1>2, <1>3, WorkBegun
<1>5. \A a \in AllPools : Live(a)' <=> Live(a) \/ a = c
    BY <1>1, <1>2 DEF Live, TypeOK
<1>6. \A a \in AllPools :
        /\ parent'[a] = IF a = c THEN p ELSE parent[a]
        /\ users'[a] = IF a = c THEN {t} ELSE users[a]
    BY <1>1, <1>2 DEF TypeOK
<1>7. p # c
    BY <1>1
<1>8. ASSUME NEW a \in AllPools
      PROVE  /\ Children(a) \subseteq Children(a)'
             /\ a # p => Children(a)' = Children(a)
    BY <1>1, <1>5, <1>6 DEF Children, AllPools
<1>9. Children(c)' = {}
    BY <1>1, <1>5, <1>6, <1>7 DEF Children, AllPools
<1>10. ASSUME NEW a \in AllPools PROVE Counted(a) \subseteq Counted(a)'
    <2>1. ASSUME NEW d \in Counted(a) PROVE d \in Counted(a)'
        <3>1. d \in Children(a)' /\ Stands(d, Places \ {"free"})
            BY <1>8 DEF Counted
        <3>2. QED
            BY <1>2, <1>3, <1>4, <3>1, BegunCounted
    <2>2. QED
        BY <2>1
<1>11. ASSUME p # NoPool
       PROVE  c \in Counted(p)' /\ c \notin Counted(p)
    <2>1. p \in AllPools /\ c \in Children(p)'
        BY <1>1, <1>5, <1>6, <1>11 DEF Children
    <2>2. Stands(c, Places \ {"free"})
        BY <1>1 DEF Stands, Names
    <2>3. c \in Counted(p)'
        BY <1>2, <1>3, <1>4, <2>1, <2>2, BegunCounted
    <2>4. QED
        BY <1>1, <2>3 DEF Counted, Children
<1>12. CountBelow'
    <2>1. SUFFICES ASSUME NEW a \in Pools, Live(a)'
                   PROVE  reference_count'[a] <= Cardinality(users'[a]) + Cardinality(Counted(a)')
        BY DEF CountBelow
    <2>2. /\ a \in AllPools
          /\ IsFiniteSet(Counted(a)) /\ Cardinality(Counted(a)) \in Nat
          /\ IsFiniteSet(users[a]) /\ Cardinality(users[a]) \in Nat /\ reference_count[a] \in Int
        BY <1>2, CountsFinite DEF TypeOK, AllPools
    <2>3. IsFiniteSet(Counted(a)') /\ Cardinality(Counted(a)') \in Nat
        <3>1. Counted(a)' \subseteq Pools
            BY DEF Counted, Children
        <3>2. QED
            BY <3>1, FS_Subset, FS_CardinalityType
    <2>4. CASE a = c
        <3>1. users'[a] = {t} /\ reference_count'[a] = 1
            BY <1>6, <2>2, <2>4
        <3>2. Cardinality(users'[a]) = 1
            BY <3>1, FS_Singleton
        <3>3. QED
            BY <2>3, <3>1, <3>2
    <2>5. CASE a # c
        <3>1. Live(a) /\ users'[a] = users[a]
            BY <1>5, <1>6, <2>1, <2>2, <2>5
        <3>2. reference_count[a] <= Cardinality(users[a]) + Cardinality(Counted(a))
            BY <3>1 DEF Due, CountBelow
        <3>3. CASE a # p
            <4>1. Cardinality(Counted(a)) <= Cardinality(Counted(a)')
                BY <1>10, <2>2, <2>3, FS_Subset
            <4>2. reference_count'[a] = reference_count[a]
                BY <2>2, <2>5, <3>3
            <4>3. QED
                BY <2>2, <2>3, <3>1, <3>2, <4>1, <4>2
        <3>4. CASE a = p
            <4>1. Counted(a) \cup {c} \subseteq Counted(a)' /\ c \notin Counted(a)
                BY <1>7, <1>10, <1>11, <2>2, <3>4, <1>1
            <4>2. Cardinality(Counted(a) \cup {c}) = Cardinality(Counted(a)) + 1
                BY <2>2, <4>1, FS_AddElement
            <4>3. Cardinality(Counted(a) \cup {c}) <= Cardinality(Counted(a)')
                BY <2>3, <4>1, FS_Subset
            <4>4. reference_count'[a] = reference_count[a] + 1
                BY <2>2, <2>5, <3>4
            <4>5. QED
                BY <2>2, <2>3, <3>1, <3>2, <4>2, <4>3, <4>4
        <3>5. QED
            BY <3>3, <3>4
    <2>6. QED
        BY <2>4, <2>5
<1>13. ZeroDestroyed'
    <2>1. SUFFICES ASSUME NEW a \in Pools, Live(a)'
                   PROVE  reference_count'[a] >= 1 \/ \E u \in Threads : a \in AtWork(u)'
        BY DEF ZeroDestroyed
    <2>2. a \in AllPools /\ reference_count[a] \in Int
        BY <1>2 DEF TypeOK, AllPools
    <2>3. CASE a = c
        BY <2>2, <2>3
    <2>4. CASE a # c
        <3>1. Live(a)
            BY <1>5, <2>1, <2>2, <2>4
        <3>2. reference_count[a] >= 1 \/ \E u \in Threads : a \in AtWork(u)
            BY <3>1 DEF Due, ZeroDestroyed
        <3>3. reference_count[a] >= 1 => reference_count'[a] >= 1
            BY <2>2, <2>4
        <3>4. QED
            BY <1>4, <3>2, <3>3 DEF Begins
    <2>5. QED
        BY <2>3, <2>4
<1>14. UsersHaveCleanup'
    <2>1. SUFFICES ASSUME NEW a \in Pools, NEW b \in Pools, Live(a)', a \in users'[b]
                   PROVE  b \in first_cleanup'[a]
        BY DEF UsersHaveCleanup
    <2>2. a \in AllPools /\ b \in AllPools /\ a # t
        BY <1>2 DEF AllPools
    <2>3. b # c /\ a \in users[b]
        BY <1>6, <2>1, <2>2
    <2>4. a # c
        BY <1>1, <2>2, <2>3
    <2>5. Live(a)
        BY <1>5, <2>1, <2>2, <2>4
    <2>6. QED
        BY <2>3, <2>5 DEF Due, UsersHaveCleanup
<1>15. Newborns'
    <2>1. SUFFICES ASSUME NEW u \in Threads, NEW i \in 1..Len(calls'[u]), NEW d \in AllPools,
                          calls'[u][i].pool = d, calls'[u][i].at \in {"first", "link"}, Live(d)'
                   PROVE  Newborn(u, d)'
        BY DEF Newborns
    <2>2. ASSUME NEW e, ~HasCleanup(e) PROVE ~HasCleanup(e)'
        <3>1. \A a \in AllPools : e \notin first_cleanup'[a]
            BY <2>2 DEF HasCleanup
        <3>2. ASSUME NEW v \in Threads, NEW j \in 1..Len(calls'[v]) PROVE e \notin calls'[v][j].left
            <4>1. CASE \E m \in 1..Len(calls[v]) : calls'[v][j] = calls[v][m]
                BY <2>2, <4>1 DEF HasCleanup
            <4>2. CASE calls'[v][j] = f
                BY <1>3, <4>2
            <4>3. QED
                BY <1>4, <4>1, <4>2 DEF Begins
        <3>3. QED
            BY <3>1, <3>2 DEF HasCleanup
    <2>3. CASE \E k \in 1..Len(calls[u]) : calls'[u][i] = calls[u][k]
        <3>1. PICK k \in 1..Len(calls[u]) : calls'[u][i] = calls[u][k]
            BY <2>3
        <3>2. d # c
            BY <1>1, <2>1, <3>1 DEF Names
        <3>3. Live(d)
            BY <1>5, <2>1, <3>2
        <3>4. Newborn(u, d)
            BY <2>1, <3>1, <3>3 DEF Due, Newborns
        <3>5. u # t
            <4>1. 1..Len(calls[t]) = {}
                BY <1>2, StackTyped
            <4>2. QED
                BY <3>1, <4>1
        <3>6. d # p
            <4>1. d \in Pools /\ d # Base /\ d # NoPool /\ t \notin users[d]
                BY <3>4, <3>5 DEF Newborn
            <4>2. QED
                BY <4>1
        <3>7. users'[d] = users[d] /\ reference_count'[d] = reference_count[d] /\ Children(d)' = Children(d)
            BY <1>6, <1>8, <3>2, <3>6
        <3>8. QED
            BY <2>2, <3>4, <3>7 DEF Newborn
    <2>4. CASE u = t /\ calls'[u][i] = f
        <3>1. d = c /\ u = t
            BY <1>3, <2>1, <2>4
        <3>2. users'[c] = {t} /\ reference_count'[c] = 1
            BY <1>1, <1>6
        <3>3. ~HasCleanup(c)
            BY <1>1 DEF HasCleanup, Names
        <3>4. QED
            BY <1>1, <1>9, <2>2, <3>1, <3>2, <3>3 DEF Newborn
    <2>5. QED
        BY <1>4, <2>3, <2>4 DEF Begins
<1>16. QED
    BY <1>12, <1>13, <1>14, <1>15 DEF Due

LEMMA DueCreated ==
    ASSUME TreeInv, TreeInv', Due, NEW t \in Threads, NEW p \in AllPools,
           Create(t, p) \/ CreateThread(t)
    PROVE  Due'
<1>1. Idle(t) /\ Unused # {}
    BY DEF Create, CreateThread, Uses
<1>2. PICK c \in Unused : c = NewPool
    BY <1>1 DEF NewPool
<1>3. c \in AllPools /\ parent[c] = NoPool /\ TypeOK
    BY UnusedIs DEF TreeInv
<1>4. /\ memory' = [memory EXCEPT ![c] = "live"] /\ users' = [users EXCEPT ![c] = {t}]
      /\ first_cleanup' = first_cleanup
    BY <1>2 DEF Create, CreateThread, Allocates
<1>5. CASE Create(t, p)
    <2>1. /\ Live(p) /\ (p = Base \/ t \in users[p])
          /\ parent' = [parent EXCEPT ![c] = p]
          /\ reference_count' = [reference_count EXCEPT ![c] = 1, ![p] = @ + 1]
          /\ calls' = [calls EXCEPT ![t] = <<Frame(c, "first")>>]
        BY <1>2, <1>5 DEF Create, Uses
    <2>2. c # p
        BY <1>3, <2>1, UnusedIs DEF TreeInv
    <2>3. \A a \in AllPools :
               reference_count'[a] = IF a = c THEN 1
                                     ELSE IF a = p THEN reference_count[a] + 1 ELSE reference_count[a]
        BY <1>3, <2>1, <2>2 DEF TypeOK
    <2>4. Born(t, c, p)
        BY <1>4, <2>1, <2>3 DEF Born
    <2>5. QED
        BY <1>1, <2>4, DueBorn
<1>6. CASE CreateThread(t)
    <2>1. /\ parent' = parent /\ calls' = calls
          /\ reference_count' = [reference_count EXCEPT ![c] = 1]
        BY <1>2, <1>6 DEF CreateThread
    <2>2. parent' = [parent EXCEPT ![c] = NoPool]
        BY <1>3, <2>1 DEF TypeOK
    <2>3. \A a \in AllPools :
               reference_count'[a] = IF a = c THEN 1
                                     ELSE IF a = NoPool THEN reference_count[a] + 1 ELSE reference_count[a]
        BY <1>3, <2>1 DEF TypeOK, AllPools
    <2>4. Born(t, c, NoPool)
        BY <1>4, <2>1, <2>2, <2>3 DEF Born
    <2>5. QED
        BY <1>1, <2>4, DueBorn
<1>7. QED
    BY <1>5, <1>6

LEMMA DueInit ==
    ASSUME Init
    PROVE  Due
<1>1. \A t \in Threads : 1..Len(calls[t]) = {}
    <2>1. \A t \in Threads : calls[t] = <<>> /\ Len(calls[t]) = 0
        BY DEF Init
    <2>2. QED
        BY <2>1
<1>2. \A p \in Pools : ~Live(p)
    BY DEF Init, Live, AllPools
<1>3. QED
    BY <1>1, <1>2 DEF Due, CountBelow, ZeroDestroyed, UsersHaveCleanup, Newborns

LEMMA DueStuttering ==
    ASSUME Due, UNCHANGED vars
    PROVE  Due'
<1>1. UNCHANGED <<memory, lineage, parent, reference_count, first_cleanup, users, calls>>
    BY DEF vars, structVars, countVars
<1>2. (\A p : Live(p)' <=> Live(p)) /\ (\A t : AtWork(t)' = AtWork(t))
    BY <1>1 DEF Live, AtWork
<1>3. \A p : Children(p)' = Children(p)
    BY <1>1, <1>2 DEF Children
<1>4. (\A c : Stands(c, Places \ {"free"})' <=> Stands(c, Places \ {"free"}))
      /\ (\A c : HasCleanup(c)' <=> HasCleanup(c))
    BY <1>1 DEF Stands, HasCleanup
<1>5. (\A p : Counted(p)' = Counted(p)) /\ (\A t, c : Newborn(t, c)' <=> Newborn(t, c))
    BY <1>1, <1>3, <1>4 DEF Counted, Newborn
<1>6. CountBelow' /\ ZeroDestroyed' /\ UsersHaveCleanup'
    BY <1>1, <1>2, <1>5 DEF Due, CountBelow, ZeroDestroyed, UsersHaveCleanup
<1>7. Newborns'
    BY <1>1, <1>2, <1>5 DEF Due, Newborns
<1>8. QED
    BY <1>6, <1>7 DEF Due

LEMMA DueStep ==
    ASSUME TreeInv, TreeInv', broken = "no" => Due, Next, broken' = "no"
    PROVE  Due'
<1>1. CASE Ended
    <2>1. broken = "no" /\ UNCHANGED vars
        BY <1>1 DEF Ended, vars
    <2>2. QED
        BY <2>1, DueStuttering
<1>2. ASSUME NEW t \in Threads, Begin(t) PROVE Due'
    <2>1. CASE CreateThread(t)
        <3>1. Base \in AllPools /\ broken = "no"
            BY <2>1 DEF CreateThread, AllPools
        <3>2. QED
            BY <2>1, <3>1, DueCreated
    <2>2. ASSUME NEW p \in AllPools, Create(t, p) PROVE Due'
        BY <2>2, DueCreated DEF Create, Uses
    <2>3. ASSUME NEW p \in Pools, NEW q \in Pools, NEW u \in Threads,
                 \/ AddReference(t, u, q) \/ Release(t, q) \/ Destroy(t, q)
                 \/ RegisterCleanup(t, p, q) \/ DeregisterCleanup(t, p, q)
          PROVE  Due'
        <3>1. broken = "no"
            BY <2>3 DEF AddReference, Release, Destroy, RegisterCleanup, DeregisterCleanup, Uses
        <3>2. QED
            BY <2>3, <3>1, DueShared
    <2>4. QED
        BY <1>2, <2>1, <2>2, <2>3 DEF Begin
<1>3. ASSUME NEW t \in Threads, GoOn(t) PROVE Due'
    <2>1. broken = "no"
        BY <1>3 DEF GoOn, AddChild, LinkChild, RunCleanup, DestroyChild, ChildrenGone, InChildren,
                    Search, NotAChild, Unlink, ReleaseParent, Free, UseFreed, At
    <2>2. QED
        BY <1>3, <2>1, DueGoesOn, DueFreed
<1>4. QED
    BY <1>1, <1>2, <1>3 DEF Next

DueInv == TreeInv /\ (broken = "no" => Due)

LEMMA DueInvariant == Spec => []DueInv
<1>1. Init => DueInv
    BY TreeInit, DueInit DEF DueInv
<1>2. DueInv /\ [Next]_vars => DueInv'
    <2>1. ASSUME DueInv, Next PROVE DueInv'
        <3>1. TreeInv'
            BY <2>1, TreeStep DEF DueInv
        <3>2. QED
            BY <2>1, <3>1, DueStep DEF DueInv
    <2>2. ASSUME DueInv, UNCHANGED vars PROVE DueInv'
        <3>1. TreeInv' /\ broken' = broken
            BY <2>2, TreeStuttering DEF DueInv, vars
        <3>2. QED
            BY <2>2, <3>1, DueStuttering DEF DueInv
    <2>3. QED
        BY <2>1, <2>2
<1>3. QED
    BY <1>1, <1>2, PTL DEF Spec

(* Among the pools of a set, one is in no fewer apr pools than any other. *)
LEMMA Deepest ==
    ASSUME TypeOK, NEW S, S \subseteq AllPools, S # {}
    PROVE  \E q \in S : \A c \in S : Cardinality(lineage[c]) <= Cardinality(lineage[q])
<1>1. IsFiniteSet(AllPools) /\ Cardinality(AllPools) \in Nat
    <2>1. Base \in AllPools
        BY DEF AllPools
    <2>2. QED
        BY <2>1, CountsFinite, FS_CardinalityType
<1>2. \A q \in S : Cardinality(lineage[q]) \in Nat /\ Cardinality(lineage[q]) <= Cardinality(AllPools)
    <2>1. \A q \in S : lineage[q] \subseteq AllPools
        BY DEF TypeOK
    <2>2. QED
        BY <1>1, <2>1, FS_Subset, FS_CardinalityType
<1>3. PICK T : T = {Cardinality(AllPools) - Cardinality(lineage[q]) : q \in S}
    OBVIOUS
<1>4. T \subseteq Nat /\ T # {}
    BY <1>1, <1>2, <1>3
<1>5. PICK R : R = OpToRel(<, Nat)
    OBVIOUS
<1>6. IsWellFoundedOn(R, Nat)
    BY <1>5, NatLessThanWellFounded
<1>7. PICK m \in T : \A n \in T : <<n, m>> \notin R
    BY <1>4, <1>6, WFMin
<1>8. \A n \in T : ~(n < m)
    BY <1>4, <1>5, <1>7 DEF OpToRel
<1>9. PICK q \in S : m = Cardinality(AllPools) - Cardinality(lineage[q])
    BY <1>3, <1>7
<1>10. ASSUME NEW c \in S PROVE Cardinality(lineage[c]) <= Cardinality(lineage[q])
    <2>1. Cardinality(AllPools) - Cardinality(lineage[c]) \in T
        BY <1>3
    <2>2. ~(Cardinality(AllPools) - Cardinality(lineage[c]) < m)
        BY <1>8, <2>1
    <2>3. QED
        BY <1>1, <1>2, <1>9, <2>2
<1>11. QED
    BY <1>10

(* Nothing is left behind: when all calls have returned, a pool that is not freed
   has a user, or has something in it that has one, whatever was let go of before
   its children, and whatever the lists have come to. *)
THEOREM NothingLeftBehindHolds == Spec => []NothingLeftBehind
<1>1. ASSUME DueInv PROVE NothingLeftBehind
    <2>1. SUFFICES ASSUME broken = "no", \A t \in Threads : Idle(t), NEW p \in Pools, Live(p),
                          \A q \in Under(p) : users[q] = {}
                   PROVE  FALSE
        BY DEF NothingLeftBehind
    <2>2. Due /\ TypeOK /\ LineageInv
        BY <1>1, <2>1 DEF DueInv, TreeInv
    <2>3. \A t \in Threads : AtWork(t) = {}
        BY <2>1, <2>2, AtWorkIs
    <2>4. ASSUME NEW q \in Under(p)
          PROVE  \E c \in Under(p) : Cardinality(lineage[c]) > Cardinality(lineage[q])
        <3>1. q \in Pools /\ q \in AllPools /\ Live(q) /\ p \in lineage[q] /\ users[q] = {}
            BY <2>1 DEF Under, AllPools
        <3>2. reference_count[q] >= 1 /\ reference_count[q] <= Cardinality(users[q]) + Cardinality(Counted(q))
            BY <2>2, <2>3, <3>1 DEF Due, CountBelow, ZeroDestroyed
        <3>3. Cardinality(users[q]) = 0 /\ Cardinality(Counted(q)) \in Nat /\ reference_count[q] \in Int
            BY <2>2, <3>1, CountsFinite, FS_EmptySet DEF TypeOK
        <3>4. Counted(q) # {}
            BY <3>2, <3>3, FS_EmptySet
        <3>5. PICK c \in Pools : Live(c) /\ parent[c] = q
            BY <3>4 DEF Counted, Children
        <3>6. q # NoPool
            BY <3>1 DEF AllPools
        <3>7. lineage[c] = lineage[q] \cup {c} /\ q \in lineage[c] /\ q # c
            BY <2>2, <3>5, <3>6 DEF LineageInv
        <3>8. c \notin lineage[q]
            BY <2>2, <3>5, <3>7 DEF LineageInv
        <3>9. IsFiniteSet(lineage[q]) /\ Cardinality(lineage[q]) \in Nat
            <4>1. lineage[q] \subseteq AllPools
                BY <2>2, <3>1 DEF TypeOK
            <4>2. QED
                BY <2>2, <3>1, <4>1, CountsFinite, FS_Subset, FS_CardinalityType
        <3>10. Cardinality(lineage[c]) = Cardinality(lineage[q]) + 1
            <4>1. Cardinality(lineage[q] \cup {c}) = Cardinality(lineage[q]) + 1
                BY <3>8, <3>9, FS_AddElement
            <4>2. QED
                BY <3>7, <4>1
        <3>11. c \in Under(p)
            BY <3>1, <3>5, <3>7 DEF Under
        <3>12. Cardinality(lineage[c]) > Cardinality(lineage[q])
            BY <3>9, <3>10
        <3>13. QED
            BY <3>11, <3>12
    <2>5. Under(p) \subseteq AllPools /\ p \in Under(p)
        BY <2>1, <2>2 DEF Under, LineageInv, AllPools
    <2>6. PICK q \in Under(p) : \A c \in Under(p) : Cardinality(lineage[c]) <= Cardinality(lineage[q])
        BY <2>2, <2>5, Deepest
    <2>7. PICK c \in Under(p) : Cardinality(lineage[c]) > Cardinality(lineage[q])
        BY <2>4
    <2>8. Cardinality(lineage[c]) \in Nat /\ Cardinality(lineage[q]) \in Nat
        <3>1. lineage[c] \subseteq AllPools /\ lineage[q] \subseteq AllPools /\ q \in AllPools
            BY <2>2, <2>5 DEF TypeOK
        <3>2. QED
            BY <2>2, <3>1, CountsFinite, FS_Subset, FS_CardinalityType
    <2>9. QED
        BY <2>6, <2>7, <2>8
<1>2. DueInv => NothingLeftBehind
    BY <1>1
<1>3. QED
    BY <1>2, DueInvariant, PTL
=============================================================================
