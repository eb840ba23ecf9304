------------------------- MODULE AdaptorAnchorProofs -------------------------
(***************************************************************************)
(* For any threads, any instances and any number of lost references: the   *)
(* counts of the anchor are exact, and so no thread uses an instance that  *)
(* is destroyed, and the sessions' view of the id is AdaptorLease.         *)
(***************************************************************************)
EXTENDS AdaptorAnchor, FiniteSetTheorems, TLAPS

-----------------------------------------------------------------------------
(* What the sections under the lock make of the chain. *)

LEMMA OnAnchorAt ==
    ASSUME NEW a, NEW i
    PROVE  OnAnchor(a, i) <=> \E k \in 1..Len(a) : a[k].adaptor = i
BY DEF OnAnchor, PositionsOf

(* In a well-formed anchor the walk of a release stops at the only node of
   the instance. *)
LEMMA OnePosition ==
    ASSUME NEW a, WellFormed(a), NEW i, NEW k \in PositionsOf(a, i)
    PROVE  PositionsOf(a, i) = {k} /\ FirstPosition(a, i) = k
<1>1. PositionsOf(a, i) = {k}
    BY DEF WellFormed, PositionsOf
<1>2. k \in Int
    BY DEF PositionsOf
<1>3. FirstPosition(a, i) = k
    BY <1>1, <1>2 DEF FirstPosition
<1>4. QED
    BY <1>1, <1>3

(* Taking a copy out of the chain keeps the other nodes, in order. *)
LEMMA UnlinkNodes ==
    ASSUME NEW a \in Seq(Node), NEW k \in 2..Len(a)
    PROVE  /\ Unlink(a, k) \in Seq(Node)
           /\ Len(Unlink(a, k)) = Len(a) - 1
           /\ \A m \in 1..(Len(a) - 1) :
                Unlink(a, k)[m] = IF m < k THEN a[m] ELSE a[m + 1]
<1> DEFINE n == Len(a) - 1
<1>1. n \in Nat
    OBVIOUS
<1>2. \A m \in 1..n : (IF m < k THEN a[m] ELSE a[m + 1]) \in Node
    OBVIOUS
<1>3. Unlink(a, k) \in [1..n -> Node]
    BY <1>2 DEF Unlink
<1>4. QED
    BY <1>1, <1>3 DEF Unlink

(* impl_set_instance_active puts a new instance i, or none, in front of the
   instances the anchor has. *)
LEMMA SetActiveNodes ==
    ASSUME NEW a, WellFormed(a), NEW i \in Instances \cup {NoInstance},
           i \in Instances => ~OnAnchor(a, i),
           i = NoInstance => Registered(a)
    PROVE  /\ WellFormed(SetActive(a, i))
           /\ Len(SetActive(a, i)) > 0
           /\ SetActive(a, i)[1] = NewNode(i, BaseCount(i))
           /\ \A m \in 2..Len(SetActive(a, i)) :
                \E k \in 1..Len(a) :
                    /\ SetActive(a, i)[m] = a[k]
                    /\ k = 1 => IsActive(a)
           /\ \A j \in Instances :
                OnAnchor(SetActive(a, i), j) <=> OnAnchor(a, j) \/ j = i
<1> DEFINE b == SetActive(a, i)
           node == NewNode(i, BaseCount(i))
<1> USE NoInstanceAssumption
<1>1. node \in Node
    BY DEF NewNode, Node, BaseCount
<1>2. a \in Seq(Node)
    BY DEF WellFormed
<1>3. CASE IsActive(a) \/ ~Registered(a)
    <2>1. b = <<node>> \o a
        BY <1>3 DEF SetActive
    <2>2. /\ b \in Seq(Node)
          /\ Len(b) = Len(a) + 1
          /\ b[1] = node
          /\ \A m \in 2..Len(b) : b[m] = a[m - 1]
        BY <2>1, <1>1, <1>2
    <2>3. \A m \in 2..Len(b) :
              /\ m - 1 \in 1..Len(a)
              /\ m - 1 = 1 => IsActive(a)
              /\ b[m].adaptor # NoInstance
              /\ b[m].adaptor # i
        BY <2>2, <1>2, <1>3
        DEF WellFormed, IsActive, ActiveInstance, Registered, OnAnchor, PositionsOf
    <2>4. b[1].adaptor = i
        BY <2>2 DEF NewNode
    <2>5. WellFormed(b)
        <3>1. ASSUME NEW k \in 1..Len(b), NEW m \in 1..Len(b),
                     b[k].adaptor = b[m].adaptor
              PROVE  k = m
            <4>1. CASE k = 1 \/ m = 1
                BY <3>1, <4>1, <2>3, <2>4
            <4>2. CASE k # 1 /\ m # 1
                <5>1. k \in 2..Len(b) /\ m \in 2..Len(b)
                    BY <4>2
                <5>2. /\ b[k] = a[k - 1] /\ k - 1 \in 1..Len(a)
                      /\ b[m] = a[m - 1] /\ m - 1 \in 1..Len(a)
                    BY <5>1, <2>2, <2>3
                <5>3. k - 1 = m - 1
                    BY <3>1, <5>2 DEF WellFormed
                <5>4. QED
                    BY <5>3
            <4>3. QED
                BY <4>1, <4>2
        <3>2. QED
            BY <3>1, <2>2, <2>3 DEF WellFormed
    <2>6. ASSUME NEW j \in Instances
          PROVE  OnAnchor(b, j) <=> OnAnchor(a, j) \/ j = i
        <3>1. ASSUME NEW k \in 1..Len(a), a[k].adaptor = j
              PROVE  k + 1 \in 1..Len(b) /\ b[k + 1].adaptor = j
            BY <3>1, <2>2, <1>2
        <3>2. OnAnchor(a, j) => OnAnchor(b, j)
            BY <3>1, OnAnchorAt
        <3>3. OnAnchor(b, i)
            BY <2>2, <2>4, <1>2, OnAnchorAt
        <3>4. ASSUME NEW m \in 1..Len(b), b[m].adaptor = j, j # i
              PROVE  OnAnchor(a, j)
            <4>1. m \in 2..Len(b)
                BY <3>4, <2>4
            <4>2. b[m] = a[m - 1] /\ m - 1 \in 1..Len(a)
                BY <4>1, <2>2, <2>3
            <4>3. QED
                BY <3>4, <4>2, OnAnchorAt
        <3>5. QED
            BY <3>2, <3>3, <3>4, OnAnchorAt
    <2>7. \A m \in 2..Len(b) :
              \E k \in 1..Len(a) : b[m] = a[k] /\ (k = 1 => IsActive(a))
        BY <2>2, <2>3
    <2>8. Len(b) > 0
        BY <2>2, <1>2
    <2>9. QED
        BY <2>2, <2>5, <2>6, <2>7, <2>8
<1>4. CASE ~(IsActive(a) \/ ~Registered(a))
    <2>1. b = <<node>> \o Tail(a) /\ Len(a) > 0 /\ a[1].adaptor = NoInstance
        BY <1>4 DEF SetActive, IsActive, ActiveInstance, Registered
    <2>2. /\ b \in Seq(Node)
          /\ Len(b) = Len(a)
          /\ b[1] = node
          /\ \A m \in 2..Len(b) : b[m] = a[m]
        BY <2>1, <1>1, <1>2
    <2>3. \A m \in 2..Len(b) :
              /\ m \in 1..Len(a) /\ m # 1
              /\ b[m].adaptor # NoInstance
              /\ b[m].adaptor # i
        BY <2>2, <1>2 DEF WellFormed, OnAnchor, PositionsOf
    <2>4. b[1].adaptor = i
        BY <2>2 DEF NewNode
    <2>5. WellFormed(b)
        <3>1. ASSUME NEW k \in 1..Len(b), NEW m \in 1..Len(b),
                     b[k].adaptor = b[m].adaptor
              PROVE  k = m
            <4>1. CASE k = 1 \/ m = 1
                BY <3>1, <4>1, <2>3, <2>4
            <4>2. CASE k # 1 /\ m # 1
                <5>1. k \in 2..Len(b) /\ m \in 2..Len(b)
                    BY <4>2
                <5>2. /\ b[k] = a[k] /\ k \in 1..Len(a)
                      /\ b[m] = a[m] /\ m \in 1..Len(a)
                    BY <5>1, <2>2, <2>3
                <5>3. k = m
                    BY <3>1, <5>2 DEF WellFormed
                <5>4. QED
                    BY <5>3
            <4>3. QED
                BY <4>1, <4>2
        <3>2. QED
            BY <3>1, <2>2, <2>3 DEF WellFormed
    <2>6. ASSUME NEW j \in Instances
          PROVE  OnAnchor(b, j) <=> OnAnchor(a, j) \/ j = i
        <3>1. ASSUME NEW k \in 1..Len(a), a[k].adaptor = j
              PROVE  k \in 1..Len(b) /\ b[k].adaptor = j
            BY <3>1, <2>1, <2>2, <1>2
        <3>2. OnAnchor(a, j) => OnAnchor(b, j)
            BY <3>1, OnAnchorAt
        <3>3. OnAnchor(b, i)
            <4>1. 1 \in 1..Len(b)
                BY <2>1, <2>2, <1>2
            <4>2. QED
                BY <4>1, <2>4, OnAnchorAt
        <3>4. ASSUME NEW m \in 1..Len(b), b[m].adaptor = j, j # i
              PROVE  OnAnchor(a, j)
            <4>1. m \in 2..Len(b)
                BY <3>4, <2>4
            <4>2. b[m] = a[m] /\ m \in 1..Len(a)
                BY <4>1, <2>2, <2>3
            <4>3. QED
                BY <3>4, <4>2, OnAnchorAt
        <3>5. QED
            BY <3>2, <3>3, <3>4, OnAnchorAt
    <2>7. \A m \in 2..Len(b) :
              \E k \in 1..Len(a) : b[m] = a[k] /\ (k = 1 => IsActive(a))
        BY <2>2, <2>3
    <2>8. QED
        BY <2>1, <2>2, <2>5, <2>6, <2>7
<1>5. QED
    BY <1>3, <1>4

LEMMA NodeFields ==
    ASSUME NEW a \in Seq(Node), NEW m \in 1..Len(a)
    PROVE  /\ a[m] \in Node
           /\ a[m].adaptor \in Instances \cup {NoInstance}
           /\ a[m].reference_count \in Int
<1>1. a[m] \in Node
    OBVIOUS
<1>2. QED
    BY <1>1 DEF Node

(* Changing the count of one node changes nothing else. *)
LEMMA RecountNodes ==
    ASSUME NEW a \in Seq(Node), NEW k \in 1..Len(a), NEW n \in Int
    PROVE  LET b == [a EXCEPT ![k].reference_count = n]
           IN  /\ b \in Seq(Node)
               /\ Len(b) = Len(a)
               /\ \A m \in 1..Len(a) :
                    /\ b[m].adaptor = a[m].adaptor
                    /\ b[m].reference_count =
                         IF m = k THEN n ELSE a[m].reference_count
<1> DEFINE node == [a[k] EXCEPT !.reference_count = n]
           b == [a EXCEPT ![k] = node]
<1>1. a[k] \in Node
    OBVIOUS
<1>2. node \in Node /\ node.adaptor = a[k].adaptor /\ node.reference_count = n
    BY <1>1 DEF Node
<1>3. b \in Seq(Node) /\ Len(b) = Len(a)
    BY <1>2
<1>4. \A m \in 1..Len(a) : b[m] = IF m = k THEN node ELSE a[m]
    OBVIOUS
<1> HIDE DEF node
<1>5. QED
    BY <1>2, <1>3, <1>4 DEF node

(* impl_get_reference adds one to the count of the active instance. *)
LEMMA AddReferenceNodes ==
    ASSUME NEW a, WellFormed(a), IsActive(a)
    PROVE  /\ WellFormed(AddReference(a))
           /\ Len(AddReference(a)) = Len(a)
           /\ \A m \in 1..Len(a) :
                /\ AddReference(a)[m].adaptor = a[m].adaptor
                /\ AddReference(a)[m].reference_count =
                     a[m].reference_count + (IF m = 1 THEN 1 ELSE 0)
           /\ \A j \in Instances : OnAnchor(AddReference(a), j) <=> OnAnchor(a, j)
<1> DEFINE b == AddReference(a)
<1>1. a \in Seq(Node) /\ 1 \in 1..Len(a)
    BY NoInstanceAssumption
    DEF WellFormed, IsActive, ActiveInstance, Registered
<1>2. /\ b \in Seq(Node)
      /\ Len(b) = Len(a)
      /\ \A m \in 1..Len(a) :
            /\ b[m].adaptor = a[m].adaptor
            /\ b[m].reference_count =
                 a[m].reference_count + (IF m = 1 THEN 1 ELSE 0)
    <2>1. a[1].reference_count + 1 \in Int
        BY <1>1, NodeFields
    <2>2. \A m \in 1..Len(a) : a[m].reference_count \in Int
        BY <1>1, NodeFields
    <2>3. QED
        BY <1>1, <2>1, <2>2, RecountNodes DEF AddReference
<1>3. WellFormed(b)
    BY <1>1, <1>2 DEF WellFormed
<1>4. \A j \in Instances : OnAnchor(b, j) <=> OnAnchor(a, j)
    BY <1>2, OnAnchorAt
<1>5. QED
    BY <1>2, <1>3, <1>4

(* afw_adaptor_release takes one off the count of the instance it is called
   for, takes its node out at 0, and leaves every other node alone. *)
LEMMA ReleaseNodes ==
    ASSUME NEW a, WellFormed(a), NEW i \in Instances, OnAnchor(a, i)
    PROVE  /\ WellFormed(Release(a, i))
           /\ LastReference(a, i) <=>
                \E k \in 1..Len(a) :
                    a[k].adaptor = i /\ a[k].reference_count <= 1
           /\ \A m \in 1..Len(Release(a, i)) :
                Release(a, i)[m].adaptor # NoInstance =>
                    \E n \in 1..Len(a) :
                        /\ n = 1 <=> m = 1
                        /\ Release(a, i)[m].adaptor = a[n].adaptor
                        /\ Release(a, i)[m].reference_count =
                             a[n].reference_count
                             - (IF a[n].adaptor = i THEN 1 ELSE 0)
           /\ \A j \in Instances :
                OnAnchor(Release(a, i), j) <=>
                    OnAnchor(a, j) /\ (j = i => ~LastReference(a, i))
<1> DEFINE b == Release(a, i)
<1> USE NoInstanceAssumption
<1>1. PICK k \in 1..Len(a) : a[k].adaptor = i
    BY OnAnchorAt
<1>2. PositionsOf(a, i) = {k} /\ FirstPosition(a, i) = k
    <2>1. k \in PositionsOf(a, i)
        BY <1>1 DEF PositionsOf
    <2>2. QED
        BY <2>1, OnePosition
<1>3. a \in Seq(Node) /\ \A n \in 1..Len(a) : a[n].adaptor = i => n = k
    BY <1>1 DEF WellFormed
<1>4. LastReference(a, i) <=> a[k].reference_count <= 1
    BY <1>2 DEF LastReference
<1>5. LastReference(a, i) <=>
        \E n \in 1..Len(a) : a[n].adaptor = i /\ a[n].reference_count <= 1
    BY <1>1, <1>3, <1>4
<1>6. CASE ~LastReference(a, i)
    <2>1. b = [a EXCEPT ![k].reference_count = @ - 1]
        BY <1>2, <1>6 DEF Release
    <2>2. /\ b \in Seq(Node)
          /\ Len(b) = Len(a)
          /\ \A m \in 1..Len(a) :
                /\ b[m].adaptor = a[m].adaptor
                /\ b[m].reference_count =
                     a[m].reference_count - (IF m = k THEN 1 ELSE 0)
        <3>1. a[k].reference_count - 1 \in Int
            BY <1>3, NodeFields
        <3>2. \A m \in 1..Len(a) : a[m].reference_count \in Int
            BY <1>3, NodeFields
        <3>3. QED
            BY <1>3, <2>1, <3>1, <3>2, RecountNodes
    <2>3. WellFormed(b)
        BY <2>2 DEF WellFormed
    <2>4. \A j \in Instances : OnAnchor(b, j) <=> OnAnchor(a, j)
        BY <2>2, OnAnchorAt
    <2>5. QED
        BY <1>1, <1>3, <1>5, <1>6, <2>2, <2>3, <2>4
<1>7. CASE LastReference(a, i) /\ k = 1
    <2>1. b = [a EXCEPT ![1] = NewNode(NoInstance, 0)]
        BY <1>2, <1>7 DEF Release
    <2>2. /\ b \in Seq(Node)
          /\ Len(b) = Len(a)
          /\ b[1].adaptor = NoInstance
          /\ \A m \in 2..Len(a) : b[m] = a[m]
        BY <2>1, <1>3, <1>7 DEF Node, NewNode
    <2>3. \A m \in 2..Len(a) : a[m].adaptor # NoInstance /\ a[m].adaptor # i
        BY <1>3, <1>7 DEF WellFormed
    <2>4. WellFormed(b)
        <3>1. \A m \in 2..Len(b) : b[m].adaptor # NoInstance
            BY <2>2, <2>3
        <3>2. ASSUME NEW m \in 1..Len(b), NEW n \in 1..Len(b),
                     b[m].adaptor = b[n].adaptor
              PROVE  m = n
            <4>1. CASE m = 1 \/ n = 1
                BY <4>1, <3>1, <3>2, <2>2
            <4>2. CASE m # 1 /\ n # 1
                <5>1. b[m] = a[m] /\ b[n] = a[n]
                    BY <4>2, <2>2
                <5>2. QED
                    BY <5>1, <3>2, <2>2 DEF WellFormed
            <4>3. QED
                BY <4>1, <4>2
        <3>3. QED
            BY <3>1, <3>2, <2>2 DEF WellFormed
    <2>5. \A j \in Instances : OnAnchor(b, j) <=> OnAnchor(a, j) /\ j # i
        BY <2>2, <2>3, <1>1, <1>7, OnAnchorAt
    <2>6. ASSUME NEW m \in 1..Len(b), b[m].adaptor # NoInstance
          PROVE  \E n \in 1..Len(a) :
                    /\ n = 1 <=> m = 1
                    /\ b[m].adaptor = a[n].adaptor
                    /\ b[m].reference_count =
                         a[n].reference_count - (IF a[n].adaptor = i THEN 1 ELSE 0)
        <3>1. m \in 1..Len(a) /\ m # 1 /\ b[m] = a[m] /\ a[m] \in Node
            BY <2>2, <2>6, <1>3
        <3>2. a[m].adaptor # i /\ a[m].reference_count \in Int
            BY <2>3, <3>1, <1>3 DEF Node
        <3>3. QED
            BY <3>1, <3>2
    <2>7. QED
        BY <1>5, <1>7, <2>4, <2>5, <2>6
<1>8. CASE LastReference(a, i) /\ k # 1
    <2>1. b = Unlink(a, k) /\ k \in 2..Len(a)
        BY <1>1, <1>2, <1>8 DEF Release
    <2>2. /\ b \in Seq(Node)
          /\ Len(b) = Len(a) - 1
          /\ \A m \in 1..(Len(a) - 1) :
                b[m] = IF m < k THEN a[m] ELSE a[m + 1]
        BY <2>1, <1>3, UnlinkNodes
    <2> DEFINE from(m) == IF m < k THEN m ELSE m + 1
    <2>3. ASSUME NEW m \in 1..Len(b)
          PROVE  /\ from(m) \in 1..Len(a)
                 /\ from(m) # k
                 /\ b[m] = a[from(m)]
                 /\ from(m) = 1 <=> m = 1
                 /\ a[from(m)].adaptor # i
                 /\ a[from(m)].reference_count \in Int
        <3>1. /\ from(m) \in 1..Len(a)
              /\ from(m) # k
              /\ b[m] = a[from(m)]
              /\ from(m) = 1 <=> m = 1
            BY <2>1, <2>2, <1>3
        <3>2. a[from(m)].adaptor # i /\ a[from(m)] \in Node
            BY <3>1, <1>3
        <3>3. QED
            BY <3>1, <3>2 DEF Node
    <2>4. WellFormed(b)
        <3>1. \A m \in 2..Len(b) : b[m].adaptor # NoInstance
            <4>1. TAKE m \in 2..Len(b)
            <4>2. from(m) \in 2..Len(a) /\ b[m] = a[from(m)]
                BY <2>3, <2>1
            <4>3. QED
                BY <4>2 DEF WellFormed
        <3>2. ASSUME NEW m \in 1..Len(b), NEW n \in 1..Len(b),
                     b[m].adaptor = b[n].adaptor
              PROVE  m = n
            <4>1. from(m) = from(n)
                BY <3>2, <2>3 DEF WellFormed
            <4>2. QED
                BY <4>1, <2>1
        <3>3. QED
            BY <3>1, <3>2, <2>2 DEF WellFormed
    <2>5. ASSUME NEW j \in Instances
          PROVE  OnAnchor(b, j) <=> OnAnchor(a, j) /\ j # i
        <3>1. OnAnchor(b, j) => OnAnchor(a, j) /\ j # i
            BY <2>3, OnAnchorAt
        <3>2. ASSUME NEW n \in 1..Len(a), a[n].adaptor = j, j # i
              PROVE  OnAnchor(b, j)
            <4> DEFINE m == IF n < k THEN n ELSE n - 1
            <4>1. n # k
                BY <3>2, <1>1
            <4>2. m \in 1..Len(b) /\ from(m) = n
                BY <4>1, <2>1, <2>2, <1>3
            <4>3. b[m].adaptor = j
                BY <4>2, <2>3, <3>2
            <4>4. QED
                BY <4>2, <4>3, OnAnchorAt
        <3>3. QED
            BY <3>1, <3>2, OnAnchorAt
    <2>6. \A m \in 1..Len(b) :
            \E n \in 1..Len(a) :
                /\ n = 1 <=> m = 1
                /\ b[m].adaptor = a[n].adaptor
                /\ b[m].reference_count =
                     a[n].reference_count - (IF a[n].adaptor = i THEN 1 ELSE 0)
        <3>1. TAKE m \in 1..Len(b)
        <3> DEFINE n == from(m)
        <3>2. /\ n \in 1..Len(a)
              /\ n = 1 <=> m = 1
              /\ b[m] = a[n]
              /\ a[n].adaptor # i
              /\ a[n].reference_count \in Int
            BY <2>3
        <3> HIDE DEF n
        <3>3. b[m].reference_count =
                a[n].reference_count - (IF a[n].adaptor = i THEN 1 ELSE 0)
            BY <3>2
        <3>4. QED
            BY <3>2, <3>3
    <2>7. QED
        BY <1>5, <1>8, <2>4, <2>5, <2>6
<1>9. QED
    BY <1>6, <1>7, <1>8

-----------------------------------------------------------------------------
(* What a step of one client does to the owners of references. *)

LEMMA GotoAt ==
    ASSUME TypeOK, NEW c \in Clients, NEW l, NEW x, Goto(c, l, x)
    PROVE  \A d \in Clients :
                /\ pc'[d] = IF d = c THEN l ELSE pc[d]
                /\ instance'[d] = IF d = c THEN x ELSE instance[d]
BY DEF TypeOK, Goto

LEMMA HoldersFinite ==
    ASSUME NEW i
    PROVE  IsFiniteSet(Holders(i)) /\ Cardinality(Holders(i)) \in Nat
BY ClientsAssumption, FS_Subset, FS_CardinalityType DEF Holders

(* The owners of references to i change by the client that moved. *)
LEMMA HoldersCount ==
    ASSUME TypeOK, NEW c \in Clients, NEW l, NEW x, Goto(c, l, x), NEW i
    PROVE  Cardinality(Holders(i)') =
             Cardinality(Holders(i))
             - (IF c \in Holders(i) THEN 1 ELSE 0)
             + (IF l \in Referencing /\ x = i THEN 1 ELSE 0)
<1> DEFINE others == Holders(i) \ {c}
<1>1. \A d \in Clients :
        /\ pc'[d] = IF d = c THEN l ELSE pc[d]
        /\ instance'[d] = IF d = c THEN x ELSE instance[d]
    BY GotoAt
<1>2. Holders(i)' = IF l \in Referencing /\ x = i THEN others \cup {c} ELSE others
    BY <1>1 DEF Holders
<1>3. /\ IsFiniteSet(others)
      /\ Cardinality(others) =
            Cardinality(Holders(i)) - (IF c \in Holders(i) THEN 1 ELSE 0)
      /\ Cardinality(others) \in Nat
      /\ Cardinality(Holders(i)) \in Nat
    BY HoldersFinite, FS_RemoveElement, FS_CardinalityType
<1>4. Cardinality(others \cup {c}) = Cardinality(others) + 1
    BY <1>3, FS_AddElement
<1> HIDE DEF others
<1>5. QED
    BY <1>2, <1>3, <1>4

(* Steps that change neither the anchor nor who owns what. *)
LEMMA QuietStep ==
    ASSUME AnchorInv, TypeOK',
           NEW c \in Clients, NEW l, NEW x, Goto(c, l, x),
           UNCHANGED <<anchor, created, destroyed, leaked>>,
           \/ pc[c] \in Referencing /\ l \in Referencing /\ x = instance[c]
           \/ pc[c] \notin Referencing \cup Private /\ l \notin Referencing \cup Private
    PROVE  AnchorInv'
<1> USE DEF AnchorInv
<1>1. \A d \in Clients :
        /\ pc'[d] = IF d = c THEN l ELSE pc[d]
        /\ instance'[d] = IF d = c THEN x ELSE instance[d]
    BY GotoAt
<1>2. \A i : Holders(i)' = Holders(i)
    BY <1>1 DEF Holders
<1>3. ReferenceCountExact'
    BY <1>2 DEF ReferenceCountExact, References
<1>4. OwnersOnAnchor'
    BY <1>1 DEF OwnersOnAnchor, OnAnchor, PositionsOf
<1>5. \A d \in Clients : pc'[d] \in Private =>
        pc[d] \in Private /\ instance'[d] = instance[d]
    BY <1>1 DEF Referencing, Private
<1>6. PrivateInstances'
    BY <1>5 DEF PrivateInstances, OnAnchor, PositionsOf
<1>7. \A d \in Clients : pc[d] \in Private =>
        pc'[d] \in Private /\ instance'[d] = instance[d]
    BY <1>1 DEF Referencing, Private
<1>8. LiveAccountedFor'
    BY <1>7 DEF LiveAccountedFor, OnAnchor, PositionsOf
<1>9. LeaksOnAnchor' /\ LiveOnAnchor' /\ WellFormed(anchor)'
    BY DEF LeaksOnAnchor, LiveOnAnchor, WellFormed, OnAnchor, PositionsOf
<1>10. QED
    BY <1>3, <1>4, <1>6, <1>8, <1>9

-----------------------------------------------------------------------------
(* Each action preserves the inductive invariant. *)

(* The new owner of a reference is counted by the registered node. *)
LEMMA GetReferenceInv ==
    ASSUME AnchorInv, NEW c \in Clients, GetReference(c)
    PROVE  AnchorInv'
<1> DEFINE i == ActiveInstance(anchor)
<1> USE DEF AnchorInv
<1>1. /\ i \in Instances
      /\ Len(anchor) > 0
      /\ i = anchor[1].adaptor
      /\ 1 \in 1..Len(anchor)
      /\ IsActive(anchor)
    <2>1. anchor \in Seq(Node) /\ Len(anchor) > 0 /\ i = anchor[1].adaptor /\ i # NoInstance
        BY NoInstanceAssumption
        DEF GetReference, IsActive, ActiveInstance, Registered, WellFormed
    <2>2. QED
        BY <2>1, NodeFields DEF GetReference
<1>2. OnAnchor(anchor, i)
    BY <1>1, OnAnchorAt
<1>3. TypeOK'
    BY <1>1, AddReferenceNodes
    DEF TypeOK, GetReference, Goto, Locations, Referencing, WellFormed
<1>4. Goto(c, "creating", i)
    BY DEF GetReference
<1>5. \A d \in Clients :
        /\ pc'[d] = IF d = c THEN "creating" ELSE pc[d]
        /\ instance'[d] = IF d = c THEN i ELSE instance[d]
    BY <1>4, GotoAt
<1>6. anchor' = AddReference(anchor) /\ UNCHANGED <<created, destroyed, leaked>>
    BY DEF GetReference
<1>7. \A j \in Instances : OnAnchor(anchor, j)' <=> OnAnchor(anchor, j)
    BY <1>1, <1>6, AddReferenceNodes
<1>8. WellFormed(anchor)'
    BY <1>1, <1>6, AddReferenceNodes
<1>9. ReferenceCountExact'
    <2>1. SUFFICES ASSUME NEW k \in 1..Len(anchor'),
                          anchor'[k].adaptor # NoInstance
                   PROVE  anchor'[k].reference_count = References(k)'
        BY DEF ReferenceCountExact
    <2>2. PICK j \in Instances :
              /\ k \in 1..Len(anchor)
              /\ anchor[k].adaptor = j /\ anchor'[k].adaptor = j
              /\ anchor'[k].reference_count =
                    anchor[k].reference_count + (IF k = 1 THEN 1 ELSE 0)
        <3>1. /\ k \in 1..Len(anchor)
              /\ anchor'[k].adaptor = anchor[k].adaptor
              /\ anchor'[k].reference_count =
                    anchor[k].reference_count + (IF k = 1 THEN 1 ELSE 0)
            BY <1>1, <1>6, <2>1, AddReferenceNodes
        <3>2. anchor[k].adaptor \in Instances
            BY <2>1, <3>1, NodeFields DEF WellFormed
        <3>3. QED
            BY <3>1, <3>2
    <2>3. anchor[k].reference_count = References(k)
        BY <2>1, <2>2 DEF ReferenceCountExact
    <2>4. k = 1 <=> j = i
        BY <1>1, <2>2 DEF WellFormed
    <2>5. c \notin Holders(j)
        BY DEF Holders, GetReference, Referencing
    <2>6. Cardinality(Holders(j)') = Cardinality(Holders(j)) + (IF k = 1 THEN 1 ELSE 0)
        BY <1>4, <2>4, <2>5, HoldersCount, HoldersFinite DEF Referencing
    <2>7. References(k)' =
            Cardinality(Holders(j)') + leaked[j] + (IF k = 1 THEN 1 ELSE 0)
        BY <1>6, <2>2 DEF References, Holders
    <2>8. j \in Instances /\ leaked[j] \in Nat
        BY <2>1, <2>2, NodeFields DEF WellFormed, TypeOK
    <2>9. QED
        BY <2>2, <2>3, <2>6, <2>7, <2>8, HoldersFinite DEF References
<1>10. OwnersOnAnchor'
    BY <1>1, <1>2, <1>5, <1>7 DEF OwnersOnAnchor
<1>11. \A d \in Clients : pc'[d] \in Private =>
        pc[d] \in Private /\ instance'[d] = instance[d]
    BY <1>5 DEF Private
<1>12. PrivateInstances'
    BY <1>6, <1>7, <1>11 DEF PrivateInstances, TypeOK
<1>13. LiveAccountedFor'
    <2>1. \A d \in Clients : pc[d] \in Private =>
            pc'[d] \in Private /\ instance'[d] = instance[d]
        BY <1>5 DEF Private, GetReference
    <2>2. QED
        BY <1>6, <1>7, <2>1 DEF LiveAccountedFor, TypeOK
<1>14. LeaksOnAnchor' /\ LiveOnAnchor'
    BY <1>6, <1>7 DEF LeaksOnAnchor, LiveOnAnchor
<1>15. QED
    BY <1>3, <1>6, <1>8, <1>9, <1>10, <1>12, <1>13, <1>14

(* A reference that is lost is counted as lost instead of owned. *)
LEMMA CreateSessionThrowsInv ==
    ASSUME AnchorInv, NEW c \in Clients, CreateSessionThrows(c)
    PROVE  AnchorInv'
<1> DEFINE i == instance[c]
<1> USE DEF AnchorInv
<1>1. i \in Instances /\ OnAnchor(anchor, i) /\ c \in Holders(i)
    BY DEF CreateSessionThrows, OwnersOnAnchor, Holders, Referencing
<1>2. TypeOK'
    BY <1>1, NoInstanceAssumption
    DEF TypeOK, CreateSessionThrows, Goto, Locations
<1>3. Goto(c, "idle", NoInstance) /\ UNCHANGED <<anchor, created, destroyed>>
    BY DEF CreateSessionThrows
<1>4. \A j \in Instances : leaked'[j] = leaked[j] + (IF j = i THEN 1 ELSE 0)
    BY <1>1 DEF CreateSessionThrows, TypeOK
<1>5. \A d \in Clients :
        /\ pc'[d] = IF d = c THEN "idle" ELSE pc[d]
        /\ instance'[d] = IF d = c THEN NoInstance ELSE instance[d]
    BY <1>3, GotoAt
<1>6. \A j \in Instances : OnAnchor(anchor, j)' <=> OnAnchor(anchor, j)
    BY <1>3 DEF OnAnchor, PositionsOf
<1>7. ReferenceCountExact'
    <2>1. SUFFICES ASSUME NEW k \in 1..Len(anchor),
                          anchor[k].adaptor # NoInstance
                   PROVE  anchor[k].reference_count = References(k)'
        BY <1>3 DEF ReferenceCountExact
    <2>2. PICK j \in Instances : anchor[k].adaptor = j
        BY <2>1, NodeFields DEF WellFormed
    <2>3. c \in Holders(j) <=> j = i
        BY <1>1 DEF Holders
    <2>4. Cardinality(Holders(j)') = Cardinality(Holders(j)) - (IF j = i THEN 1 ELSE 0)
        BY <1>3, <2>3, HoldersCount, HoldersFinite DEF Referencing
    <2>5. References(k)' =
            Cardinality(Holders(j)') + leaked'[j] + (IF k = 1 THEN 1 ELSE 0)
        BY <1>3, <2>2 DEF References, Holders
    <2>6. leaked[j] \in Nat
        BY <2>2 DEF TypeOK
    <2>7. anchor[k].reference_count = References(k)
        BY <2>1 DEF ReferenceCountExact
    <2>8. QED
        BY <1>4, <2>2, <2>4, <2>5, <2>6, <2>7, HoldersFinite DEF References
<1>8. OwnersOnAnchor'
    BY <1>5, <1>6 DEF OwnersOnAnchor, Referencing
<1>9. \A d \in Clients : pc'[d] \in Private =>
        pc[d] \in Private /\ instance'[d] = instance[d]
    BY <1>5 DEF Private
<1>10. PrivateInstances'
    BY <1>3, <1>6, <1>9 DEF PrivateInstances, TypeOK
<1>11. LiveAccountedFor'
    <2>1. \A d \in Clients : pc[d] \in Private =>
            pc'[d] \in Private /\ instance'[d] = instance[d]
        BY <1>5 DEF Private, CreateSessionThrows
    <2>2. QED
        BY <1>3, <1>6, <2>1 DEF LiveAccountedFor, TypeOK
<1>12. LeaksOnAnchor'
    BY <1>1, <1>4, <1>6 DEF LeaksOnAnchor, TypeOK
<1>13. LiveOnAnchor' /\ WellFormed(anchor)'
    BY <1>3, <1>6 DEF LiveOnAnchor
<1>14. QED
    BY <1>2, <1>3, <1>7, <1>8, <1>10, <1>11, <1>12, <1>13

(* A created instance belongs to the thread that is going to activate it. *)
LEMMA CreateInstanceInv ==
    ASSUME AnchorInv, NEW c \in Clients, CreateInstance(c)
    PROVE  AnchorInv'
<1> USE DEF AnchorInv
<1>1. PICK i \in Instances \ created :
        created' = created \cup {i} /\ Goto(c, "activating", i)
    BY DEF CreateInstance
<1>2. UNCHANGED <<anchor, destroyed, leaked>> /\ pc[c] \notin Referencing \cup Private
    BY DEF CreateInstance, Referencing, Private
<1>3. TypeOK'
    BY <1>1 DEF TypeOK, CreateInstance, Goto, Locations
<1>4. \A d \in Clients :
        /\ pc'[d] = IF d = c THEN "activating" ELSE pc[d]
        /\ instance'[d] = IF d = c THEN i ELSE instance[d]
    BY <1>1, GotoAt
<1>5. \A j \in Instances : OnAnchor(anchor, j)' <=> OnAnchor(anchor, j)
    BY <1>2 DEF OnAnchor, PositionsOf
<1>6. ~OnAnchor(anchor, i)
    BY <1>1 DEF LiveOnAnchor
<1>7. \A j : Holders(j)' = Holders(j)
    BY <1>2, <1>4 DEF Holders, Referencing
<1>8. ReferenceCountExact'
    BY <1>2, <1>7 DEF ReferenceCountExact, References
<1>9. OwnersOnAnchor'
    BY <1>4, <1>5 DEF OwnersOnAnchor, Referencing
<1>10. PrivateInstances'
    BY <1>1, <1>2, <1>4, <1>5, <1>6 DEF PrivateInstances, TypeOK
<1>11. LiveAccountedFor'
    <2>1. \A d \in Clients : pc[d] \in Private =>
            pc'[d] \in Private /\ instance'[d] = instance[d]
        BY <1>2, <1>4
    <2>2. pc'[c] \in Private /\ instance'[c] = i
        BY <1>4 DEF Private
    <2>3. QED
        BY <1>1, <1>2, <1>5, <2>1, <2>2 DEF LiveAccountedFor, TypeOK
<1>12. LeaksOnAnchor' /\ LiveOnAnchor' /\ WellFormed(anchor)' /\ (destroyed \subseteq created)'
    BY <1>1, <1>2, <1>5 DEF LeaksOnAnchor, LiveOnAnchor
<1>13. QED
    BY <1>3, <1>8, <1>9, <1>10, <1>11, <1>12

(* The thread that takes the anchor over owns the base reference of the
   instance it replaced, and that instance's copy counts it as one of its
   owners' references. *)
LEMMA SetInstanceActiveInv ==
    ASSUME AnchorInv, NEW c \in Clients, NEW i \in Instances \cup {NoInstance},
           SetInstanceActive(c, i),
           \/ pc[c] = "activating" /\ instance[c] = i
           \/ pc[c] = "idle" /\ i = NoInstance /\ Registered(anchor)
    PROVE  AnchorInv'
<1> USE DEF AnchorInv
<1> USE NoInstanceAssumption
<1>1. /\ i \in Instances => ~OnAnchor(anchor, i) /\ i \in created \ destroyed
      /\ i = NoInstance => Registered(anchor)
      /\ pc[c] \notin Referencing
    <2>1. CASE pc[c] = "activating" /\ instance[c] = i
        BY <2>1 DEF PrivateInstances, Private, TypeOK, Referencing
    <2>2. CASE pc[c] = "idle" /\ i = NoInstance /\ Registered(anchor)
        BY <2>2 DEF Referencing
    <2>3. QED
        BY <2>1, <2>2
<1>2. anchor' = SetActive(anchor, i) /\ UNCHANGED <<created, destroyed, leaked>>
    BY DEF SetInstanceActive
<1>3. /\ WellFormed(anchor')
      /\ Len(anchor') > 0
      /\ anchor'[1] = NewNode(i, BaseCount(i))
      /\ \A m \in 2..Len(anchor') :
            \E k \in 1..Len(anchor) :
                anchor'[m] = anchor[k] /\ (k = 1 => IsActive(anchor))
      /\ \A j \in Instances : OnAnchor(anchor', j) <=> OnAnchor(anchor, j) \/ j = i
    BY <1>1, <1>2, SetActiveNodes
<1>4. PICK l, x :
        /\ Goto(c, l, x)
        /\ IsActive(anchor) =>
                l = "retiring" /\ x = anchor[1].adaptor /\ x \in Instances
                /\ OnAnchor(anchor, x)
        /\ ~IsActive(anchor) => l \in {"idle", "retry"} /\ x = NoInstance
    <2>1. CASE IsActive(anchor)
        <3>1. /\ 1 \in 1..Len(anchor)
              /\ ActiveInstance(anchor) = anchor[1].adaptor
              /\ anchor[1].adaptor # NoInstance
            BY <2>1 DEF IsActive, ActiveInstance, Registered, WellFormed
        <3>2. anchor[1].adaptor \in Instances
            BY <3>1, NodeFields DEF WellFormed
        <3>3. OnAnchor(anchor, anchor[1].adaptor)
            BY <3>1, OnAnchorAt
        <3>4. QED
            BY <2>1, <3>1, <3>2, <3>3 DEF SetInstanceActive
    <2>2. CASE ~IsActive(anchor)
        BY <2>2 DEF SetInstanceActive, TypeOK
    <2>3. QED
        BY <2>1, <2>2
<1>5. \A d \in Clients :
        /\ pc'[d] = IF d = c THEN l ELSE pc[d]
        /\ instance'[d] = IF d = c THEN x ELSE instance[d]
    BY <1>4, GotoAt
<1>6. TypeOK'
    BY <1>2, <1>3, <1>4
    DEF TypeOK, SetInstanceActive, Goto, Locations, Referencing, WellFormed
<1>7. l \notin Private
    BY <1>4 DEF Private
<1>8. ReferenceCountExact'
    <2>1. SUFFICES ASSUME NEW m \in 1..Len(anchor'),
                          anchor'[m].adaptor # NoInstance
                   PROVE  anchor'[m].reference_count = References(m)'
        BY DEF ReferenceCountExact
    <2>2. PICK j \in Instances : anchor'[m].adaptor = j
        BY <1>3, <2>1, NodeFields DEF WellFormed
    <2>3. References(m)' =
            Cardinality(Holders(j)') + leaked[j] + (IF m = 1 THEN 1 ELSE 0)
        BY <1>2, <2>2 DEF References, Holders
    <2>4. Cardinality(Holders(j)') =
            Cardinality(Holders(j)) + (IF l \in Referencing /\ x = j THEN 1 ELSE 0)
        <3>1. c \notin Holders(j)
            BY <1>1 DEF Holders
        <3>2. QED
            BY <1>4, <3>1, HoldersCount, HoldersFinite
    <2>5. CASE m = 1
        <3>1. j = i /\ anchor'[m].reference_count = 1
            BY <1>3, <2>2, <2>5 DEF NewNode, BaseCount
        <3>2. Holders(j) = {} /\ leaked[j] = 0
            BY <1>1, <3>1 DEF Holders, OwnersOnAnchor, LeaksOnAnchor, TypeOK
        <3>3. ~(l \in Referencing /\ x = j)
            BY <1>1, <1>4, <3>1 DEF Referencing
        <3>4. QED
            BY <2>3, <2>4, <2>5, <3>1, <3>2, <3>3, FS_EmptySet
    <2>6. CASE m # 1
        <3>1. PICK k \in 1..Len(anchor) :
                anchor'[m] = anchor[k] /\ (k = 1 => IsActive(anchor))
            BY <1>3, <2>6
        <3>2. anchor[k].adaptor = j /\ anchor[k].reference_count = References(k)
            BY <2>1, <2>2, <3>1 DEF ReferenceCountExact
        <3>3. k = 1 <=> l \in Referencing /\ x = j
            <4>1. CASE IsActive(anchor)
                <5>1. 1 \in 1..Len(anchor) /\ x = anchor[1].adaptor /\ l \in Referencing
                    BY <1>4, <4>1
                    DEF IsActive, ActiveInstance, Registered, WellFormed, Referencing
                <5>2. QED
                    BY <3>2, <5>1 DEF WellFormed
            <4>2. CASE ~IsActive(anchor)
                BY <1>4, <3>1, <4>2 DEF Referencing
            <4>3. QED
                BY <4>1, <4>2
        <3>4. leaked[j] \in Nat
            BY DEF TypeOK
        <3>5. QED
            BY <2>3, <2>4, <2>6, <3>1, <3>2, <3>3, <3>4, HoldersFinite DEF References
    <2>7. QED
        BY <2>5, <2>6
<1>9. OwnersOnAnchor'
    <2>1. SUFFICES ASSUME NEW d \in Clients, pc'[d] \in Referencing
                   PROVE  instance'[d] \in Instances /\ OnAnchor(anchor', instance'[d])
        BY DEF OwnersOnAnchor
    <2>2. CASE d = c
        <3>1. instance'[d] = x /\ l \in Referencing
            BY <1>5, <2>1, <2>2
        <3>2. IsActive(anchor)
            BY <1>4, <3>1 DEF Referencing
        <3>3. QED
            BY <1>3, <1>4, <3>1, <3>2
    <2>3. CASE d # c
        BY <1>3, <1>5, <2>1, <2>3 DEF OwnersOnAnchor
    <2>4. QED
        BY <2>2, <2>3
<1>10. PrivateInstances'
    <2>1. ASSUME NEW d \in Clients, pc'[d] \in Private
          PROVE  /\ d # c /\ pc[d] \in Private
                 /\ instance'[d] = instance[d] /\ instance[d] \in Instances
                 /\ instance[d] # i
        <3>1. d # c /\ pc[d] \in Private /\ instance'[d] = instance[d]
            BY <1>5, <1>7, <2>1
        <3>2. instance[d] \in Instances
            BY <3>1 DEF PrivateInstances, TypeOK
        <3>3. i \in Instances => pc[c] \in Private /\ instance[c] = i
            BY DEF Private
        <3>4. QED
            BY <3>1, <3>2, <3>3 DEF PrivateInstances
    <2>2. QED
        BY <1>2, <1>3, <2>1 DEF PrivateInstances
<1>11. LiveAccountedFor'
    <2>1. ASSUME NEW j \in created \ destroyed
          PROVE  \/ OnAnchor(anchor', j)
                 \/ \E d \in Clients : pc'[d] \in Private /\ instance'[d] = j
        <3>1. CASE OnAnchor(anchor, j) \/ j = i
            BY <1>3, <2>1, <3>1 DEF TypeOK
        <3>2. CASE ~OnAnchor(anchor, j) /\ j # i
            <4>1. PICK d \in Clients : pc[d] \in Private /\ instance[d] = j
                BY <2>1, <3>2 DEF LiveAccountedFor
            <4>2. d # c
                BY <3>2, <4>1 DEF Private
            <4>3. QED
                BY <1>5, <4>1, <4>2
        <3>3. QED
            BY <3>1, <3>2
    <2>2. QED
        BY <1>2, <2>1 DEF LiveAccountedFor
<1>12. LeaksOnAnchor' /\ LiveOnAnchor'
    BY <1>1, <1>2, <1>3 DEF LeaksOnAnchor, LiveOnAnchor
<1>13. QED
    BY <1>2, <1>3, <1>6, <1>8, <1>9, <1>10, <1>11, <1>12

(* A release takes the reference of the thread out of the count, and the
   node out of the chain only with the last reference there is. *)
LEMMA ReleaseReferenceInv ==
    ASSUME AnchorInv, NEW c \in Clients, pc[c] \in {"open", "retiring"},
           ReleaseReference(c)
    PROVE  AnchorInv'
<1> USE DEF AnchorInv
<1>1. PICK i \in Instances : instance[c] = i /\ OnAnchor(anchor, i)
    BY DEF OwnersOnAnchor, Referencing
<1>2. c \in Holders(i) /\ \A j \in Instances : c \in Holders(j) <=> j = i
    BY <1>1 DEF Holders, Referencing
<1>3. anchor' = Release(anchor, i) /\ UNCHANGED <<created, destroyed, leaked>>
    BY <1>1 DEF ReleaseReference
<1>4. /\ WellFormed(anchor')
      /\ LastReference(anchor, i) <=>
            \E k \in 1..Len(anchor) :
                anchor[k].adaptor = i /\ anchor[k].reference_count <= 1
      /\ \A m \in 1..Len(anchor') :
            anchor'[m].adaptor # NoInstance =>
                \E n \in 1..Len(anchor) :
                    /\ n = 1 <=> m = 1
                    /\ anchor'[m].adaptor = anchor[n].adaptor
                    /\ anchor'[m].reference_count =
                         anchor[n].reference_count
                         - (IF anchor[n].adaptor = i THEN 1 ELSE 0)
      /\ \A j \in Instances :
            OnAnchor(anchor', j) <=>
                OnAnchor(anchor, j) /\ (j = i => ~LastReference(anchor, i))
    BY <1>1, <1>3, ReleaseNodes
<1>5. PICK l, x :
        /\ Goto(c, l, x)
        /\ LastReference(anchor, i) => l = "destroying" /\ x = i
        /\ ~LastReference(anchor, i) => l \in {"idle", "retry"} /\ x = NoInstance
    BY <1>1 DEF ReleaseReference, TypeOK
<1>6. \A d \in Clients :
        /\ pc'[d] = IF d = c THEN l ELSE pc[d]
        /\ instance'[d] = IF d = c THEN x ELSE instance[d]
    BY <1>5, GotoAt
<1>7. TypeOK'
    BY <1>3, <1>4, <1>5 DEF TypeOK, ReleaseReference, Goto, Locations, WellFormed
<1>8. l \notin Referencing
    BY <1>5 DEF Referencing
<1>9. LastReference(anchor, i) => Holders(i) = {c} /\ leaked[i] = 0
    <2>1. SUFFICES ASSUME LastReference(anchor, i)
                   PROVE  Holders(i) = {c} /\ leaked[i] = 0
        OBVIOUS
    <2>2. PICK k \in 1..Len(anchor) :
            anchor[k].adaptor = i /\ anchor[k].reference_count <= 1
        BY <1>4, <2>1
    <2>3. anchor[k].reference_count =
            Cardinality(Holders(i)) + leaked[i] + (IF k = 1 THEN 1 ELSE 0)
        BY <2>2, NoInstanceAssumption DEF ReferenceCountExact, References
    <2>4. /\ IsFiniteSet(Holders(i) \ {c})
          /\ Cardinality(Holders(i) \ {c}) = Cardinality(Holders(i)) - 1
          /\ Cardinality(Holders(i) \ {c}) \in Nat
        BY <1>2, HoldersFinite, FS_RemoveElement, FS_CardinalityType
    <2>5. leaked[i] \in Nat
        BY DEF TypeOK
    <2>6. Cardinality(Holders(i) \ {c}) = 0 /\ leaked[i] = 0
        BY <2>2, <2>3, <2>4, <2>5, HoldersFinite
    <2>7. Holders(i) \ {c} = {}
        BY <2>4, <2>6, FS_EmptySet
    <2>8. QED
        BY <1>2, <2>6, <2>7
<1>10. ReferenceCountExact'
    <2>1. SUFFICES ASSUME NEW m \in 1..Len(anchor'),
                          anchor'[m].adaptor # NoInstance
                   PROVE  anchor'[m].reference_count = References(m)'
        BY DEF ReferenceCountExact
    <2>2. PICK j \in Instances : anchor'[m].adaptor = j
        BY <1>4, <2>1, NodeFields DEF WellFormed
    <2>3. PICK n \in 1..Len(anchor) :
            /\ n = 1 <=> m = 1
            /\ anchor[n].adaptor = j
            /\ anchor'[m].reference_count =
                 anchor[n].reference_count - (IF j = i THEN 1 ELSE 0)
        BY <1>4, <2>1, <2>2
    <2>4. anchor[n].reference_count =
            Cardinality(Holders(j)) + leaked[j] + (IF n = 1 THEN 1 ELSE 0)
        BY <2>3, NoInstanceAssumption DEF ReferenceCountExact, References
    <2>5. Cardinality(Holders(j)') = Cardinality(Holders(j)) - (IF j = i THEN 1 ELSE 0)
        BY <1>2, <1>5, <1>8, HoldersCount, HoldersFinite
    <2>6. References(m)' =
            Cardinality(Holders(j)') + leaked[j] + (IF m = 1 THEN 1 ELSE 0)
        BY <1>3, <2>2 DEF References, Holders
    <2>7. leaked[j] \in Nat
        BY DEF TypeOK
    <2>8. QED
        BY <2>3, <2>4, <2>5, <2>6, <2>7, HoldersFinite
<1>11. OwnersOnAnchor'
    <2>1. SUFFICES ASSUME NEW d \in Clients, pc'[d] \in Referencing
                   PROVE  instance'[d] \in Instances /\ OnAnchor(anchor', instance'[d])
        BY DEF OwnersOnAnchor
    <2>2. d # c /\ pc[d] \in Referencing /\ instance'[d] = instance[d]
        BY <1>6, <1>8, <2>1
    <2>3. instance[d] \in Instances /\ OnAnchor(anchor, instance[d])
        BY <2>2 DEF OwnersOnAnchor
    <2>4. instance[d] = i => d \in Holders(i)
        BY <2>2 DEF Holders
    <2>5. QED
        BY <1>4, <1>9, <2>2, <2>3, <2>4
<1>12. PrivateInstances'
    <2>1. ASSUME NEW d \in Clients, d # c, pc'[d] \in Private
          PROVE  /\ pc[d] \in Private /\ instance'[d] = instance[d]
                 /\ instance[d] \in Instances /\ instance[d] # i
        BY <1>1, <1>6, <2>1 DEF PrivateInstances, TypeOK
    <2>2. pc'[c] \in Private => instance'[c] = i /\ LastReference(anchor, i)
        BY <1>5, <1>6 DEF Private
    <2>3. i \in created \ destroyed
        BY <1>1 DEF LiveOnAnchor
    <2>4. SUFFICES ASSUME NEW d \in Clients, pc'[d] \in Private
                   PROVE  /\ instance'[d] \in created \ destroyed
                          /\ ~OnAnchor(anchor', instance'[d])
                          /\ \A e \in Clients :
                                pc'[e] \in Private /\ instance'[e] = instance'[d] => d = e
        BY <1>3 DEF PrivateInstances
    <2>5. CASE d = c
        BY <1>4, <2>1, <2>2, <2>3, <2>4, <2>5
    <2>6. CASE d # c
        BY <1>4, <2>1, <2>2, <2>4, <2>6 DEF PrivateInstances
    <2>7. QED
        BY <2>5, <2>6
<1>13. LiveAccountedFor'
    <2>1. ASSUME NEW j \in created \ destroyed
          PROVE  \/ OnAnchor(anchor', j)
                 \/ \E d \in Clients : pc'[d] \in Private /\ instance'[d] = j
        <3>1. CASE OnAnchor(anchor, j)
            <4>1. CASE j = i /\ LastReference(anchor, i)
                BY <1>5, <1>6, <4>1 DEF Private
            <4>2. CASE ~(j = i /\ LastReference(anchor, i))
                BY <1>4, <2>1, <3>1, <4>2 DEF TypeOK
            <4>3. QED
                BY <4>1, <4>2
        <3>2. CASE ~OnAnchor(anchor, j)
            <4>1. PICK d \in Clients : pc[d] \in Private /\ instance[d] = j
                BY <2>1, <3>2 DEF LiveAccountedFor
            <4>2. d # c
                BY <1>1, <3>2, <4>1
            <4>3. QED
                BY <1>6, <4>1, <4>2
        <3>3. QED
            BY <3>1, <3>2
    <2>2. QED
        BY <1>3, <2>1 DEF LiveAccountedFor
<1>14. LeaksOnAnchor'
    BY <1>3, <1>4, <1>9 DEF LeaksOnAnchor, TypeOK
<1>15. LiveOnAnchor'
    BY <1>3, <1>4 DEF LiveOnAnchor
<1>16. QED
    BY <1>3, <1>4, <1>7, <1>10, <1>11, <1>12, <1>13, <1>14, <1>15

(* The thread that destroys an instance has it for itself. *)
LEMMA DestroyInv ==
    ASSUME AnchorInv, NEW c \in Clients, Destroy(c)
    PROVE  AnchorInv'
<1> USE DEF AnchorInv
<1>1. PICK i : instance[c] = i
    OBVIOUS
<1>2. /\ pc[c] \in Private /\ pc[c] \notin Referencing
      /\ destroyed' = destroyed \cup {i}
      /\ UNCHANGED <<anchor, created, leaked>>
    BY <1>1 DEF Destroy, Private, Referencing
<1>3. i \in created \ destroyed /\ i \in Instances /\ ~OnAnchor(anchor, i)
    BY <1>1, <1>2 DEF PrivateInstances, TypeOK
<1>4. PICK l : Goto(c, l, NoInstance) /\ l \in {"idle", "retry"}
    BY DEF Destroy, TypeOK
<1>5. \A d \in Clients :
        /\ pc'[d] = IF d = c THEN l ELSE pc[d]
        /\ instance'[d] = IF d = c THEN NoInstance ELSE instance[d]
    BY <1>4, GotoAt
<1>6. TypeOK'
    BY <1>2, <1>3, <1>4 DEF TypeOK, Destroy, Goto, Locations
<1>7. l \notin Private /\ l \notin Referencing
    BY <1>4 DEF Private, Referencing
<1>8. \A j : Holders(j)' = Holders(j)
    BY <1>2, <1>5, <1>7 DEF Holders
<1>9. ReferenceCountExact'
    BY <1>2, <1>8 DEF ReferenceCountExact, References
<1>10. \A j \in Instances : OnAnchor(anchor, j)' <=> OnAnchor(anchor, j)
    BY <1>2 DEF OnAnchor, PositionsOf
<1>11. OwnersOnAnchor'
    BY <1>5, <1>7, <1>10 DEF OwnersOnAnchor
<1>12. \A d \in Clients : pc'[d] \in Private =>
        /\ pc[d] \in Private /\ instance'[d] = instance[d]
        /\ instance[d] # i /\ instance[d] \in Instances
    BY <1>1, <1>2, <1>5, <1>7 DEF PrivateInstances, TypeOK
<1>13. PrivateInstances'
    BY <1>2, <1>10, <1>12 DEF PrivateInstances
<1>14. LiveAccountedFor'
    <2>1. \A d \in Clients : pc[d] \in Private /\ instance[d] # i =>
            pc'[d] \in Private /\ instance'[d] = instance[d]
        BY <1>1, <1>5
    <2>2. QED
        BY <1>2, <1>10, <2>1 DEF LiveAccountedFor, TypeOK
<1>15. LeaksOnAnchor' /\ LiveOnAnchor' /\ WellFormed(anchor)'
    BY <1>2, <1>3, <1>10 DEF LeaksOnAnchor, LiveOnAnchor
<1>16. (destroyed \subseteq created)'
    BY <1>2, <1>3
<1>17. QED
    BY <1>6, <1>9, <1>11, <1>13, <1>14, <1>15, <1>16

-----------------------------------------------------------------------------
(* The theorems. *)

LEMMA InitInv == Init => AnchorInv
<1> SUFFICES ASSUME Init PROVE AnchorInv
    OBVIOUS
<1>1. TypeOK /\ WellFormed(anchor)
    BY DEF Init, TypeOK, Locations, WellFormed
<1>2. ASSUME NEW i PROVE ~OnAnchor(anchor, i)
    <2>1. \A k \in 1..Len(anchor) : FALSE
        BY DEF Init
    <2>2. QED
        BY <2>1 DEF OnAnchor, PositionsOf
<1>3. QED
    BY <1>1, <1>2 DEF Init, AnchorInv, ReferenceCountExact, OwnersOnAnchor,
       PrivateInstances, LeaksOnAnchor, LiveOnAnchor, LiveAccountedFor,
       Referencing, Private

LEMMA NextInv == AnchorInv /\ [Next]_vars => AnchorInv'
<1> SUFFICES ASSUME AnchorInv, [Next]_vars PROVE AnchorInv'
    OBVIOUS
<1>1. ASSUME NEW c \in Clients, FindNone(c) PROVE AnchorInv'
    <2>1. TypeOK' /\ Goto(c, "autostart", NoInstance)
        BY <1>1 DEF AnchorInv, TypeOK, FindNone, Goto, Locations
    <2>2. QED
        BY <1>1, <2>1, QuietStep DEF FindNone, Referencing, Private
<1>2. ASSUME NEW c \in Clients, AutostartStartsNothing(c) PROVE AnchorInv'
    <2>1. PICK l \in {"retry", "idle"} : Goto(c, l, NoInstance)
        BY <1>2 DEF AutostartStartsNothing
    <2>2. TypeOK'
        BY <1>2, <2>1 DEF AnchorInv, TypeOK, AutostartStartsNothing, Goto, Locations
    <2>3. QED
        BY <1>2, <2>1, <2>2, QuietStep
        DEF AutostartStartsNothing, Referencing, Private
<1>3. ASSUME NEW c \in Clients, NotAvailable(c) PROVE AnchorInv'
    <2>1. TypeOK' /\ Goto(c, "idle", NoInstance)
        BY <1>3 DEF AnchorInv, TypeOK, NotAvailable, Goto, Locations
    <2>2. QED
        BY <1>3, <2>1, QuietStep DEF NotAvailable, Referencing, Private
<1>4. ASSUME NEW c \in Clients, CreateSession(c) PROVE AnchorInv'
    <2>1. TypeOK' /\ Goto(c, "open", instance[c])
        BY <1>4 DEF AnchorInv, TypeOK, CreateSession, Goto, Locations, Referencing
    <2>2. QED
        BY <1>4, <2>1, QuietStep DEF CreateSession, Referencing
<1>5. ASSUME NEW c \in Clients, Activate(c) PROVE AnchorInv'
    <2>1. PICK i \in Instances : instance[c] = i
        BY <1>5 DEF Activate, AnchorInv, PrivateInstances, Private, TypeOK
    <2>2. QED
        BY <1>5, <2>1, SetInstanceActiveInv DEF Activate
<1>6. ASSUME NEW c \in Clients, Stop(c) PROVE AnchorInv'
    BY <1>6, SetInstanceActiveInv DEF Stop
<1>7. ASSUME NEW c \in Clients, CloseSession(c) \/ ReleaseRetired(c) PROVE AnchorInv'
    BY <1>7, ReleaseReferenceInv DEF CloseSession, ReleaseRetired
<1>8. CASE Next
    BY <1>1, <1>2, <1>3, <1>4, <1>5, <1>6, <1>7, <1>8,
       GetReferenceInv, CreateSessionThrowsInv, CreateInstanceInv, DestroyInv
    DEF Next
<1>9. CASE UNCHANGED vars
    <2>1. TypeOK' /\ WellFormed(anchor)'
        BY <1>9 DEF AnchorInv, TypeOK, WellFormed, vars
    <2>2. QED
        BY <1>9, <2>1 DEF AnchorInv, vars, ReferenceCountExact, References, Holders,
           OwnersOnAnchor, PrivateInstances, LeaksOnAnchor, LiveOnAnchor,
           LiveAccountedFor, OnAnchor, PositionsOf
<1>10. QED
    BY <1>8, <1>9

(* The inductive invariant holds in every reachable state: in particular
   every variable keeps its type. *)
THEOREM AnchorInvariant == Spec => []AnchorInv
BY InitInv, NextInv, PTL DEF Spec

(* A node's reference_count is always the number of references to its
   instance (impl_set_instance_active, impl_get_reference and
   afw_adaptor_release together keep it so). *)
THEOREM CountsAreExact == Spec => []ReferenceCountExact
<1>1. AnchorInv => ReferenceCountExact
    BY DEF AnchorInv
<1>2. QED
    BY <1>1, AnchorInvariant, PTL

(* No thread and no node refers to an instance that afw_adaptor_destroy is
   called for. *)
THEOREM NoUseAfterDestroyHolds == Spec => []NoUseAfterDestroy
<1>1. ASSUME AnchorInv PROVE NoUseAfterDestroy
    <2>1. SUFFICES ASSUME NEW i \in Instances,
                          i \in destroyed \/ (\E c \in Clients :
                              pc[c] = "destroying" /\ instance[c] = i)
                   PROVE  Holders(i) = {} /\ ~OnAnchor(anchor, i)
        BY DEF NoUseAfterDestroy
    <2>2. ~OnAnchor(anchor, i)
        BY <1>1, <2>1 DEF AnchorInv, LiveOnAnchor, PrivateInstances, Private
    <2>3. QED
        BY <1>1, <2>2 DEF AnchorInv, OwnersOnAnchor, Holders
<1>2. QED
    BY <1>1, AnchorInvariant, PTL

(* Of two threads that drop references to the same instance only one
   destroys it, and only once. *)
THEOREM DestroyedOnceHolds == Spec => []DestroyedOnce
<1>1. AnchorInv => DestroyedOnce
    BY DEF AnchorInv, DestroyedOnce, PrivateInstances, Private
<1>2. QED
    BY <1>1, AnchorInvariant, PTL

(* An instance is never off the anchor without a thread that is going to
   activate or destroy it. *)
THEOREM NothingLostHolds == Spec => []NothingLost
<1>1. ASSUME AnchorInv PROVE NothingLost
    <2>1. SUFFICES ASSUME NEW i \in created \ destroyed, OnAnchor(anchor, i)
                   PROVE  \E k \in 1..Len(anchor) : PositionsOf(anchor, i) = {k}
        BY <1>1 DEF AnchorInv, NothingLost, LiveAccountedFor, Private
    <2>2. PICK k \in PositionsOf(anchor, i) : TRUE
        BY <2>1 DEF OnAnchor
    <2>3. PositionsOf(anchor, i) = {k} /\ k \in 1..Len(anchor)
        BY <1>1, <2>2, OnePosition DEF AnchorInv, PositionsOf
    <2>4. QED
        BY <2>3
<1>2. QED
    BY <1>1, AnchorInvariant, PTL

-----------------------------------------------------------------------------
(* The anchor implements the lease contract. *)

LEMMA InitLease == Init => Lease!Init
<1> SUFFICES ASSUME Init PROVE Lease!Init
    OBVIOUS
<1>1. ActiveInstance(anchor) = NoInstance
    BY DEF Init, ActiveInstance, Registered
<1>2. InUse = {} /\ LeaseOf = [c \in Clients |-> NoInstance]
    BY DEF Init, InUse, LeaseOf
<1>3. destroyed = {}
    BY DEF Init
<1>4. QED
    BY <1>1, <1>2, <1>3 DEF Lease!Init

(* Leases and instances in use, after a step of one client. *)
LEMMA LeaseOfGoto ==
    ASSUME TypeOK, NEW c \in Clients, NEW l, NEW x, Goto(c, l, x)
    PROVE  LeaseOf' = [LeaseOf EXCEPT ![c] =
                          IF l \in {"creating", "open"} THEN x ELSE NoInstance]
<1>1. \A d \in Clients :
        /\ pc'[d] = IF d = c THEN l ELSE pc[d]
        /\ instance'[d] = IF d = c THEN x ELSE instance[d]
    BY GotoAt
<1>2. QED
    BY <1>1 DEF LeaseOf

LEMMA InUseGoto ==
    ASSUME TypeOK, NEW c \in Clients, NEW l, NEW x, Goto(c, l, x),
           pc[c] # "activating", l # "activating", created' = created
    PROVE  InUse' = InUse
<1>1. \A d \in Clients :
        /\ pc'[d] = "activating" <=> pc[d] = "activating"
        /\ pc[d] = "activating" => instance'[d] = instance[d]
    BY GotoAt
<1>2. QED
    BY <1>1 DEF InUse

(* A release never takes the active instance away: the base reference is
   still counted. *)
LEMMA ReleaseKeepsActive ==
    ASSUME AnchorInv, NEW c \in Clients, pc[c] \in {"open", "retiring"},
           ReleaseReference(c)
    PROVE  ActiveInstance(anchor)' = ActiveInstance(anchor)
<1> USE DEF AnchorInv
<1>1. PICK i \in Instances : instance[c] = i /\ OnAnchor(anchor, i)
    BY DEF OwnersOnAnchor, Referencing
<1>2. anchor' = Release(anchor, i)
    BY <1>1 DEF ReleaseReference
<1>3. /\ WellFormed(anchor')
      /\ LastReference(anchor, i) <=>
            \E k \in 1..Len(anchor) :
                anchor[k].adaptor = i /\ anchor[k].reference_count <= 1
      /\ \A m \in 1..Len(anchor') :
            anchor'[m].adaptor # NoInstance =>
                \E n \in 1..Len(anchor) :
                    (n = 1 <=> m = 1) /\ anchor'[m].adaptor = anchor[n].adaptor
      /\ \A j \in Instances :
            OnAnchor(anchor', j) <=>
                OnAnchor(anchor, j) /\ (j = i => ~LastReference(anchor, i))
    BY <1>1, <1>2, ReleaseNodes
<1>4. anchor \in Seq(Node) /\ anchor' \in Seq(Node)
    BY <1>3 DEF WellFormed
<1>5. CASE IsActive(anchor)
    <2>1. PICK j \in Instances :
            j = anchor[1].adaptor /\ 1 \in 1..Len(anchor) /\ ActiveInstance(anchor) = j
        BY <1>4, <1>5, NodeFields DEF IsActive, ActiveInstance, Registered
    <2>2. j = i => ~LastReference(anchor, i)
        <3>1. SUFFICES ASSUME j = i, LastReference(anchor, i) PROVE FALSE
            OBVIOUS
        <3>2. PICK k \in 1..Len(anchor) :
                anchor[k].adaptor = i /\ anchor[k].reference_count <= 1
            BY <1>3, <3>1
        <3>3. k = 1
            BY <2>1, <3>1, <3>2 DEF WellFormed
        <3>4. anchor[k].reference_count = Cardinality(Holders(i)) + leaked[i] + 1
            BY <3>2, <3>3, NoInstanceAssumption DEF ReferenceCountExact, References
        <3>5. c \in Holders(i)
            BY <1>1 DEF Holders, Referencing
        <3>6. Cardinality(Holders(i)) # 0
            BY <3>5, HoldersFinite, FS_EmptySet
        <3>7. leaked[i] \in Nat
            BY DEF TypeOK
        <3>8. QED
            BY <3>2, <3>4, <3>6, <3>7, HoldersFinite
    <2>3. OnAnchor(anchor', j)
        BY <1>3, <2>1, <2>2, OnAnchorAt
    <2>4. PICK m \in 1..Len(anchor') : anchor'[m].adaptor = j
        BY <2>3, OnAnchorAt
    <2>5. PICK n \in 1..Len(anchor) :
            (n = 1 <=> m = 1) /\ anchor[n].adaptor = j
        BY <1>3, <2>4, NoInstanceAssumption
    <2>6. n = 1
        BY <2>1, <2>5 DEF WellFormed
    <2>7. QED
        BY <1>4, <2>1, <2>4, <2>5, <2>6 DEF ActiveInstance, Registered
<1>6. CASE ~IsActive(anchor)
    <2>1. ActiveInstance(anchor) = NoInstance
        BY <1>6 DEF IsActive
    <2>2. ASSUME Len(anchor') > 0 PROVE anchor'[1].adaptor = NoInstance
        <3>1. SUFFICES ASSUME anchor'[1].adaptor # NoInstance PROVE FALSE
            OBVIOUS
        <3>2. PICK n \in 1..Len(anchor) :
                n = 1 /\ anchor'[1].adaptor = anchor[n].adaptor
            BY <1>3, <1>4, <2>2, <3>1
        <3>3. QED
            BY <1>4, <2>1, <3>1, <3>2 DEF ActiveInstance, Registered
    <2>3. QED
        BY <2>1, <2>2 DEF ActiveInstance, Registered
<1>7. QED
    BY <1>5, <1>6

LEMMA NextLease == AnchorInv /\ [Next]_vars => [Lease!Next]_(Lease!vars)
<1> SUFFICES ASSUME AnchorInv, [Next]_vars PROVE [Lease!Next]_(Lease!vars)
    OBVIOUS
<1> USE DEF AnchorInv
<1> USE NoInstanceAssumption
<1>2. ASSUME NEW c \in Clients, GetReference(c) PROVE Lease!Take(c)
    <2>1. PICK i : i = ActiveInstance(anchor)
        OBVIOUS
    <2>2. Goto(c, "creating", i) /\ created' = created /\ destroyed' = destroyed
        BY <1>2, <2>1 DEF GetReference
    <2>3. LeaseOf[c] = NoInstance /\ i # NoInstance
        BY <1>2, <2>1 DEF LeaseOf, GetReference, IsActive
    <2>4. LeaseOf' = [LeaseOf EXCEPT ![c] = i]
        BY <2>2, LeaseOfGoto
    <2>5. InUse' = InUse
        BY <1>2, <2>2, InUseGoto DEF GetReference
    <2>6. ActiveInstance(anchor)' = i
        BY <1>2, <2>1, AddReferenceNodes
        DEF GetReference, ActiveInstance, Registered, IsActive, WellFormed
    <2>7. QED
        BY <2>1, <2>2, <2>3, <2>4, <2>5, <2>6 DEF Lease!Take
<1>3. ASSUME NEW c \in Clients, NEW l, NEW x, Goto(c, l, x),
             UNCHANGED <<anchor, created, destroyed>>,
             pc[c] \notin {"activating", "creating", "open"},
             l \notin {"activating", "creating", "open"}
      PROVE  UNCHANGED Lease!vars
    <2>1. LeaseOf' = LeaseOf
        BY <1>3, GotoAt DEF LeaseOf
    <2>2. InUse' = InUse
        BY <1>3, InUseGoto
    <2>3. ActiveInstance(anchor)' = ActiveInstance(anchor)
        BY <1>3 DEF ActiveInstance, Registered
    <2>4. QED
        BY <1>3, <2>1, <2>2, <2>3 DEF Lease!vars
<1>4. ASSUME NEW c \in Clients,
             FindNone(c) \/ AutostartStartsNothing(c) \/ NotAvailable(c)
      PROVE  UNCHANGED Lease!vars
    <2>1. PICK l \in {"autostart", "retry", "idle"} : Goto(c, l, NoInstance)
        BY <1>4 DEF FindNone, AutostartStartsNothing, NotAvailable
    <2>2. QED
        BY <1>3, <1>4, <2>1 DEF FindNone, AutostartStartsNothing, NotAvailable
<1>5. ASSUME NEW c \in Clients, CreateSession(c) PROVE UNCHANGED Lease!vars
    <2>1. PICK i : i = instance[c]
        OBVIOUS
    <2>2. Goto(c, "open", i) /\ UNCHANGED <<anchor, created, destroyed>>
        BY <1>5, <2>1 DEF CreateSession
    <2>3. LeaseOf' = LeaseOf
        BY <1>5, <2>1, <2>2, GotoAt DEF LeaseOf, CreateSession
    <2>4. InUse' = InUse
        BY <1>5, <2>2, InUseGoto DEF CreateSession
    <2>5. ActiveInstance(anchor)' = ActiveInstance(anchor)
        BY <2>2 DEF ActiveInstance, Registered
    <2>6. QED
        BY <2>2, <2>3, <2>4, <2>5 DEF Lease!vars
<1>6. ASSUME NEW c \in Clients, CreateSessionThrows(c) PROVE Lease!Return(c)
    <2>1. Goto(c, "idle", NoInstance) /\ UNCHANGED <<anchor, created, destroyed>>
        BY <1>6 DEF CreateSessionThrows
    <2>2. LeaseOf' = [LeaseOf EXCEPT ![c] = NoInstance]
        BY <2>1, LeaseOfGoto
    <2>3. InUse' = InUse
        BY <1>6, <2>1, InUseGoto DEF CreateSessionThrows
    <2>4. ActiveInstance(anchor)' = ActiveInstance(anchor)
        BY <2>1 DEF ActiveInstance, Registered
    <2>5. QED
        BY <2>1, <2>2, <2>3, <2>4 DEF Lease!Return
<1>7. ASSUME NEW c \in Clients, CreateInstance(c) PROVE UNCHANGED Lease!vars
    <2>1. PICK i \in Instances \ created :
            created' = created \cup {i} /\ Goto(c, "activating", i)
        BY <1>7 DEF CreateInstance
    <2>2. pc[c] \in {"idle", "autostart"} /\ UNCHANGED <<anchor, destroyed>>
        BY <1>7 DEF CreateInstance
    <2>3. \A d \in Clients :
            /\ pc'[d] = IF d = c THEN "activating" ELSE pc[d]
            /\ instance'[d] = IF d = c THEN i ELSE instance[d]
        BY <2>1, GotoAt
    <2>4. LeaseOf' = LeaseOf
        BY <2>2, <2>3 DEF LeaseOf
    <2>5. InUse' = InUse
        BY <2>1, <2>2, <2>3 DEF InUse
    <2>6. ActiveInstance(anchor)' = ActiveInstance(anchor)
        BY <2>2 DEF ActiveInstance, Registered
    <2>7. QED
        BY <2>2, <2>4, <2>5, <2>6 DEF Lease!vars
<1>8. ASSUME NEW c \in Clients, NEW i \in Instances \cup {NoInstance},
             SetInstanceActive(c, i), pc[c] \in {"activating", "idle"},
             i \in Instances => ~OnAnchor(anchor, i),
             i = NoInstance => Registered(anchor)
      PROVE  /\ ActiveInstance(anchor)' = i
             /\ LeaseOf' = LeaseOf
             /\ UNCHANGED <<created, destroyed>>
             /\ \A d \in Clients :
                  /\ pc'[d] = "activating" <=> pc[d] = "activating" /\ d # c
                  /\ d # c => instance'[d] = instance[d]
    <2>1. anchor' = SetActive(anchor, i) /\ UNCHANGED <<created, destroyed>>
        BY <1>8 DEF SetInstanceActive
    <2>2. Len(anchor') > 0 /\ anchor'[1] = NewNode(i, BaseCount(i))
        BY <1>8, <2>1, SetActiveNodes
    <2>3. PICK l, x : Goto(c, l, x) /\ l \in {"retiring", "idle", "retry"}
        BY <1>8 DEF SetInstanceActive, TypeOK
    <2>4. \A d \in Clients :
            /\ pc'[d] = IF d = c THEN l ELSE pc[d]
            /\ instance'[d] = IF d = c THEN x ELSE instance[d]
        BY <2>3, GotoAt
    <2>5. LeaseOf' = LeaseOf
        BY <1>8, <2>3, <2>4 DEF LeaseOf
    <2>6. QED
        BY <2>1, <2>2, <2>3, <2>4, <2>5 DEF ActiveInstance, Registered, NewNode
<1>9. ASSUME NEW c \in Clients, Activate(c)
      PROVE  \E i \in Instances : Lease!Switch(i)
    <2>1. PICK i \in Instances : instance[c] = i
        BY <1>9 DEF Activate, PrivateInstances, Private, TypeOK
    <2>2. /\ i \in created /\ ~OnAnchor(anchor, i)
          /\ \A d \in Clients : pc[d] = "activating" /\ instance[d] = i => d = c
        BY <1>9, <2>1 DEF Activate, PrivateInstances, Private
    <2>3. SetInstanceActive(c, i) /\ pc[c] = "activating"
        BY <1>9, <2>1 DEF Activate
    <2>4. /\ ActiveInstance(anchor)' = i
          /\ LeaseOf' = LeaseOf
          /\ UNCHANGED <<created, destroyed>>
          /\ \A d \in Clients :
                /\ pc'[d] = "activating" <=> pc[d] = "activating" /\ d # c
                /\ d # c => instance'[d] = instance[d]
        BY <1>8, <2>2, <2>3
    <2>5. i \notin InUse
        BY <2>1, <2>3 DEF InUse
    <2>6. InUse' = InUse \cup {i}
        BY <2>1, <2>2, <2>3, <2>4 DEF InUse
    <2>7. QED
        BY <2>4, <2>5, <2>6 DEF Lease!Switch
<1>10. ASSUME NEW c \in Clients, Stop(c) PROVE Lease!SwitchOff
    <2>1. SetInstanceActive(c, NoInstance) /\ pc[c] = "idle" /\ Registered(anchor)
        BY <1>10 DEF Stop
    <2>2. /\ ActiveInstance(anchor)' = NoInstance
          /\ LeaseOf' = LeaseOf
          /\ UNCHANGED <<created, destroyed>>
          /\ \A d \in Clients :
                /\ pc'[d] = "activating" <=> pc[d] = "activating" /\ d # c
                /\ d # c => instance'[d] = instance[d]
        BY <1>8, <2>1
    <2>3. InUse' = InUse
        BY <2>1, <2>2 DEF InUse
    <2>4. QED
        BY <2>2, <2>3 DEF Lease!SwitchOff
<1>11. ASSUME NEW c \in Clients, CloseSession(c) \/ ReleaseRetired(c)
       PROVE  Lease!Return(c) \/ UNCHANGED Lease!vars
    <2>1. pc[c] \in {"open", "retiring"} /\ ReleaseReference(c)
        BY <1>11 DEF CloseSession, ReleaseRetired
    <2>2. ActiveInstance(anchor)' = ActiveInstance(anchor)
        BY <2>1, ReleaseKeepsActive
    <2>3. PICK l, x : Goto(c, l, x) /\ l \in {"destroying", "idle", "retry"}
        BY <2>1 DEF ReleaseReference, TypeOK
    <2>4. UNCHANGED <<created, destroyed>>
        BY <2>1 DEF ReleaseReference
    <2>5. LeaseOf' = [LeaseOf EXCEPT ![c] = NoInstance]
        BY <2>3, LeaseOfGoto
    <2>6. InUse' = InUse
        BY <2>1, <2>3, <2>4, InUseGoto
    <2>7. QED
        BY <2>2, <2>4, <2>5, <2>6 DEF Lease!Return
<1>12. ASSUME NEW c \in Clients, Destroy(c)
       PROVE  \E i \in Instances : Lease!Discard(i)
    <2>1. PICK i : i = instance[c]
        OBVIOUS
    <2>2. /\ i \in created \ destroyed /\ i \in Instances
          /\ ~OnAnchor(anchor, i)
          /\ \A d \in Clients : pc[d] \in Private /\ instance[d] = i => d = c
        BY <1>12, <2>1 DEF Destroy, PrivateInstances, Private, TypeOK
    <2>3. pc[c] = "destroying" /\ destroyed' = destroyed \cup {i}
          /\ UNCHANGED <<anchor, created>>
        BY <1>12, <2>1 DEF Destroy
    <2>4. PICK l \in {"idle", "retry"} : Goto(c, l, NoInstance)
        BY <1>12 DEF Destroy, TypeOK
    <2>5. i \in InUse
        BY <2>2, <2>3 DEF InUse, Private
    <2>6. i # ActiveInstance(anchor)
        BY <2>2, OnAnchorAt DEF ActiveInstance, Registered, WellFormed
    <2>7. \A d \in Clients : LeaseOf[d] # i
        BY <2>2 DEF LeaseOf, OwnersOnAnchor, Referencing
    <2>8. LeaseOf' = LeaseOf
        BY <2>3, <2>4, GotoAt DEF LeaseOf
    <2>9. InUse' = InUse
        BY <2>3, <2>4, InUseGoto
    <2>10. ActiveInstance(anchor)' = ActiveInstance(anchor)
        BY <2>3 DEF ActiveInstance, Registered
    <2>11. QED
        BY <2>2, <2>3, <2>5, <2>6, <2>7, <2>8, <2>9, <2>10 DEF Lease!Discard
<1>13. CASE Next
    BY <1>2, <1>4, <1>5, <1>6, <1>7, <1>9, <1>10, <1>11, <1>12, <1>13
    DEF Next, Lease!Next
<1>14. CASE UNCHANGED vars
    BY <1>14 DEF vars, Lease!vars, LeaseOf, InUse, ActiveInstance, Registered
<1>15. QED
    BY <1>13, <1>14

(* What afw_adaptor.c does with locks, counts and a chain of copies is the
   lease contract of AdaptorLease: a session keeps the instance that was
   active when it was created, and an instance is discarded only when it has
   been replaced and no session has it. *)
THEOREM AnchorImplementsLease == Spec => LeaseSpec
<1>1. Init /\ [][Next]_vars /\ []AnchorInv => Lease!Init /\ [][Lease!Next]_(Lease!vars)
    BY InitLease, NextLease, PTL
<1>2. QED
    BY <1>1, AnchorInvariant, PTL DEF Spec, LeaseSpec, Lease!Spec
=============================================================================
