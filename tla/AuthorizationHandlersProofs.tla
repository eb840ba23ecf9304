---------------------- MODULE AuthorizationHandlersProofs ----------------------
(***************************************************************************)
(* For any handlers, ids, priorities and threads: between two steps of a   *)
(* write section the anchors are linked in priority order, so a check ends *)
(* and, when nobody disturbs it, asks every started handler; and the       *)
(* references that were given out are counted.                             *)
(***************************************************************************)
EXTENDS AuthorizationHandlers, FiniteSetTheorems, SequenceTheorems,
        WellFoundedInduction, TLAPS

-----------------------------------------------------------------------------
(* Induction on a number, as the least counterexample. *)

Below == {ss \in Nat \X Nat : ss[1] < ss[2]}

LEMMA BelowWellFounded == IsWellFoundedOn(Below, Nat)
BY NatLessThanWellFounded DEF OpToRel, Below

LEMMA LeastNat ==
    ASSUME NEW T \in SUBSET Nat, T # {}
    PROVE  \E n \in T : \A m \in T : n <= m
<1>1. PICK n \in T : \A m \in T : ~ (<<m, n>> \in Below)
    BY BelowWellFounded, WFMin
<1>2. ASSUME NEW m \in T PROVE n <= m
    <2>1. ~ (<<m, n>> \in Below)
        BY <1>1
    <2>2. <<m, n>> \in Nat \X Nat /\ <<m, n>>[1] = m /\ <<m, n>>[2] = n
        OBVIOUS
    <2>3. ~(m < n)
        BY <2>1, <2>2 DEF Below
    <2>4. QED
        BY <2>3
<1>3. QED
    BY <1>2

-----------------------------------------------------------------------------
(* The walk along the links, as the function that ChainFrom takes it from. *)

Step(next, f, n) ==
    [b \in Ids \cup {NoId} |->
        IF b = NoId \/ n = 0 THEN <<>> ELSE <<b>> \o f[n - 1][next[b]]]

IsChain(next, f, bound) == f = [n \in 0..bound |-> Step(next, f, n)]

(* There is such a function for every bound. *)
LEMMA ChainExists ==
    ASSUME NEW next, NEW bound \in Nat
    PROVE  \E f : IsChain(next, f, bound)
<1> DEFINE Bad == {n \in Nat : ~ \E f : IsChain(next, f, n)}
<1>1. SUFFICES ASSUME Bad # {} PROVE FALSE
    BY <1>1
<1>2. PICK n \in Bad : \A m \in Bad : n <= m
    <2> HIDE DEF Bad
    <2>1. Bad \in SUBSET Nat
        BY DEF Bad
    <2>2. QED
        BY <1>1, <2>1, LeastNat
<1>3. n # 0
    <2> DEFINE f == [m \in 0..0 |-> Step(next, <<>>, 0)]
    <2>1. Step(next, <<>>, 0) = Step(next, f, 0)
        BY DEF Step
    <2>2. f = [m \in 0..0 |-> Step(next, f, m)]
        BY <2>1
    <2>3. IsChain(next, f, 0)
        BY <2>2 DEF IsChain
    <2>4. QED
        BY <2>3
<1>4. n - 1 \in Nat /\ n - 1 \notin Bad
    BY <1>2, <1>3
<1>5. PICK f : IsChain(next, f, n - 1)
    BY <1>4
<1> DEFINE g == [m \in 0..n |-> IF m < n THEN f[m] ELSE Step(next, f, n)]
<1>6. ASSUME NEW m \in 0..n PROVE g[m] = Step(next, g, m)
    <2>1. m = 0 \/ g[m - 1] = f[m - 1]
        OBVIOUS
    <2>2. Step(next, g, m) = Step(next, f, m)
        BY <2>1 DEF Step
    <2>3. CASE m < n
        <3>1. m \in 0..(n - 1)
            BY <2>3, <1>4
        <3>2. f[m] = Step(next, f, m)
            BY <3>1, <1>5 DEF IsChain
        <3>3. QED
            BY <2>2, <2>3, <3>2
    <2>4. CASE ~(m < n)
        BY <2>2, <2>4
    <2>5. QED
        BY <2>3, <2>4
<1>7. g = [m \in 0..n |-> Step(next, g, m)]
    BY <1>6
<1>8. IsChain(next, g, n)
    BY <1>7 DEF IsChain
<1>9. QED
    BY <1>2, <1>8

LEMMA ChainUnfolds ==
    ASSUME NEW next, NEW a, NEW bound \in Nat
    PROVE  \E f : IsChain(next, f, bound) /\ ChainFrom(next, a, bound) = f[bound][a]
BY ChainExists DEF IsChain, Step, ChainFrom

(* From the anchor that has d others behind it in the list on, the walk meets
   the rest of the list. *)
MeetsRest(f, list, bound, d) ==
    \A j \in 1..Len(list) : \A m \in 0..bound :
        j = Len(list) - d /\ m >= d + 1
            => f[m][list[j]] = SubSeq(list, j, Len(list))

LEMMA MeetsRestOfOneLess ==
    ASSUME NEW next, NEW first, NEW list, LinkedAs(next, first, list),
           NEW bound \in Nat, NEW f, IsChain(next, f, bound),
           NEW d \in Nat, d # 0 => MeetsRest(f, list, bound, d - 1)
    PROVE  MeetsRest(f, list, bound, d)
<1>0. list \in Seq(Ids) /\ Len(list) \in Nat
    BY DEF LinkedAs
<1> SUFFICES ASSUME NEW j \in 1..Len(list), NEW m \in 0..bound,
                    j = Len(list) - d, m >= d + 1
             PROVE  f[m][list[j]] = SubSeq(list, j, Len(list))
    BY DEF MeetsRest
<1>3. m # 0 /\ m - 1 \in 0..bound
    OBVIOUS
<1>4. list[j] \in Ids /\ list[j] # NoId
    BY <1>0, HandlersAssumption
<1>5. f[m] = Step(next, f, m)
    BY DEF IsChain
<1>6. f[m][list[j]] = <<list[j]>> \o f[m - 1][next[list[j]]]
    BY <1>3, <1>4, <1>5 DEF Step
<1>7. SubSeq(list, j, Len(list)) = <<list[j]>> \o SubSeq(list, j + 1, Len(list))
    BY <1>0, SubSeqRecursiveFirst
<1>8. f[m - 1][next[list[j]]] = SubSeq(list, j + 1, Len(list))
    <2>1. CASE j = Len(list)
        <3>1. next[list[j]] = NoId
            BY <2>1, <1>0 DEF LinkedAs
        <3>2. f[m - 1] = Step(next, f, m - 1)
            BY <1>3 DEF IsChain
        <3>3. f[m - 1][NoId] = <<>>
            BY <3>2 DEF Step
        <3>4. SubSeq(list, j + 1, Len(list)) = <<>>
            <4>1. j + 1 \in Int /\ Len(list) \in Int /\ Len(list) < j + 1
                BY <2>1, <1>0
            <4>2. QED
                BY <4>1, SubSeqEmpty
        <3>5. QED
            BY <3>1, <3>3, <3>4
    <2>2. CASE j # Len(list)
        <3>1. next[list[j]] = list[j + 1] /\ j + 1 \in 1..Len(list)
            BY <2>2, <1>0 DEF LinkedAs
        <3>2. d # 0 /\ j + 1 = Len(list) - (d - 1) /\ m - 1 >= (d - 1) + 1
            BY <2>2, <1>0
        <3>3. f[m - 1][list[j + 1]] = SubSeq(list, j + 1, Len(list))
            BY <3>1, <3>2, <1>3 DEF MeetsRest
        <3>4. QED
            BY <3>1, <3>3
    <2>3. QED
        BY <2>1, <2>2
<1>9. QED
    BY <1>6, <1>7, <1>8

LEMMA ChainOfList ==
    ASSUME NEW next, NEW first, NEW list, LinkedAs(next, first, list),
           NEW bound \in Nat, NEW f, IsChain(next, f, bound),
           NEW k \in 1..Len(list), bound >= Len(list)
    PROVE  f[bound][list[k]] = SubSeq(list, k, Len(list))
<1> DEFINE Bad == {d \in Nat : ~MeetsRest(f, list, bound, d)}
<1>0. Len(list) \in Nat
    BY DEF LinkedAs
<1>1. ASSUME Bad # {} PROVE FALSE
    <2>1. PICK d \in Bad : \A e \in Bad : d <= e
        <3> HIDE DEF Bad
        <3>1. Bad \in SUBSET Nat
            BY DEF Bad
        <3>2. QED
            BY <1>1, <3>1, LeastNat
    <2>2. d \in Nat /\ ~MeetsRest(f, list, bound, d)
        OBVIOUS
    <2>3. ASSUME d # 0 PROVE MeetsRest(f, list, bound, d - 1)
        <3>1. d - 1 \in Nat /\ ~(d <= d - 1)
            BY <2>2, <2>3
        <3>2. QED
            BY <2>1, <3>1
    <2>4. QED
        BY <2>2, <2>3, MeetsRestOfOneLess
<1>2. Len(list) - k \in Nat
    BY <1>0
<1>3. MeetsRest(f, list, bound, Len(list) - k)
    BY <1>1, <1>2
<1>4. bound \in 0..bound /\ k = Len(list) - (Len(list) - k) /\ bound >= (Len(list) - k) + 1
    BY <1>0
<1>5. QED
    BY <1>3, <1>4 DEF MeetsRest

(* A list that no id is in twice is not longer than there are ids. *)
LEMMA ListLength ==
    ASSUME NEW next, NEW first, NEW list, LinkedAs(next, first, list)
    PROVE  Len(list) \in Nat /\ Len(list) <= Cardinality(Ids) /\ Cardinality(Ids) \in Nat
<1>1. list \in Seq(Ids) /\ Len(list) \in Nat /\ IsInjective(list)
    BY DEF LinkedAs
<1>2. list \in Injection(1..Len(list), Ids)
    BY <1>1 DEF Injection, IsInjective
<1>3. Cardinality(1..Len(list)) = Len(list)
    <2> DEFINE n == Len(list)
    <2>1. n \in Nat
        BY <1>1
    <2> HIDE DEF n
    <2>2. Cardinality(1..n) = IF 1 > n THEN 0 ELSE n - 1 + 1
        BY <2>1, FS_Interval
    <2>3. Cardinality(1..n) = n
        BY <2>1, <2>2
    <2>4. QED
        BY <2>3 DEF n
<1>4. Cardinality(1..Len(list)) <= Cardinality(Ids)
    <2>1. IsFiniteSet(Ids)
        BY HandlersAssumption
    <2>2. QED
        BY <1>2, <2>1, FS_Injection
<1>5. QED
    BY <1>1, <1>3, <1>4, HandlersAssumption, FS_CardinalityType

LEMMA ActiveListIs ==
    ASSUME NEW next, NEW first, NEW list, LinkedAs(next, first, list)
    PROVE  ChainFrom(next, first, Cardinality(Ids) + 1) = list
<1> DEFINE bound == Cardinality(Ids) + 1
<1>1. bound \in Nat /\ Len(list) \in Nat /\ bound >= Len(list) + 1
    BY ListLength
<1> HIDE DEF bound
<1>2. PICK f : IsChain(next, f, bound) /\ ChainFrom(next, first, bound) = f[bound][first]
    BY <1>1, ChainUnfolds
<1>3. CASE list = <<>>
    <2>1. first = NoId
        BY <1>3 DEF LinkedAs
    <2>2. f[bound] = Step(next, f, bound)
        BY <1>1, <1>2 DEF IsChain
    <2>3. f[bound][NoId] = <<>>
        BY <2>2 DEF Step
    <2>4. QED
        BY <1>2, <1>3, <2>1, <2>3 DEF bound
<1>4. CASE list # <<>>
    <2>1. list \in Seq(Ids) /\ 1 \in 1..Len(list) /\ first = list[1]
        BY <1>4 DEF LinkedAs
    <2>2. f[bound][list[1]] = SubSeq(list, 1, Len(list))
        <3>1. IsChain(next, f, bound) /\ bound \in Nat /\ bound >= Len(list)
            BY <1>1, <1>2
        <3>2. QED
            BY <2>1, <3>1, ChainOfList
    <2>3. SubSeq(list, 1, Len(list)) = list
        BY <2>1, SubSeqFull
    <2>4. QED
        BY <1>2, <2>1, <2>2, <2>3 DEF bound
<1>5. QED
    BY <1>3, <1>4

(* From every anchor, in the list or not, the links lead to the end. *)
LEMMA ChainEnds ==
    ASSUME NEW next, NEW first, NEW list, LinkedAs(next, first, list),
           NEW a \in Ids \cup {NoId}
    PROVE  Len(ChainFrom(next, a, Cardinality(Ids) + 1)) <= Cardinality(Ids)
<1> DEFINE bound == Cardinality(Ids) + 1
<1>1. /\ bound \in Nat /\ Len(list) \in Nat /\ bound >= Len(list) + 1
      /\ Cardinality(Ids) \in Nat /\ list \in Seq(Ids)
    BY ListLength DEF LinkedAs
<1>0. Cardinality(Ids) = bound - 1
    BY <1>1
<1> HIDE DEF bound
<1>2. PICK f : IsChain(next, f, bound) /\ ChainFrom(next, a, bound) = f[bound][a]
    BY <1>1, ChainUnfolds
<1>3. f[bound] = Step(next, f, bound) /\ f[bound - 1] = Step(next, f, bound - 1)
    BY <1>1, <1>2 DEF IsChain
<1>4. f[bound][NoId] = <<>> /\ f[bound - 1][NoId] = <<>>
    BY <1>3 DEF Step
<1>5. CASE a = NoId
    BY <1>1, <1>2, <1>4, <1>5 DEF bound
<1>6. CASE a \in ToSet(list)
    <2>1. PICK k \in 1..Len(list) : a = list[k]
        BY <1>1, <1>6 DEF ToSet
    <2>2. f[bound][list[k]] = SubSeq(list, k, Len(list))
        <3>1. IsChain(next, f, bound) /\ bound \in Nat /\ bound >= Len(list)
            BY <1>1, <1>2
        <3>2. QED
            BY <2>1, <3>1, ChainOfList
    <2>3. Len(SubSeq(list, k, Len(list))) <= Len(list)
        <3> DEFINE n == Len(list)
        <3>1. n \in Nat /\ k \in 1..n /\ \A i \in k..n : list[i] \in Ids
            BY <1>1, <2>1
        <3> HIDE DEF n
        <3>2. Len(SubSeq(list, k, n)) = IF k <= n THEN n - k + 1 ELSE 0
            BY <3>1, SubSeqProperties
        <3>3. Len(SubSeq(list, k, n)) <= n
            BY <3>1, <3>2
        <3>4. QED
            BY <3>3 DEF n
    <2>4. QED
        BY <1>1, <1>2, <2>1, <2>2, <2>3 DEF bound
<1>7. CASE a \in Ids \ ToSet(list)
    <2>1. next[a] = NoId /\ a # NoId
        BY <1>7, HandlersAssumption DEF LinkedAs
    <2>2. f[bound][a] = <<a>> \o <<>>
        <3>1. bound # 0
            BY <1>1
        <3>2. f[bound][a] = <<a>> \o f[bound - 1][next[a]]
            BY <1>3, <2>1, <3>1 DEF Step
        <3>3. QED
            BY <1>4, <2>1, <3>2
    <2>3. Len(f[bound][a]) = 1
        BY <2>2
    <2>4. Cardinality(Ids) # 0
        BY <1>7, HandlersAssumption, FS_EmptySet
    <2>5. QED
        <3>1. 1 <= Cardinality(Ids)
            BY <1>1, <2>4
        <3>2. Len(ChainFrom(next, a, bound)) = 1
            BY <1>2, <2>3
        <3>3. QED
            BY <3>1, <3>2 DEF bound
<1>8. QED
    BY <1>5, <1>6, <1>7

-----------------------------------------------------------------------------
(* What a write section makes of the list. *)

LEMMA LinkedFacts ==
    ASSUME NEW next, NEW first, NEW list, LinkedAs(next, first, list)
    PROVE  /\ list \in Seq(Ids) /\ Len(list) \in Nat
           /\ \A k \in 1..Len(list) : list[k] \in Ids
           /\ \A k, m \in 1..Len(list) : list[k] = list[m] => k = m
           /\ \A a : a \in ToSet(list) <=> \E k \in 1..Len(list) : list[k] = a
<1>1. list \in Seq(Ids) /\ Len(list) \in Nat /\ DOMAIN list = 1..Len(list)
    BY DEF LinkedAs
<1>2. \A k \in 1..Len(list) : list[k] \in Ids
    BY <1>1
<1>3. \A k, m \in 1..Len(list) : list[k] = list[m] => k = m
    <2>1. IsInjective(list)
        BY DEF LinkedAs
    <2>2. QED
        BY <1>1, <2>1 DEF IsInjective
<1>4. \A a : a \in ToSet(list) <=> \E k \in 1..Len(list) : list[k] = a
    BY <1>1 DEF ToSet
<1>5. QED
    BY <1>1, <1>2, <1>3, <1>4

(* The list without the anchor at position k. *)
LEMMA UnlinkSeq ==
    ASSUME NEW S, NEW s \in Seq(S), NEW k \in 1..Len(s)
    PROVE  /\ Unlink(s, k) \in Seq(S)
           /\ Len(Unlink(s, k)) = Len(s) - 1
           /\ \A m \in 1..(Len(s) - 1) :
                  Unlink(s, k)[m] = IF m < k THEN s[m] ELSE s[m + 1]
<1> DEFINE n == Len(s) - 1
<1>1. n \in Nat
    OBVIOUS
<1>2. \A m \in 1..n : (IF m < k THEN s[m] ELSE s[m + 1]) \in S
    OBVIOUS
<1>3. Unlink(s, k) \in [1..n -> S]
    BY <1>2 DEF Unlink
<1>4. QED
    BY <1>1, <1>3 DEF Unlink

(* Unlinked takes the anchor at position k out, and only it. *)
LEMMA UnlinkedList ==
    ASSUME NEW next, NEW first, NEW list, LinkedAs(next, first, list),
           NEW k \in 1..Len(list), NEW a, a = list[k],
           NEW next2, NEW first2,
           next2 = [b \in Ids |-> CASE b = a -> NoId
                                    [] b # a /\ next[b] = a -> next[a]
                                    [] b # a /\ next[b] # a -> next[b]],
           first2 = IF first = a THEN next[a] ELSE first
    PROVE  /\ LinkedAs(next2, first2, Unlink(list, k))
           /\ ToSet(Unlink(list, k)) = ToSet(list) \ {a}
<1> DEFINE l == Unlink(list, k)
           n == Len(list)
<1>1. /\ list \in Seq(Ids) /\ n \in Nat /\ a \in Ids /\ NoId \notin Ids
      /\ \A i \in 1..n : list[i] \in Ids
      /\ \A i, j \in 1..n : list[i] = list[j] => i = j
      /\ \A c : c \in ToSet(list) <=> \E i \in 1..n : list[i] = c
    BY LinkedFacts, HandlersAssumption
<1>2. /\ l \in Seq(Ids) /\ Len(l) = n - 1
      /\ \A m \in 1..(n - 1) : l[m] = IF m < k THEN list[m] ELSE list[m + 1]
    BY <1>1, UnlinkSeq
<1>3. \A i \in 1..n : next[list[i]] = IF i < n THEN list[i + 1] ELSE NoId
    BY DEF LinkedAs
<1>4. \A c \in Ids \ ToSet(list) : next[c] = NoId
    BY DEF LinkedAs
<1> HIDE DEF l
<1>13. \A i \in 1..n : i # k => list[i] # a
    BY <1>1
<1>5. ASSUME NEW m \in 1..(n - 1) PROVE l[m] \in Ids /\ l[m] # a
    <2>1. CASE m < k
        <3>1. m \in 1..n /\ m # k /\ l[m] = list[m]
            BY <1>1, <1>2, <2>1
        <3>2. QED
            BY <1>1, <1>13, <3>1
    <2>2. CASE m >= k
        <3>1. m + 1 \in 1..n /\ m + 1 # k /\ l[m] = list[m + 1]
            BY <1>1, <1>2, <2>2
        <3>2. QED
            BY <1>1, <1>13, <3>1
    <2>3. QED
        BY <1>1, <2>1, <2>2
<1>6. ToSet(l) = ToSet(list) \ {a}
    <2>1. \A c : c \in ToSet(l) <=> \E m \in 1..(n - 1) : l[m] = c
        BY <1>1, <1>2 DEF ToSet
    <2>2. ASSUME NEW c \in ToSet(list), c # a PROVE c \in ToSet(l)
        <3>1. PICK i \in 1..n : list[i] = c
            BY <1>1
        <3>2. CASE i < k
            BY <1>1, <1>2, <2>1, <3>1, <3>2
        <3>3. CASE i > k
            <4>1. i - 1 \in 1..(n - 1) /\ l[i - 1] = c
                BY <1>1, <1>2, <3>1, <3>3
            <4>2. QED
                BY <2>1, <4>1
        <3>4. QED
            BY <3>1, <2>2, <3>2, <3>3, <1>1
    <2>3. ASSUME NEW c \in ToSet(l) PROVE c \in ToSet(list) /\ c # a
        BY <1>1, <1>2, <1>5, <2>1
    <2>4. QED
        BY <2>2, <2>3
<1>7. IsInjective(l)
    <2>1. DOMAIN l = 1..(n - 1)
        BY <1>2
    <2>2. ASSUME NEW i \in 1..(n - 1), NEW j \in 1..(n - 1), l[i] = l[j] PROVE i = j
        <3> DEFINE at(m) == IF m < k THEN m ELSE m + 1
        <3>1. /\ at(i) \in 1..n /\ at(j) \in 1..n
              /\ l[i] = list[at(i)] /\ l[j] = list[at(j)]
            BY <1>1, <1>2
        <3>2. at(i) = at(j)
            <4> HIDE DEF at
            <4>1. QED
                BY <1>1, <2>2, <3>1
        <3>3. QED
            BY <3>2, <1>1
    <2>3. QED
        BY <2>1, <2>2 DEF IsInjective
<1>8. first2 = IF l = <<>> THEN NoId ELSE l[1]
    <2>1. first = list[1] /\ 1 \in 1..n
        BY <1>1 DEF LinkedAs
    <2>2. l = <<>> <=> n = 1
        BY <1>1, <1>2
    <2>3. CASE k = 1
        <3>1. first2 = next[a]
            BY <2>1, <2>3
        <3>2. n # 1 => l[1] = list[2]
            BY <1>1, <1>2, <2>3
        <3>3. next[a] = IF 1 < n THEN list[2] ELSE NoId
            BY <1>3, <2>3
        <3>4. n = 1 \/ 1 < n
            <4>1. n \in Nat
                BY <1>1
            <4>2. 1 \in 1..n
                BY <2>1
            <4>3. \A j \in Nat : 1 \in 1..j => j = 1 \/ 1 < j
                OBVIOUS
            <4>4. QED
                BY <4>1, <4>2, <4>3, Zenon
        <3>5. CASE n = 1
            BY <2>2, <3>1, <3>3, <3>5
        <3>6. CASE 1 < n
            BY <2>2, <3>1, <3>2, <3>3, <3>6
        <3>7. QED
            BY <3>4, <3>5, <3>6
    <2>4. CASE k # 1
        <3>1. first # a /\ n # 1
            BY <1>1, <2>1, <2>4
        <3>2. l[1] = list[1]
            BY <1>1, <1>2, <2>4, <3>1
        <3>3. QED
            BY <2>1, <2>2, <3>1, <3>2
    <2>5. QED
        BY <2>3, <2>4
<1>9. ASSUME NEW m \in 1..(n - 1)
      PROVE  next2[l[m]] = IF m < n - 1 THEN l[m + 1] ELSE NoId
    <2>1. next2[l[m]] = IF next[l[m]] = a THEN next[a] ELSE next[l[m]]
        BY <1>5
    <2>2. next[a] = IF k < n THEN list[k + 1] ELSE NoId
        BY <1>3
    <2>3. CASE m + 1 < k
        <3>1. /\ l[m] = list[m] /\ m < n - 1 /\ l[m + 1] = list[m + 1]
              /\ next[list[m]] = list[m + 1] /\ list[m + 1] # a
            BY <1>1, <1>2, <1>3, <2>3
        <3>2. QED
            BY <2>1, <3>1
    <2>4. CASE m + 1 = k
        <3>5. /\ m < k /\ m \in 1..n /\ m < n /\ list[m + 1] = a
            BY <1>1, <2>4
        <3>1. l[m] = list[m] /\ next[list[m]] = a
            BY <1>2, <1>3, <3>5
        <3>2. m < n - 1 => k < n /\ l[m + 1] = list[k + 1]
            <4>1. m < n - 1 => k < n /\ k \in 1..(n - 1) /\ ~(k < k)
                BY <1>1, <2>4
            <4>2. m < n - 1 => l[k] = list[k + 1]
                BY <1>2, <4>1
            <4>3. QED
                BY <2>4, <4>1, <4>2
        <3>3. ~(m < n - 1) => ~(k < n)
            BY <1>1, <2>4
        <3>4. QED
            BY <2>1, <2>2, <3>1, <3>2, <3>3
    <2>5. CASE m >= k
        <3>1. /\ l[m] = list[m + 1] /\ m + 1 \in 1..n
              /\ next[list[m + 1]] = IF m + 1 < n THEN list[m + 2] ELSE NoId
            BY <1>1, <1>2, <1>3, <2>5
        <3>2. m + 1 < n => /\ m < n - 1 /\ l[m + 1] = list[m + 2]
                           /\ list[m + 2] # a
            <4>1. m + 1 < n => /\ m < n - 1 /\ m + 1 \in 1..(n - 1) /\ ~(m + 1 < k)
                               /\ m + 2 \in 1..n /\ m + 2 # k /\ (m + 1) + 1 = m + 2
                BY <1>1, <2>5
            <4>2. QED
                BY <1>2, <1>13, <4>1
        <3>3. ~(m + 1 < n) => ~(m < n - 1)
            BY <1>1
        <3>4. next[l[m]] # a
            BY <1>1, <3>1, <3>2
        <3>5. QED
            BY <2>1, <3>1, <3>2, <3>3, <3>4
    <2>6. QED
        BY <1>1, <2>3, <2>4, <2>5
<1>10. ASSUME NEW c \in Ids \ ToSet(l) PROVE next2[c] = NoId
    <2>1. CASE c = a
        BY <2>1, <1>1
    <2>2. CASE c # a
        <3>1. next[c] = NoId /\ NoId # a
            BY <2>2, <1>1, <1>4, <1>6
        <3>2. QED
            BY <2>2, <3>1
    <2>3. QED
        BY <2>1, <2>2
<1>11. LinkedAs(next2, first2, l)
    BY <1>2, <1>7, <1>8, <1>9, <1>10 DEF LinkedAs
<1>12. QED
    BY <1>6, <1>11 DEF l

(* InsertAt puts a at position k. *)
IsInserted(l, s, k, a) ==
    /\ l \in Seq(Ids)
    /\ Len(l) = Len(s) + 1
    /\ \A m \in 1..(Len(s) + 1) :
          l[m] = IF m < k THEN s[m] ELSE IF m = k THEN a ELSE s[m - 1]

LEMMA InsertAtSeq ==
    ASSUME NEW s \in Seq(Ids), NEW k \in 1..(Len(s) + 1), NEW a \in Ids
    PROVE  IsInserted(InsertAt(s, k, a), s, k, a)
<1> DEFINE front == SubSeq(s, 1, k - 1)
           back == SubSeq(s, k, Len(s))
<1>1. /\ front \in Seq(Ids) /\ Len(front) = k - 1
      /\ \A m \in 1..(k - 1) : front[m] = s[m]
    <2>1. \A i \in 1..(k - 1) : s[i] \in Ids
        OBVIOUS
    <2>2. k - 1 \in Nat /\ 1 \in Int /\ (k - 1) - 1 + 1 = k - 1
        OBVIOUS
    <2>3. /\ front \in Seq(Ids) /\ Len(front) = IF 1 <= k - 1 THEN (k - 1) - 1 + 1 ELSE 0
          /\ \A m \in 1..((k - 1) - 1 + 1) : front[m] = s[1 + m - 1]
        BY <2>1, <2>2, SubSeqProperties
    <2>4. QED
        BY <2>2, <2>3
<1>2. /\ back \in Seq(Ids) /\ Len(back) = Len(s) - k + 1
      /\ \A m \in 1..(Len(s) - k + 1) : back[m] = s[k + m - 1]
    <2>1. \A i \in k..Len(s) : s[i] \in Ids
        OBVIOUS
    <2>2. k \in Int /\ Len(s) \in Int
        OBVIOUS
    <2>3. /\ back \in Seq(Ids) /\ Len(back) = IF k <= Len(s) THEN Len(s) - k + 1 ELSE 0
          /\ \A m \in 1..(Len(s) - k + 1) : back[m] = s[k + m - 1]
        BY <2>1, <2>2, SubSeqProperties
    <2>4. QED
        BY <2>2, <2>3
<1>3. InsertAt(s, k, a) = front \o <<a>> \o back
    BY DEF InsertAt
<1> HIDE DEF front, back
<1>4. /\ front \o <<a>> \in Seq(Ids) /\ Len(front \o <<a>>) = k
      /\ \A m \in 1..k : (front \o <<a>>)[m] = IF m < k THEN s[m] ELSE a
    BY <1>1
<1> DEFINE start == front \o <<a>>
<1> HIDE DEF start
<1>5. /\ start \in Seq(Ids) /\ Len(start) = k
      /\ \A m \in 1..k : start[m] = IF m < k THEN s[m] ELSE a
    BY <1>4 DEF start
<1>6. /\ start \o back \in Seq(Ids) /\ Len(start \o back) = Len(s) + 1
      /\ \A m \in 1..(Len(s) + 1) :
            (start \o back)[m] = IF m < k THEN s[m]
                                 ELSE IF m = k THEN a ELSE s[m - 1]
    <2>5. /\ start \o back \in Seq(Ids)
          /\ Len(start \o back) = Len(start) + Len(back)
          /\ \A m \in 1..(Len(start) + Len(back)) :
                (start \o back)[m] = IF m <= Len(start) THEN start[m]
                                     ELSE back[m - Len(start)]
        BY <1>2, <1>5, ConcatProperties
    <2>2. Len(start) + Len(back) = Len(s) + 1
        BY <1>2, <1>5
    <2>1. /\ start \o back \in Seq(Ids)
          /\ Len(start \o back) = Len(s) + 1
          /\ \A m \in 1..(Len(s) + 1) :
                (start \o back)[m] = IF m <= k THEN start[m] ELSE back[m - k]
        BY <1>5, <2>2, <2>5
    <2>3. ASSUME NEW m \in 1..(Len(s) + 1), m > k
          PROVE  back[m - k] = s[m - 1]
        <3>1. m - k \in 1..(Len(s) - k + 1) /\ k + (m - k) - 1 = m - 1
            BY <2>3
        <3>2. QED
            BY <1>2, <3>1
    <2>4. QED
        BY <1>5, <2>1, <2>2, <2>3
<1>7. QED
    BY <1>3, <1>6 DEF start, IsInserted

(* The links that LinkIn writes for a at position n of l. *)
Linking(next, l, a, n) ==
    [b \in Ids |->
        CASE b = a /\ n < Len(l) -> l[n + 1]
          [] b # a /\ n > 1 /\ b = l[n - 1] -> a
          [] OTHER -> next[b]]

(* The two links of LinkIn are the list with a at position k. *)
LEMMA LinkInList ==
    ASSUME NEW next, NEW first, NEW list, LinkedAs(next, first, list),
           next \in [Ids -> Ids \cup {NoId}],
           NEW a \in Ids \ ToSet(list), NEW k \in 1..(Len(list) + 1),
           NEW l, IsInserted(l, list, k, a),
           NEW at, at = CHOOSE n \in 1..Len(l) : l[n] = a
    PROVE  /\ LinkedAs(Linking(next, l, a, at), l[1], l)
           /\ ToSet(l) = ToSet(list) \cup {a}
           /\ at = k
<1> DEFINE n == Len(list)
           next2 == Linking(next, l, a, at)
           first2 == l[1]
<1>1. /\ list \in Seq(Ids) /\ n \in Nat /\ NoId \notin Ids
      /\ \A i \in 1..n : list[i] \in Ids
      /\ \A i, j \in 1..n : list[i] = list[j] => i = j
      /\ \A c : c \in ToSet(list) <=> \E i \in 1..n : list[i] = c
    BY LinkedFacts, HandlersAssumption
<1>2. /\ l \in Seq(Ids) /\ Len(l) = n + 1
      /\ \A m \in 1..(n + 1) : l[m] = IF m < k THEN list[m]
                                      ELSE IF m = k THEN a ELSE list[m - 1]
    BY DEF IsInserted
<1>3. \A i \in 1..n : next[list[i]] = IF i < n THEN list[i + 1] ELSE NoId
    BY DEF LinkedAs
<1>4. \A c \in Ids \ ToSet(list) : next[c] = NoId
    BY DEF LinkedAs
<1>5. \A i \in 1..n : list[i] # a
    BY <1>1
<1>6. \A m \in 1..(n + 1) : l[m] = a <=> m = k
    <2>1. ASSUME NEW m \in 1..(n + 1), m # k PROVE l[m] # a
        <3>1. CASE m < k
            <4>1. m \in 1..n /\ l[m] = list[m]
                BY <1>1, <1>2, <3>1
            <4>2. QED
                BY <1>5, <4>1
        <3>2. CASE m > k
            <4>1. m - 1 \in 1..n /\ l[m] = list[m - 1]
                BY <1>1, <1>2, <3>2
            <4>2. QED
                BY <1>5, <4>1
        <3>3. QED
            BY <2>1, <3>1, <3>2, <1>1
    <2>2. l[k] = a
        BY <1>2
    <2>3. QED
        BY <2>1, <2>2
<1>7. at = k
    BY <1>1, <1>2, <1>6
<1>8. \A i, j \in 1..(n + 1) : l[i] = l[j] => i = j
    <2>1. ASSUME NEW i \in 1..(n + 1), NEW j \in 1..(n + 1), l[i] = l[j], i # k, j # k
          PROVE  i = j
        <3> DEFINE in(m) == IF m < k THEN m ELSE m - 1
        <3>1. /\ in(i) \in 1..n /\ in(j) \in 1..n
              /\ l[i] = list[in(i)] /\ l[j] = list[in(j)]
            BY <1>1, <1>2, <2>1
        <3>2. in(i) = in(j)
            <4> HIDE DEF in
            <4>1. QED
                BY <1>1, <2>1, <3>1
        <3>3. QED
            BY <3>2, <1>1, <2>1
    <2>2. QED
        BY <1>6, <2>1
<1>9. IsInjective(l)
    <2>1. DOMAIN l = 1..(n + 1)
        BY <1>2
    <2>2. QED
        BY <2>1, <1>8 DEF IsInjective
<1>10. \A c : c \in ToSet(l) <=> \E m \in 1..(n + 1) : l[m] = c
    BY <1>1, <1>2 DEF ToSet
<1>11. ToSet(l) = ToSet(list) \cup {a}
    <2>1. ASSUME NEW i \in 1..n PROVE list[i] \in ToSet(l)
        <3>1. CASE i < k
            BY <1>1, <1>2, <1>10, <3>1
        <3>2. CASE i >= k
            <4>1. i + 1 \in 1..(n + 1) /\ l[i + 1] = list[(i + 1) - 1]
                BY <1>1, <1>2, <3>2
            <4>2. (i + 1) - 1 = i
                OBVIOUS
            <4>3. QED
                BY <1>10, <4>1, <4>2
        <3>3. QED
            BY <3>1, <3>2, <1>1
    <2>2. a \in ToSet(l)
        BY <1>6, <1>10
    <2>3. ASSUME NEW m \in 1..(n + 1), m # k PROVE l[m] \in ToSet(list)
        <3>1. CASE m < k
            <4>1. m \in 1..n /\ l[m] = list[m]
                BY <1>1, <1>2, <3>1
            <4>2. QED
                BY <1>1, <4>1
        <3>2. CASE m > k
            <4>1. m - 1 \in 1..n /\ l[m] = list[m - 1]
                BY <1>1, <1>2, <3>2
            <4>2. QED
                BY <1>1, <4>1
        <3>3. QED
            BY <2>3, <3>1, <3>2, <1>1
    <2>4. ToSet(list) \cup {a} \subseteq ToSet(l)
        BY <1>1, <2>1, <2>2
    <2>5. ASSUME NEW c \in ToSet(l) PROVE c \in ToSet(list) \cup {a}
        <3>1. PICK m \in 1..(n + 1) : l[m] = c
            BY <1>10
        <3>2. QED
            BY <1>6, <2>3, <3>1
    <2>6. QED
        BY <2>4, <2>5
<1>12. first2 = IF l = <<>> THEN NoId ELSE l[1]
    BY <1>1, <1>2
<1>13. ASSUME NEW m \in 1..(n + 1)
       PROVE  next2[l[m]] = IF m < n + 1 THEN l[m + 1] ELSE NoId
    <2>1. l[m] \in Ids
        BY <1>2
    <2>2. CASE m = k
        <3>1. next2[a] = IF k < n + 1 THEN l[k + 1] ELSE next[a]
            BY <1>2, <1>7 DEF Linking
        <3>2. l[m] = a /\ next[a] = NoId
            BY <1>4, <1>6, <2>2
        <3>3. QED
            BY <3>1, <3>2, <2>2
    <2>3. CASE m + 1 = k
        <3>1. l[m] # a /\ k > 1 /\ k - 1 = m /\ m < n + 1
            BY <1>1, <1>6, <2>3
        <3>2. next2[l[m]] = a
            BY <1>7, <2>1, <3>1 DEF Linking
        <3>3. QED
            BY <1>6, <2>3, <3>1, <3>2
    <2>4. CASE m # k /\ m + 1 # k
        <3>1. l[m] # a /\ (k > 1 => l[m] # l[k - 1])
            <4>1. k > 1 => k - 1 \in 1..(n + 1) /\ m # k - 1
                BY <2>4, <1>1
            <4>2. QED
                BY <1>6, <1>8, <2>4, <4>1
        <3>2. next2[l[m]] = next[l[m]]
            BY <1>7, <2>1, <3>1 DEF Linking
        <3>3. CASE m + 1 < k
            <4>1. m \in 1..n /\ m < n /\ m + 1 \in 1..(n + 1)
                BY <1>1, <3>3
            <4>2. l[m] = list[m] /\ l[m + 1] = list[m + 1]
                BY <1>1, <1>2, <3>3, <4>1
            <4>3. QED
                BY <1>3, <3>2, <4>1, <4>2
        <3>4. CASE m > k
            <4>1. m - 1 \in 1..n /\ (m - 1) + 1 = m /\ (m - 1 < n <=> m < n + 1)
                BY <1>1, <3>4
            <4>2. l[m] = list[m - 1]
                BY <1>2, <3>4
            <4>3. m < n + 1 => l[m + 1] = list[m]
                <5>1. m < n + 1 => /\ m + 1 \in 1..(n + 1) /\ ~(m + 1 < k)
                                   /\ m + 1 # k /\ (m + 1) - 1 = m
                    BY <1>1, <3>4
                <5>2. QED
                    BY <1>2, <5>1
            <4>4. QED
                BY <1>3, <3>2, <4>1, <4>2, <4>3
        <3>5. QED
            BY <2>4, <3>3, <3>4, <1>1
    <2>5. QED
        BY <2>2, <2>3, <2>4
<1>14. ASSUME NEW c \in Ids \ ToSet(l) PROVE next2[c] = NoId
    <2>1. c # a /\ next[c] = NoId
        BY <1>4, <1>11
    <2>2. k > 1 => k - 1 \in 1..(n + 1) /\ l[k - 1] # c
        <3>1. k > 1 => k - 1 \in 1..(n + 1)
            BY <1>1
        <3>2. QED
            BY <1>10, <3>1
    <2>3. QED
        BY <1>7, <2>1, <2>2 DEF Linking
<1> HIDE DEF next2
<1>15. LinkedAs(next2, first2, l)
    <2>1. ASSUME NEW m \in 1..Len(l)
          PROVE  next2[l[m]] = IF m < Len(l) THEN l[m + 1] ELSE NoId
        <3>1. Len(l) = n + 1
            BY <1>2
        <3>2. m \in 1..(n + 1)
            BY <3>1
        <3>3. next2[l[m]] = IF m < n + 1 THEN l[m + 1] ELSE NoId
            BY <3>2, <1>13
        <3>4. QED
            BY <3>1, <3>3
    <2>2. QED
        BY <1>2, <1>9, <1>12, <1>14, <2>1 DEF LinkedAs
<1>16. QED
    BY <1>7, <1>11, <1>15 DEF next2

(* InsertByPriority finds the place of a in a sorted list. *)
LEMMA InsertByPriorityAt ==
    ASSUME NEW list \in Seq(Ids), NEW a \in Ids,
           PriorityOf(a) \in Nat,
           \A k \in 1..Len(list) : PriorityOf(list[k]) \in Nat,
           \A k, m \in 1..Len(list) : k < m => PriorityOf(list[k]) <= PriorityOf(list[m])
    PROVE  \E k \in 1..(Len(list) + 1) :
              /\ InsertByPriority(list, a) = InsertAt(list, k, a)
              /\ \A m \in 1..Len(list) :
                    IF m < k THEN PriorityOf(list[m]) <= PriorityOf(a)
                    ELSE PriorityOf(a) <= PriorityOf(list[m])
<1> DEFINE after == {k \in 1..Len(list) : PriorityOf(list[k]) > PriorityOf(a)}
           place == CHOOSE x \in after : \A y \in after : x <= y
<1>1. CASE after = {}
    <2>1. InsertByPriority(list, a) = InsertAt(list, Len(list) + 1, a)
        BY <1>1 DEF InsertByPriority
    <2>2. Len(list) + 1 \in 1..(Len(list) + 1)
        OBVIOUS
    <2>3. ASSUME NEW m \in 1..Len(list)
          PROVE  m < Len(list) + 1 /\ PriorityOf(list[m]) <= PriorityOf(a)
        <3>1. m \notin after
            BY <1>1
        <3>2. QED
            BY <3>1
    <2>4. QED
        BY <2>1, <2>2, <2>3
<1>2. CASE after # {}
    <2>1. place \in after /\ \A y \in after : place <= y
        <3>1. after \in SUBSET Nat
            OBVIOUS
        <3> HIDE DEF after
        <3>2. \E x \in after : \A y \in after : x <= y
            BY <1>2, <3>1, LeastNat
        <3>3. QED
            BY <3>2
    <2>2. InsertByPriority(list, a) = InsertAt(list, place, a)
        BY <1>2 DEF InsertByPriority
    <2> HIDE DEF place
    <2>3. place \in 1..Len(list) /\ PriorityOf(list[place]) > PriorityOf(a)
        BY <2>1
    <2>4. ASSUME NEW m \in 1..Len(list), m < place
          PROVE  PriorityOf(list[m]) <= PriorityOf(a)
        <3>1. m \notin after
            BY <2>1, <2>3, <2>4
        <3>2. QED
            BY <3>1
    <2>5. ASSUME NEW m \in 1..Len(list), ~(m < place)
          PROVE  PriorityOf(a) <= PriorityOf(list[m])
        <3>1. CASE m = place
            BY <2>3, <3>1
        <3>2. CASE m # place
            <4>1. PriorityOf(list[place]) <= PriorityOf(list[m])
                BY <2>3, <2>5, <3>2
            <4>2. QED
                BY <2>3, <4>1
        <3>3. QED
            BY <3>1, <3>2
    <2>6. place \in 1..(Len(list) + 1)
        BY <2>3
    <2>7. QED
        BY <2>2, <2>4, <2>5, <2>6
<1>3. QED
    BY <1>1, <1>2

(* What Claim makes of the anchor. *)
LEMMA StoppedNodes ==
    ASSUME NEW a \in Ids, anchor[a] \in Seq(Node), IsActive(anchor[a])
    PROVE  /\ Claimed(a, NoInstance) \in Seq(Node)
           /\ Len(Claimed(a, NoInstance)) = Len(anchor[a]) + 1
           /\ Claimed(a, NoInstance)[1] = NewNode(NoInstance, 0)
           /\ \A m \in 2..(Len(anchor[a]) + 1) :
                 Claimed(a, NoInstance)[m] = anchor[a][m - 1]
<1>1. Claimed(a, NoInstance) = <<NewNode(NoInstance, 0)>> \o anchor[a]
    BY DEF Claimed, SetActive, BaseCount
<1>2. NewNode(NoInstance, 0) \in Node
    BY DEF NewNode, Node
<1>3. QED
    BY <1>1, <1>2

LEMMA StartedNodes ==
    ASSUME NEW a \in Ids, anchor[a] \in Seq(Node), NEW i \in Instances
    PROVE  /\ Claimed(a, i) \in Seq(Node)
           /\ Len(Claimed(a, i)) = IF Len(anchor[a]) = 0 THEN 1 ELSE Len(anchor[a])
           /\ Claimed(a, i)[1] = NewNode(i, 1)
           /\ \A m \in 2..Len(anchor[a]) : Claimed(a, i)[m] = anchor[a][m]
<1>1. Claimed(a, i) = <<NewNode(i, 1)>> \o (IF Len(anchor[a]) > 0 THEN Tail(anchor[a]) ELSE <<>>)
    BY NoInstanceAssumption DEF Claimed, Registered
<1>2. NewNode(i, 1) \in Node
    BY DEF NewNode, Node
<1>3. CASE Len(anchor[a]) > 0
    <2>1. Claimed(a, i) = <<NewNode(i, 1)>> \o Tail(anchor[a])
        BY <1>1, <1>3
    <2>2. QED
        BY <1>2, <1>3, <2>1
<1>4. CASE ~(Len(anchor[a]) > 0)
    <2>1. Claimed(a, i) = <<NewNode(i, 1)>> \o <<>>
        BY <1>1, <1>4
    <2>2. Len(anchor[a]) = 0
        BY <1>4
    <2>3. QED
        BY <1>2, <2>1, <2>2
<1>5. QED
    BY <1>3, <1>4

LEMMA OnAnchorAt ==
    ASSUME NEW s, NEW i
    PROVE  OnAnchor(s, i) <=> \E k \in 1..Len(s) : s[k].adaptor = i
BY DEF OnAnchor, PositionsOf

LEMMA ActiveInstanceAt ==
    ASSUME NEW s \in Seq(Node)
    PROVE  /\ ActiveInstance(s) \in Instances \cup {NoInstance}
           /\ Len(s) > 0 => ActiveInstance(s) = s[1].adaptor
           /\ ActiveInstance(s) # NoInstance => Len(s) > 0
<1>1. CASE Len(s) > 0
    <2>1. s[1] \in Node
        BY <1>1
    <2>2. s[1].adaptor \in Instances \cup {NoInstance}
        BY <2>1 DEF Node
    <2>3. QED
        BY <1>1, <2>2 DEF ActiveInstance, Registered
<1>2. CASE ~(Len(s) > 0)
    BY <1>2 DEF ActiveInstance, Registered
<1>3. QED
    BY <1>1, <1>2

(* The release of the last reference takes the node off the anchor. *)
LEMMA PositionOfOne ==
    ASSUME NEW s \in Seq(Node), NEW k \in 1..Len(s), NEW i, s[k].adaptor = i,
           \A m \in 1..Len(s) : s[m].adaptor = i => m = k
    PROVE  OnAnchor(s, i) /\ FirstPosition(s, i) = k
<1>1. PositionsOf(s, i) = {k}
    BY DEF PositionsOf
<1>2. k \in Int
    OBVIOUS
<1>3. QED
    BY <1>1, <1>2 DEF FirstPosition, OnAnchor

LEMMA ReleasedNodes ==
    ASSUME NEW s \in Seq(Node), NEW k \in 2..Len(s), NEW i, s[k].adaptor = i,
           LastReference(s, i), \A m \in 1..Len(s) : s[m].adaptor = i => m = k
    PROVE  Release(s, i) = Unlink(s, k)
<1>1. OnAnchor(s, i) /\ FirstPosition(s, i) = k
    BY PositionOfOne
<1>2. k # 1
    OBVIOUS
<1>3. QED
    BY <1>1, <1>2 DEF Release

(* Another count in one node changes neither who is on the anchor nor who is
   active. *)
Recounted(s, k, n) == [s EXCEPT ![k].reference_count = n]

LEMMA RecountedNodes ==
    ASSUME NEW s \in Seq(Node), NEW k \in 1..Len(s), NEW n \in Int
    PROVE  /\ Recounted(s, k, n) \in Seq(Node)
           /\ Len(Recounted(s, k, n)) = Len(s)
           /\ \A m \in 1..Len(s) :
                 /\ Recounted(s, k, n)[m].adaptor = s[m].adaptor
                 /\ Recounted(s, k, n)[m].reference_count
                       = IF m = k THEN n ELSE s[m].reference_count
<1> DEFINE node == [s[k] EXCEPT !.reference_count = n]
<1>1. s[k] \in Node /\ k \in DOMAIN s
    OBVIOUS
<1>2. node \in Node /\ node.adaptor = s[k].adaptor /\ node.reference_count = n
    BY <1>1 DEF Node
<1>3. Recounted(s, k, n) = [s EXCEPT ![k] = node]
    BY DEF Recounted
<1> HIDE DEF node
<1>4. QED
    BY <1>2, <1>3

LEMMA KeptNodes ==
    ASSUME NEW s \in Seq(Node), NEW k \in 1..Len(s), NEW i, s[k].adaptor = i,
           ~LastReference(s, i), \A m \in 1..Len(s) : s[m].adaptor = i => m = k
    PROVE  /\ Release(s, i) = Recounted(s, k, s[k].reference_count - 1)
           /\ s[k].reference_count > 1
<1>1. OnAnchor(s, i) /\ FirstPosition(s, i) = k
    BY PositionOfOne
<1>2. s[k] \in Node /\ s[k].reference_count \in Int
    <2>1. s[k] \in Node
        OBVIOUS
    <2>2. QED
        BY <2>1 DEF Node
<1>3. QED
    BY <1>1, <1>2 DEF Release, LastReference, Recounted

-----------------------------------------------------------------------------
(* HandlersInv with the list that the anchors are linked as. *)

StateInv(list) ==
    /\ TypeOK
    /\ \A t \in Threads : ThreadInv(t)
    /\ OwnersInv
    /\ NodesInv
    /\ ListInv(list)

HasStateInv == \E list : StateInv(list)

LEMMA ActiveListOf ==
    ASSUME NEW list, OrderInv(list)
    PROVE  ActiveList = list
BY ActiveListIs DEF OrderInv, ActiveList

LEMMA HandlersInvOfList == HandlersInv <=> HasStateInv
<1>1. ASSUME HandlersInv PROVE HasStateInv
    BY <1>1 DEF HandlersInv, HasStateInv, StateInv
<1>2. ASSUME NEW list, StateInv(list) PROVE HandlersInv
    <2>1. ActiveList = list
        BY <1>2, ActiveListOf DEF StateInv, ListInv
    <2>2. QED
        BY <1>2, <2>1 DEF HandlersInv, StateInv
<1>3. QED
    BY <1>1, <1>2 DEF HasStateInv

(* What Goto writes. *)
LEMMA GotoAt ==
    ASSUME TypeOK, NEW t \in Threads, NEW location, NEW a, NEW i, Goto(t, location, a, i)
    PROVE  /\ pc'[t] = location /\ id'[t] = a /\ instance'[t] = i
           /\ \A u \in Threads \ {t} :
                 pc'[u] = pc[u] /\ id'[u] = id[u] /\ instance'[u] = instance[u]
BY DEF TypeOK, Goto

LEMMA GotoType ==
    ASSUME TypeOK, NEW t \in Threads,
           NEW location \in Checking \cup {"idle", "starting", "unlinked", "claimed",
                                          "retiring", "destroying", "counting",
                                          "discarding"},
           NEW a \in Ids \cup {NoId}, NEW i \in Instances \cup {NoInstance},
           Goto(t, location, a, i)
    PROVE  /\ pc' \in [Threads -> Checking \cup
                          {"idle", "starting", "unlinked", "claimed", "retiring",
                           "destroying", "counting", "discarding"}]
           /\ id' \in [Threads -> Ids \cup {NoId}]
           /\ instance' \in [Threads -> Instances \cup {NoInstance}]
BY DEF TypeOK, Goto

(* A thread that a step leaves alone, when the step leaves the anchors alone. *)
LEMMA QuietThread ==
    ASSUME NEW u \in Threads, ThreadInv(u), anchor' = anchor, created \subseteq created',
           pc'[u] = pc[u], id'[u] = id[u], instance'[u] = instance[u],
           cursor'[u] = cursor[u], writer' = u <=> writer = u,
           pc[u] = "counting" /\ writer = NoThread => writer' = NoThread
    PROVE  ThreadInv(u)'
BY DEF ThreadInv, Owning

(* A thread that works on nothing. *)
LEMMA IdleThread ==
    ASSUME NEW u \in Threads, pc'[u] \in {"idle", "walking"}, writer' # u
    PROVE  ThreadInv(u)'
BY DEF ThreadInv, Owning

LEMMA QuietOwners ==
    ASSUME OwnersInv, NEW t \in Threads,
           \A u \in Threads \ {t} : pc'[u] = pc[u] /\ instance'[u] = instance[u],
           pc'[t] \in Owning =>
               \/ instance'[t] = NoInstance
               \/ pc[t] \in Owning /\ instance'[t] = instance[t]
    PROVE  OwnersInv'
BY DEF OwnersInv

LEMMA QuietNodes ==
    ASSUME NodesInv, anchor' = anchor, created \subseteq created'
    PROVE  NodesInv'
BY DEF NodesInv

LEMMA TakenOutAt ==
    ASSUME NEW t \in Threads, writer = t
    PROVE  TakenOut = {id[t]}
BY DEF TakenOut

LEMMA NothingTakenOut ==
    ASSUME writer = NoThread
    PROVE  TakenOut = {}
BY HandlersAssumption DEF TakenOut

(* The list, when a step changes neither the links nor who is active. *)
LEMMA QuietOrder ==
    ASSUME NEW list, OrderInv(list), UNCHANGED <<listVars, writer>>,
           \A a \in Ids : ActiveInstance(anchor'[a]) = ActiveInstance(anchor[a]),
           \A t \in Threads : writer = t => id'[t] = id[t]
    PROVE  OrderInv(list)'
<1>1. TakenOut' = TakenOut
    BY DEF TakenOut
<1>2. \A a \in Ids : PriorityOf(a)' = PriorityOf(a) /\ IsActive(anchor'[a]) = IsActive(anchor[a])
    BY DEF PriorityOf, IsActive
<1>3. LinkedAs(next_anchor, first_anchor, list)'
    BY DEF OrderInv, listVars, LinkedAs
<1>4. \A k \in 1..Len(list) : list[k] \in Ids
    BY LinkedFacts DEF OrderInv
<1>5. ToSet(list) = {a \in Ids : IsActive(anchor'[a])} \ TakenOut'
    BY <1>1, <1>2 DEF OrderInv
<1>6. \A k, m \in 1..Len(list) : k < m => PriorityOf(list[k])' <= PriorityOf(list[m])'
    BY <1>2, <1>4 DEF OrderInv
<1>7. writer' = NoThread => \A k \in 1..Len(list) : processing_order'[list[k]] = k
    BY DEF OrderInv, listVars
<1>8. QED
    BY <1>3, <1>5, <1>6, <1>7 DEF OrderInv

LEMMA QuietCheck ==
    ASSUME NEW list, OrderInv(list), NEW u \in Threads, CheckInv(u, list),
           \A a \in Ids : ActiveInstance(anchor'[a]) = ActiveInstance(anchor[a]),
           pc'[u] = pc[u], cursor'[u] = cursor[u], visited'[u] = visited[u],
           disturbed'[u] = disturbed[u], writer' = writer
    PROVE  CheckInv(u, list)'
<1>1. \A k \in 1..Len(list) : list[k] \in Ids /\ Len(list) \in Nat
    BY LinkedFacts DEF OrderInv
<1>2. ASSUME NEW k \in 1..(Len(list) + 1), CheckIsAt(u, list, k), pc[u] \in Checking
      PROVE  CheckIsAt(u, list, k)'
    <2> DEFINE n == IF pc[u] = "walking" THEN k - 1 ELSE k
    <2>1. visited[u] = [m \in 1..n |-> ActiveInstance(anchor[list[m]])]
        BY <1>2 DEF CheckIsAt
    <2>2. n <= Len(list)
        <3>1. Len(list) \in Nat
            BY LinkedFacts DEF OrderInv
        <3>2. QED
            BY <1>2, <3>1 DEF CheckIsAt, Checking
    <2>3. \A m \in 1..n : list[m] \in Ids
        BY <1>1, <2>2
    <2>4. [m \in 1..n |-> ActiveInstance(anchor'[list[m]])]
            = [m \in 1..n |-> ActiveInstance(anchor[list[m]])]
        BY <2>3
    <2>5. QED
        BY <1>2, <2>1, <2>4 DEF CheckIsAt
<1>3. QED
    BY <1>2 DEF CheckInv

(* A step of a write section leaves nothing to say of the checks under way. *)
LEMMA DisturbedChecks ==
    ASSUME TypeOK, Disturb, NEW t \in Threads, pc'[t] \notin Checking,
           \A u \in Threads \ {t} : pc'[u] = pc[u], NEW list
    PROVE  \A u \in Threads : CheckInv(u, list)'
BY DEF CheckInv, Disturb

-----------------------------------------------------------------------------
(* The steps of a write section. *)

LEMMA NotOnAnchor ==
    ASSUME TypeOK, NodesInv, NEW a \in Ids, NEW i \in Instances, i \notin created
    PROVE  ~OnAnchor(anchor[a], i)
<1>1. ASSUME NEW k \in 1..Len(anchor[a]), anchor[a][k].adaptor = i PROVE FALSE
    BY <1>1, NoInstanceAssumption DEF NodesInv
<1>2. QED
    BY <1>1, OnAnchorAt

LEMMA CreateHandlerInv ==
    ASSUME NEW list, StateInv(list), NEW t \in Threads, CreateHandler(t)
    PROVE  StateInv(list)'
<1> USE NoInstanceAssumption
<1>1. /\ TypeOK /\ OwnersInv /\ NodesInv /\ OrderInv(list)
      /\ \A u \in Threads : ThreadInv(u) /\ CheckInv(u, list)
    BY DEF StateInv, ListInv
<1>2. PICK i \in Instances \ created :
          created' = created \cup {i} /\ Goto(t, "starting", IdOf[i], i)
    BY DEF CreateHandler
<1>3. /\ pc[t] = "idle" /\ anchor' = anchor /\ writer' = writer
      /\ UNCHANGED <<listVars, countVars, checkVars, destroyed, disturbed>>
    BY DEF CreateHandler
<1>4. IdOf[i] \in Ids
    BY HandlersAssumption
<1>5. /\ pc'[t] = "starting" /\ id'[t] = IdOf[i] /\ instance'[t] = i
      /\ \A u \in Threads \ {t} :
            pc'[u] = pc[u] /\ id'[u] = id[u] /\ instance'[u] = instance[u]
    BY <1>1, <1>2, GotoAt
<1>6. TypeOK'
    <2>1. /\ pc' \in [Threads -> Checking \cup
                          {"idle", "starting", "unlinked", "claimed", "retiring",
                           "destroying", "counting", "discarding"}]
          /\ id' \in [Threads -> Ids \cup {NoId}]
          /\ instance' \in [Threads -> Instances \cup {NoInstance}]
        BY <1>1, <1>2, <1>4, GotoType
    <2>2. QED
        BY <1>1, <1>2, <1>3, <2>1 DEF TypeOK, listVars, countVars, checkVars
<1>7. ASSUME NEW u \in Threads PROVE ThreadInv(u)'
    <2>1. CASE u = t
        <3>1. ~OnAnchor(anchor'[id'[t]], instance'[t])
            BY <1>1, <1>3, <1>4, <1>5, NotOnAnchor
        <3>2. writer' # t
            BY <1>1, <1>3 DEF ThreadInv
        <3>3. QED
            BY <1>2, <1>4, <1>5, <2>1, <3>1, <3>2 DEF ThreadInv, Owning
    <2>2. CASE u # t
        BY <1>1, <1>2, <1>3, <1>5, <2>2, QuietThread DEF checkVars
    <2>3. QED
        BY <2>1, <2>2
<1>8. OwnersInv'
    <2>1. \A u \in Threads : pc[u] \in Owning /\ instance[u] # NoInstance => instance[u] # i
        BY <1>1, <1>2 DEF ThreadInv
    <2>2. QED
        BY <1>1, <1>5, <2>1 DEF OwnersInv
<1>9. NodesInv'
    BY <1>1, <1>2, <1>3, <1>5, QuietNodes
<1>10. OrderInv(list)'
    <2>1. writer # t
        BY <1>1, <1>3 DEF ThreadInv
    <2>2. QED
        BY <1>1, <1>3, <1>5, <2>1, QuietOrder
<1>11. ASSUME NEW u \in Threads PROVE CheckInv(u, list)'
    <2>1. CASE u = t
        BY <1>5, <2>1 DEF CheckInv, Checking
    <2>2. CASE u # t
        BY <1>1, <1>3, <1>5, <2>2, QuietCheck DEF checkVars
    <2>3. QED
        BY <2>1, <2>2
<1>12. QED
    BY <1>6, <1>7, <1>8, <1>9, <1>10, <1>11 DEF StateInv, ListInv

(* The unlinked id is out of the list; the other anchors keep their order. *)
LEMMA TakeOutInv ==
    ASSUME NEW list, StateInv(list), NEW t \in Threads, NEW a \in Ids,
           NEW i \in Instances \cup {NoInstance}, TakeOut(t, a, i),
           pc[t] \in {"idle", "starting"},
           i = NoInstance => IsActive(anchor[a]),
           i # NoInstance => /\ pc[t] = "starting" /\ instance[t] = i
                             /\ i \in created /\ IdOf[i] = a /\ ~OnAnchor(anchor[a], i)
    PROVE  \E l : StateInv(l)'
<1>1. /\ TypeOK /\ OwnersInv /\ NodesInv /\ OrderInv(list)
      /\ \A u \in Threads : ThreadInv(u) /\ CheckInv(u, list)
    BY DEF StateInv, ListInv
<1>2. /\ writer = NoThread /\ NoReader /\ writer' = t /\ anchor' = anchor
      /\ Goto(t, "unlinked", a, i) /\ Disturb
      /\ UNCHANGED <<processing_order, countVars, checkVars, created, destroyed>>
    BY DEF TakeOut
<1>3. /\ pc'[t] = "unlinked" /\ id'[t] = a /\ instance'[t] = i
      /\ \A u \in Threads \ {t} :
            pc'[u] = pc[u] /\ id'[u] = id[u] /\ instance'[u] = instance[u]
    BY <1>1, <1>2, GotoAt
<1>4. TypeOK'
    <2>1. /\ pc' \in [Threads -> Checking \cup
                          {"idle", "starting", "unlinked", "claimed", "retiring",
                           "destroying", "counting", "discarding"}]
          /\ id' \in [Threads -> Ids \cup {NoId}]
          /\ instance' \in [Threads -> Instances \cup {NoInstance}]
        BY <1>1, <1>2, GotoType
    <2>2. /\ next_anchor' \in [Ids -> Ids \cup {NoId}]
          /\ first_anchor' \in Ids \cup {NoId}
        <3>1. CASE InList(a)
            <4>1. next_anchor' = Unlinked(a)
                BY <3>1 DEF TakeOut
            <4>2. first_anchor' = IF first_anchor = a THEN next_anchor[a] ELSE first_anchor
                BY <3>1 DEF TakeOut
            <4>3. /\ next_anchor \in [Ids -> Ids \cup {NoId}]
                  /\ first_anchor \in Ids \cup {NoId}
                BY <1>1 DEF TypeOK
            <4>4. \A b \in Ids : (CASE b = a -> NoId
                                    [] b # a /\ next_anchor[b] = a -> next_anchor[a]
                                    [] b # a /\ next_anchor[b] # a -> next_anchor[b])
                                  \in Ids \cup {NoId}
                BY <4>3
            <4>5. next_anchor' \in [Ids -> Ids \cup {NoId}]
                BY <4>1, <4>4 DEF Unlinked
            <4>6. QED
                BY <4>2, <4>3, <4>5
        <3>2. CASE ~InList(a)
            BY <1>1, <3>2 DEF TakeOut, TypeOK
        <3>3. QED
            BY <3>1, <3>2
    <2>3. disturbed' \in [Threads -> BOOLEAN]
        BY <1>1, <1>2 DEF Disturb, TypeOK
    <2>4. QED
        BY <1>1, <1>2, <2>1, <2>2, <2>3 DEF TypeOK, countVars, checkVars
<1>5. ASSUME NEW u \in Threads PROVE ThreadInv(u)'
    <2>1. CASE u = t
        BY <1>2, <1>3, <2>1 DEF ThreadInv, Owning
    <2>2. CASE u # t
        <3>1. writer' # u /\ writer # u /\ pc[u] # "counting"
            BY <1>2, <2>2, HandlersAssumption DEF NoReader
        <3>2. QED
            BY <1>1, <1>2, <1>3, <2>2, <3>1, QuietThread DEF checkVars
    <2>3. QED
        BY <2>1, <2>2
<1>6. OwnersInv'
    <2>1. instance'[t] = NoInstance \/ (pc[t] \in Owning /\ instance'[t] = instance[t])
        BY <1>3 DEF Owning
    <2>2. \A u \in Threads \ {t} : pc'[u] = pc[u] /\ instance'[u] = instance[u]
        BY <1>3
    <2>3. OwnersInv
        BY <1>1
    <2>4. QED
        BY <2>1, <2>2, <2>3, QuietOwners
<1>7. NodesInv'
    BY <1>1, <1>2, <1>3, QuietNodes
<1>8. \A l : \A u \in Threads : CheckInv(u, l)'
    BY <1>1, <1>2, <1>3, DisturbedChecks DEF Checking
<1>9. ActiveList = list /\ LinkedAs(next_anchor, first_anchor, list)
    BY <1>1, ActiveListOf DEF OrderInv
<1>10. /\ list \in Seq(Ids) /\ Len(list) \in Nat
       /\ \A c : c \in ToSet(list) <=> \E k \in 1..Len(list) : list[k] = c
       /\ \A k, m \in 1..Len(list) : k < m => PriorityOf(list[k]) <= PriorityOf(list[m])
    BY <1>1, <1>9, LinkedFacts DEF OrderInv
<1>11. \A b : PriorityOf(b)' = PriorityOf(b)
    BY <1>2 DEF PriorityOf
<1>12. ToSet(list) = {b \in Ids : IsActive(anchor[b])}
    BY <1>1, <1>2, NothingTakenOut DEF OrderInv
<1>13. TakenOut' = {a}
    BY <1>2, <1>3 DEF TakenOut
<1>14. writer' # NoThread
    BY <1>2, HandlersAssumption
<1>15. CASE InList(a)
    <2>1. PICK k \in 1..Len(list) : list[k] = a
        BY <1>9, <1>10, <1>15 DEF InList
    <2> DEFINE l == Unlink(list, k)
    <2>2. /\ next_anchor' = Unlinked(a)
          /\ first_anchor' = IF first_anchor = a THEN next_anchor[a] ELSE first_anchor
        BY <1>15 DEF TakeOut
    <2>3. LinkedAs(next_anchor', first_anchor', l) /\ ToSet(l) = ToSet(list) \ {a}
        BY <1>9, <2>1, <2>2, UnlinkedList DEF Unlinked
    <2>4. /\ Len(l) = Len(list) - 1
          /\ \A m \in 1..(Len(list) - 1) : l[m] = IF m < k THEN list[m] ELSE list[m + 1]
        BY <1>10, UnlinkSeq
    <2> HIDE DEF l
    <2>5. ASSUME NEW m \in 1..Len(l), NEW j \in 1..Len(l), m < j
          PROVE  PriorityOf(l[m]) <= PriorityOf(l[j])
        <3> DEFINE at(x) == IF x < k THEN x ELSE x + 1
        <3>1. /\ at(m) \in 1..Len(list) /\ at(j) \in 1..Len(list) /\ at(m) < at(j)
              /\ l[m] = list[at(m)] /\ l[j] = list[at(j)]
            BY <1>10, <2>4, <2>5
        <3> HIDE DEF at
        <3>2. QED
            BY <1>10, <3>1
    <2>6. ToSet(l) = {b \in Ids : IsActive(anchor'[b])} \ TakenOut'
        BY <1>2, <1>12, <1>13, <2>3
    <2>7. OrderInv(l)'
        BY <1>11, <1>14, <2>3, <2>5, <2>6 DEF OrderInv
    <2>8. StateInv(l)'
        BY <1>4, <1>5, <1>6, <1>7, <1>8, <2>7 DEF StateInv, ListInv
    <2>9. QED
        BY <2>8
<1>16. CASE ~InList(a)
    <2>1. next_anchor' = next_anchor /\ first_anchor' = first_anchor
        BY <1>16 DEF TakeOut
    <2>2. a \notin ToSet(list)
        BY <1>9, <1>16 DEF InList
    <2>3. ToSet(list) = {b \in Ids : IsActive(anchor'[b])} \ TakenOut'
        BY <1>2, <1>12, <1>13, <2>2
    <2>4. OrderInv(list)'
        BY <1>9, <1>10, <1>11, <1>14, <2>1, <2>3 DEF OrderInv
    <2>5. StateInv(list)'
        BY <1>4, <1>5, <1>6, <1>7, <1>8, <2>4 DEF StateInv, ListInv
    <2>6. QED
        BY <2>5
<1>17. QED
    BY <1>15, <1>16

LEMMA StartInv ==
    ASSUME NEW list, StateInv(list), NEW t \in Threads, Start(t)
    PROVE  \E l : StateInv(l)'
<1>1. TypeOK /\ ThreadInv(t) /\ pc[t] = "starting"
    BY DEF StateInv, Start
<1>2. /\ id[t] \in Ids /\ instance[t] \in Instances /\ instance[t] # NoInstance
      /\ instance[t] \in created /\ IdOf[instance[t]] = id[t]
      /\ ~OnAnchor(anchor[id[t]], instance[t])
    BY <1>1 DEF ThreadInv, Owning, TypeOK
<1>3. TakeOut(t, id[t], instance[t])
    BY DEF Start
<1>4. QED
    BY <1>1, <1>2, <1>3, TakeOutInv

LEMMA StopInv ==
    ASSUME NEW list, StateInv(list), NEW t \in Threads, Stop(t)
    PROVE  \E l : StateInv(l)'
<1>1. PICK a \in Ids : IsActive(anchor[a]) /\ TakeOut(t, a, NoInstance)
    BY DEF Stop
<1>2. pc[t] = "idle"
    BY DEF Stop
<1>3. QED
    BY <1>1, <1>2, TakeOutInv

(* Claim for a stop: the running handler goes down the chain. *)
LEMMA ClaimInv ==
    ASSUME NEW list, StateInv(list), NEW t \in Threads, Claim(t)
    PROVE  StateInv(list)'
<1> USE NoInstanceAssumption
<1> DEFINE a == id[t]
           c == Claimed(a, instance[t])
           j == IF instance[t] # NoInstance THEN instance[t] ELSE ActiveInstance(anchor[a])
<1>1. /\ TypeOK /\ OwnersInv /\ NodesInv /\ OrderInv(list)
      /\ \A u \in Threads : ThreadInv(u) /\ CheckInv(u, list)
    BY DEF StateInv, ListInv
<1>2. /\ pc[t] = "unlinked" /\ anchor' = [anchor EXCEPT ![a] = c]
      /\ Goto(t, "claimed", a, j) /\ Disturb
      /\ UNCHANGED <<listVars, writer, countVars, checkVars, created, destroyed>>
    BY DEF Claim
<1>3. /\ a \in Ids /\ anchor \in [Ids -> Seq(Node)] /\ anchor[a] \in Seq(Node)
      /\ instance[t] \in Instances \cup {NoInstance} /\ writer = t
    BY <1>1, <1>2 DEF TypeOK, ThreadInv, Owning
<1>4. /\ pc'[t] = "claimed" /\ id'[t] = a /\ instance'[t] = j
      /\ \A u \in Threads \ {t} :
            pc'[u] = pc[u] /\ id'[u] = id[u] /\ instance'[u] = instance[u]
    BY <1>1, <1>2, GotoAt
<1>5. /\ j \in Instances /\ j # NoInstance /\ j \in created /\ IdOf[j] = a
      /\ instance[t] = NoInstance => /\ IsActive(anchor[a]) /\ Len(anchor[a]) > 0
                                     /\ anchor[a][1].adaptor = j
      /\ instance[t] # NoInstance => ~OnAnchor(anchor[a], j) /\ j = instance[t]
    <2>1. CASE instance[t] # NoInstance
        BY <1>1, <1>2, <1>3, <2>1 DEF ThreadInv, Owning
    <2>2. CASE instance[t] = NoInstance
        <3>1. IsActive(anchor[a])
            BY <1>1, <1>2, <2>2 DEF ThreadInv
        <3>2. /\ j \in Instances /\ Len(anchor[a]) > 0 /\ anchor[a][1].adaptor = j
              /\ j # NoInstance
            BY <1>3, <2>2, <3>1, ActiveInstanceAt DEF IsActive
        <3>3. 1 \in 1..Len(anchor[a])
            BY <1>3, <3>2
        <3>4. j \in created /\ IdOf[j] = a
            BY <1>1, <1>3, <3>2, <3>3 DEF NodesInv
        <3>5. QED
            BY <2>2, <3>1, <3>2, <3>4
    <2>3. QED
        BY <2>1, <2>2
(* The nodes behind the first one are those of before, and j when it stops. *)
<1>6. /\ c \in Seq(Node) /\ Len(c) > 0
      /\ c[1].adaptor = instance[t]
      /\ \A m \in 2..Len(c) : \E k \in 1..Len(anchor[a]) :
            /\ c[m] = anchor[a][k]
            /\ k = IF instance[t] = NoInstance THEN m - 1 ELSE m
      /\ \A k \in 1..Len(anchor[a]) :
            (instance[t] = NoInstance \/ k > 1)
                => \E m \in 2..Len(c) : c[m] = anchor[a][k]
    <2>1. CASE instance[t] = NoInstance
        <3>1. /\ c \in Seq(Node) /\ Len(c) = Len(anchor[a]) + 1
              /\ c[1] = NewNode(NoInstance, 0)
              /\ \A m \in 2..(Len(anchor[a]) + 1) : c[m] = anchor[a][m - 1]
            BY <1>3, <1>5, <2>1, StoppedNodes
        <3> HIDE DEF c
        <3>2. c[1].adaptor = NoInstance
            BY <3>1 DEF NewNode
        <3>3. \A m \in 2..Len(c) : m - 1 \in 1..Len(anchor[a]) /\ c[m] = anchor[a][m - 1]
            BY <1>3, <3>1
        <3>4. \A k \in 1..Len(anchor[a]) : k + 1 \in 2..Len(c) /\ c[k + 1] = anchor[a][k]
            BY <1>3, <3>1
        <3>5. \A m \in 2..Len(c) : \E k \in 1..Len(anchor[a]) :
                  c[m] = anchor[a][k] /\ k = m - 1
            BY <3>3
        <3>6. \A k \in 1..Len(anchor[a]) : \E m \in 2..Len(c) : c[m] = anchor[a][k]
            BY <3>4
        <3>7. Len(c) > 0
            BY <1>3, <3>1
        <3>8. QED
            BY <2>1, <3>1, <3>2, <3>5, <3>6, <3>7
    <2>2. CASE instance[t] # NoInstance
        <3>1. /\ c \in Seq(Node)
              /\ Len(c) = IF Len(anchor[a]) = 0 THEN 1 ELSE Len(anchor[a])
              /\ c[1] = NewNode(instance[t], 1)
              /\ \A m \in 2..Len(anchor[a]) : c[m] = anchor[a][m]
            BY <1>3, <2>2, StartedNodes
        <3> HIDE DEF c
        <3>2. c[1].adaptor = instance[t]
            BY <3>1 DEF NewNode
        <3>3. \A m \in 2..Len(c) : m \in 1..Len(anchor[a]) /\ c[m] = anchor[a][m]
            BY <1>3, <3>1
        <3>4. \A k \in 1..Len(anchor[a]) : k > 1 => k \in 2..Len(c) /\ c[k] = anchor[a][k]
            BY <1>3, <3>1
        <3>5. QED
            BY <2>2, <3>1, <3>2, <3>3, <3>4
    <2>3. QED
        BY <2>1, <2>2
<1>7. anchor'[a] = c /\ \A b \in Ids \ {a} : anchor'[b] = anchor[b]
    BY <1>2, <1>3
<1> HIDE DEF c
<1>8. TypeOK'
    <2>1. /\ pc' \in [Threads -> Checking \cup
                          {"idle", "starting", "unlinked", "claimed", "retiring",
                           "destroying", "counting", "discarding"}]
          /\ id' \in [Threads -> Ids \cup {NoId}]
          /\ instance' \in [Threads -> Instances \cup {NoInstance}]
        BY <1>1, <1>2, <1>3, <1>5, GotoType
    <2>2. anchor' \in [Ids -> Seq(Node)]
        BY <1>2, <1>3, <1>6
    <2>3. disturbed' \in [Threads -> BOOLEAN]
        BY <1>1, <1>2 DEF Disturb, TypeOK
    <2>4. QED
        BY <1>1, <1>2, <2>1, <2>2, <2>3 DEF TypeOK, listVars, countVars, checkVars
(* Who was on the anchor and is not the one that is overwritten still is. *)
<1>9. ASSUME NEW i, i # NoInstance
      PROVE  OnAnchor(c, i) <=> \/ OnAnchor(anchor[a], i) /\ (instance[t] = NoInstance
                                        \/ i # ActiveInstance(anchor[a]))
                               \/ i = instance[t]
    <2>1. ASSUME NEW m \in 1..Len(c), c[m].adaptor = i, i # instance[t]
          PROVE  OnAnchor(anchor[a], i) /\ (instance[t] = NoInstance
                                              \/ i # ActiveInstance(anchor[a]))
        <3>1. m \in 2..Len(c)
            BY <1>6, <2>1
        <3>2. PICK k \in 1..Len(anchor[a]) :
                  c[m] = anchor[a][k] /\ k = IF instance[t] = NoInstance THEN m - 1 ELSE m
            BY <1>6, <3>1
        <3>3. OnAnchor(anchor[a], i)
            BY <2>1, <3>2, OnAnchorAt
        <3>4. ASSUME instance[t] # NoInstance, i = ActiveInstance(anchor[a]) PROVE FALSE
            <4>1. 1 \in 1..Len(anchor[a]) /\ anchor[a][1].adaptor = i
                BY <1>3, <1>9, <3>4, ActiveInstanceAt
            <4>2. anchor[a][k].adaptor = i /\ k # 1
                BY <2>1, <3>1, <3>2, <3>4
            <4>3. QED
                BY <1>1, <1>3, <1>9, <4>1, <4>2 DEF NodesInv
        <3>5. QED
            BY <3>3, <3>4
    <2>2. ASSUME OnAnchor(anchor[a], i),
                 instance[t] = NoInstance \/ i # ActiveInstance(anchor[a])
          PROVE  OnAnchor(c, i)
        <3>1. PICK k \in 1..Len(anchor[a]) : anchor[a][k].adaptor = i
            BY <2>2, OnAnchorAt
        <3>2. instance[t] = NoInstance \/ k > 1
            <4>1. k = 1 => ActiveInstance(anchor[a]) = i
                BY <1>3, <3>1, ActiveInstanceAt
            <4>2. QED
                BY <2>2, <4>1
        <3>3. PICK m \in 2..Len(c) : c[m] = anchor[a][k]
            BY <1>6, <3>2
        <3>4. m \in 1..Len(c)
            OBVIOUS
        <3>5. QED
            BY <3>1, <3>3, <3>4, OnAnchorAt
    <2>3. ASSUME i = instance[t] PROVE OnAnchor(c, i)
        <3>1. 1 \in 1..Len(c)
            BY <1>6
        <3>2. QED
            BY <1>6, <2>3, <3>1, OnAnchorAt
    <2>4. QED
        BY <2>1, <2>2, <2>3, OnAnchorAt
<1>10. ActiveInstance(c) = instance[t]
    BY <1>6, ActiveInstanceAt
<1>11. ASSUME NEW u \in Threads, u # t PROVE ThreadInv(u)'
    <2>1. ThreadInv(u) /\ pc[u] \notin {"unlinked", "claimed", "counting"}
        BY <1>1, <1>3, <1>11, HandlersAssumption DEF ThreadInv
    <2>2. /\ pc'[u] = pc[u] /\ id'[u] = id[u] /\ instance'[u] = instance[u]
          /\ writer' = writer /\ created' = created /\ cursor' = cursor
        BY <1>2, <1>4, <1>11 DEF checkVars
    <2>3. CASE pc[u] \notin Owning \/ id[u] # a
        <3>1. pc[u] \in Owning => anchor'[id[u]] = anchor[id[u]]
            BY <1>7, <2>1, <2>3 DEF ThreadInv
        <3>2. QED
            BY <2>1, <2>2, <3>1 DEF ThreadInv, Owning
    <2>4. CASE pc[u] \in {"starting", "destroying"} /\ id[u] = a
        <3>1. /\ instance[u] # NoInstance /\ ~OnAnchor(anchor[a], instance[u])
              /\ pc[u] \in Owning
            BY <2>1, <2>4 DEF ThreadInv, Owning
        <3>2. instance[u] # instance[t]
            BY <1>1, <1>11, <1>2, <3>1 DEF OwnersInv, Owning
        <3>3. ~OnAnchor(c, instance[u])
            BY <1>9, <3>1, <3>2
        <3>4. QED
            BY <1>7, <2>1, <2>2, <2>4, <3>3 DEF ThreadInv, Owning
    <2>5. CASE pc[u] = "retiring" /\ id[u] = a
        <3>1. /\ instance[u] # NoInstance /\ OnAnchor(anchor[a], instance[u])
              /\ ActiveInstance(anchor[a]) # instance[u] /\ pc[u] \in Owning
            BY <2>1, <2>5 DEF ThreadInv, Owning
        <3>2. instance[u] # instance[t]
            BY <1>1, <1>11, <1>2, <3>1 DEF OwnersInv, Owning
        <3>3. OnAnchor(c, instance[u]) /\ ActiveInstance(c) # instance[u]
            BY <1>9, <1>10, <3>1, <3>2
        <3>4. QED
            BY <1>7, <2>1, <2>2, <2>5, <3>3 DEF ThreadInv, Owning
    <2>6. QED
        BY <2>1, <2>3, <2>4, <2>5 DEF Owning
<1>12. ThreadInv(t)'
    <2>1. OnAnchor(c, j)
        <3>1. instance[t] = NoInstance => OnAnchor(anchor[a], j)
            <4>1. instance[t] = NoInstance => 1 \in 1..Len(anchor[a])
                BY <1>3, <1>5
            <4>2. QED
                BY <1>5, <4>1, OnAnchorAt
        <3>2. QED
            BY <1>5, <1>9, <3>1
    <2>2. ActiveInstance(c) \in {NoInstance, j}
        BY <1>5, <1>10
    <2>3. writer' = t
        BY <1>2, <1>3
    <2>4. QED
        BY <1>2, <1>3, <1>4, <1>5, <1>7, <2>1, <2>2, <2>3 DEF ThreadInv, Owning
<1>13. OwnersInv'
    <2>1. ASSUME NEW u \in Threads, u # t, pc[u] \in Owning PROVE instance[u] # j
        <3>1. CASE instance[t] # NoInstance
            BY <1>1, <1>2, <1>5, <2>1, <3>1 DEF OwnersInv, Owning
        <3>2. CASE instance[t] = NoInstance
            <4>1. /\ ThreadInv(u) /\ pc[u] \in {"starting", "retiring", "destroying"}
                  /\ instance[u] # NoInstance
                BY <1>1, <1>3, <2>1 DEF ThreadInv, Owning
            <4>2. IdOf[instance[u]] = id[u]
                BY <2>1, <4>1 DEF ThreadInv
            <4>3. ASSUME instance[u] = j PROVE FALSE
                <5>1. id[u] = a
                    BY <1>5, <4>2, <4>3
                <5>2. pc[u] # "retiring"
                    BY <3>2, <4>1, <4>3, <5>1 DEF ThreadInv
                <5>3. 1 \in 1..Len(anchor[a])
                    BY <1>3, <1>5, <3>2
                <5>4. OnAnchor(anchor[a], j)
                    BY <1>5, <3>2, <5>3, OnAnchorAt
                <5>5. QED
                    BY <4>1, <4>3, <5>1, <5>2, <5>4 DEF ThreadInv
            <4>4. QED
                BY <4>3
        <3>3. QED
            BY <3>1, <3>2
    <2>2. QED
        BY <1>1, <1>4, <2>1 DEF OwnersInv
<1>14. NodesInv'
    <2>1. ASSUME NEW b \in Ids, b # a, NEW k \in 1..Len(anchor'[b])
          PROVE  LET i == anchor'[b][k].adaptor
                 IN  /\ i # NoInstance => /\ i \in created' /\ IdOf[i] = b
                                          /\ \A m \in 1..Len(anchor'[b]) :
                                                 anchor'[b][m].adaptor = i => m = k
                     /\ k > 1 => i # NoInstance
        <3>1. anchor'[b] = anchor[b] /\ created' = created
            BY <1>2, <1>7, <2>1
        <3>2. QED
            BY <1>1, <3>1 DEF NodesInv
    <2>2. ASSUME NEW k \in 1..Len(c)
          PROVE  LET i == c[k].adaptor
                 IN  /\ i # NoInstance => /\ i \in created' /\ IdOf[i] = a
                                          /\ \A m \in 1..Len(c) : c[m].adaptor = i => m = k
                     /\ k > 1 => i # NoInstance
        <3> DEFINE of(m) == IF instance[t] = NoInstance THEN m - 1 ELSE m
        <3>1. ASSUME NEW m \in 2..Len(c)
              PROVE  of(m) \in 1..Len(anchor[a]) /\ c[m] = anchor[a][of(m)]
            BY <1>6
        <3>2. ASSUME NEW m \in 2..Len(c)
              PROVE  c[m].adaptor # instance[t] \/ instance[t] = NoInstance
            BY <1>3, <1>5, <3>1, OnAnchorAt
        <3>3. CASE k = 1
            <4>1. c[k].adaptor = instance[t]
                BY <1>6, <3>3
            <4>2. instance[t] # NoInstance => instance[t] \in created' /\ IdOf[instance[t]] = a
                BY <1>2, <1>5
            <4>3. ASSUME NEW m \in 1..Len(c), c[m].adaptor = instance[t],
                         instance[t] # NoInstance
                  PROVE  m = k
                BY <3>2, <3>3, <4>3
            <4>4. QED
                BY <3>3, <4>1, <4>2, <4>3
        <3>4. CASE k # 1
            <4>1. k \in 2..Len(c)
                BY <3>4
            <4> DEFINE p == of(k)
                       i == c[k].adaptor
            <4>2. p \in 1..Len(anchor[a]) /\ c[k] = anchor[a][p]
                BY <3>1, <4>1
            <4>3. i # NoInstance => /\ i \in created /\ IdOf[i] = a
                                    /\ \A m \in 1..Len(anchor[a]) :
                                          anchor[a][m].adaptor = i => m = p
                BY <1>1, <1>3, <4>2 DEF NodesInv
            <4>4. ASSUME NEW m \in 1..Len(c), c[m].adaptor = i, i # NoInstance
                  PROVE  m = k
                <5>1. m # 1
                    BY <1>6, <3>2, <4>1, <4>4
                <5>2. m \in 2..Len(c)
                    BY <5>1
                <5>3. of(m) = p
                    BY <3>1, <4>3, <4>4, <5>2
                <5>4. QED
                    BY <5>2, <4>1, <5>3
            <4>5. i # NoInstance
                <5>1. CASE p > 1
                    BY <1>1, <1>3, <4>2, <5>1 DEF NodesInv
                <5>2. CASE ~(p > 1)
                    <6>1. p = 1 /\ instance[t] = NoInstance
                        BY <4>1, <4>2, <5>2
                    <6>2. QED
                        BY <1>5, <4>2, <6>1
                <5>3. QED
                    BY <5>1, <5>2
            <4>6. created' = created
                BY <1>2
            <4>7. QED
                BY <4>3, <4>4, <4>5, <4>6
        <3>5. QED
            BY <3>3, <3>4
    <2>3. QED
        BY <1>7, <2>1, <2>2 DEF NodesInv
<1>15. OrderInv(list)'
    <2>1. TakenOut = {a} /\ TakenOut' = {a}
        <3>1. writer' = t
            BY <1>2, <1>3
        <3>2. QED
            BY <1>3, <1>4, <3>1 DEF TakenOut
    <2>2. a \notin ToSet(list)
        BY <1>1, <2>1 DEF OrderInv
    <2>3. \A k \in 1..Len(list) : list[k] \in Ids /\ list[k] # a
        BY <1>1, <2>2, LinkedFacts DEF OrderInv
    <2>4. \A k \in 1..Len(list) : PriorityOf(list[k])' = PriorityOf(list[k])
        BY <1>7, <2>3 DEF PriorityOf
    <2>5. ToSet(list) = {b \in Ids : IsActive(anchor'[b])} \ TakenOut'
        BY <1>1, <1>7, <2>1 DEF OrderInv
    <2>6. LinkedAs(next_anchor', first_anchor', list)
        BY <1>1, <1>2 DEF OrderInv, listVars
    <2>7. writer' # NoThread
        BY <1>2, <1>3, HandlersAssumption
    <2>8. \A k, m \in 1..Len(list) : k < m => PriorityOf(list[k])' <= PriorityOf(list[m])'
        BY <1>1, <2>4 DEF OrderInv
    <2>9. QED
        BY <2>5, <2>6, <2>7, <2>8 DEF OrderInv
<1>16. \A u \in Threads : CheckInv(u, list)'
    BY <1>1, <1>2, <1>4, DisturbedChecks DEF Checking
<1>17. QED
    BY <1>8, <1>11, <1>12, <1>13, <1>14, <1>15, <1>16 DEF StateInv, ListInv

(* Link, once the list it leaves behind is known. *)
LEMMA LinkedThreads ==
    ASSUME NEW list, StateInv(list), NEW t \in Threads, Link(t),
           NEW l, OrderInv(l)',
           first_anchor' \in Ids \cup {NoId}, next_anchor' \in [Ids -> Ids \cup {NoId}],
           processing_order' \in [Ids -> Nat]
    PROVE  StateInv(l)'
<1> USE NoInstanceAssumption
<1> DEFINE a == id[t]
           started == IsActive(anchor[a])
<1>1. /\ TypeOK /\ OwnersInv /\ NodesInv
      /\ \A u \in Threads : ThreadInv(u) /\ CheckInv(u, list)
    BY DEF StateInv, ListInv
<1>2. /\ pc[t] = "claimed" /\ writer' = NoThread /\ anchor' = anchor /\ Disturb
      /\ UNCHANGED <<countVars, checkVars, created, destroyed>>
      /\ IF started THEN Idle(t) ELSE Goto(t, "retiring", a, instance[t])
    BY DEF Link
<1>3. /\ a \in Ids /\ instance[t] \in Instances /\ writer = t /\ instance[t] # NoInstance
      /\ instance[t] \in created /\ IdOf[instance[t]] = a
      /\ OnAnchor(anchor[a], instance[t])
      /\ started => ActiveInstance(anchor[a]) = instance[t]
      /\ ~started => ActiveInstance(anchor[a]) # instance[t]
    BY <1>1, <1>2 DEF ThreadInv, Owning, TypeOK, IsActive
<1>4. /\ started => pc'[t] = "idle"
      /\ ~started => pc'[t] = "retiring" /\ id'[t] = a /\ instance'[t] = instance[t]
      /\ \A u \in Threads \ {t} :
            pc'[u] = pc[u] /\ id'[u] = id[u] /\ instance'[u] = instance[u]
    BY <1>1, <1>2, GotoAt DEF Idle
<1>5. TypeOK'
    <2>1. /\ pc' \in [Threads -> Checking \cup
                          {"idle", "starting", "unlinked", "claimed", "retiring",
                           "destroying", "counting", "discarding"}]
          /\ id' \in [Threads -> Ids \cup {NoId}]
          /\ instance' \in [Threads -> Instances \cup {NoInstance}]
        BY <1>1, <1>2, <1>3, GotoType DEF Idle
    <2>2. disturbed' \in [Threads -> BOOLEAN]
        BY <1>1, <1>2 DEF Disturb, TypeOK
    <2>3. QED
        BY <1>1, <1>2, <2>1, <2>2 DEF TypeOK, countVars, checkVars
<1>6. ASSUME NEW u \in Threads PROVE ThreadInv(u)'
    <2>1. writer' # u
        BY <1>2, HandlersAssumption
    <2>2. CASE u = t /\ started
        BY <1>4, <2>1, <2>2, IdleThread
    <2>3. CASE u = t /\ ~started
        BY <1>2, <1>3, <1>4, <2>1, <2>3 DEF ThreadInv, Owning
    <2>4. CASE u # t
        BY <1>1, <1>2, <1>3, <1>4, <2>1, <2>4, QuietThread DEF checkVars
    <2>5. QED
        BY <2>2, <2>3, <2>4
<1>7. OwnersInv'
    <2>1. pc'[t] \in Owning => pc[t] \in Owning /\ instance'[t] = instance[t]
        BY <1>2, <1>4 DEF Owning
    <2>2. \A u \in Threads \ {t} : pc'[u] = pc[u] /\ instance'[u] = instance[u]
        BY <1>4
    <2>3. QED
        BY <1>1, <2>1, <2>2, QuietOwners
<1>8. NodesInv'
    BY <1>1, <1>2, QuietNodes
<1>9. \A u \in Threads : CheckInv(u, l)'
    BY <1>1, <1>2, <1>4, DisturbedChecks DEF Checking
<1>10. QED
    BY <1>5, <1>6, <1>7, <1>8, <1>9 DEF StateInv, ListInv

(* A sorted list stays sorted when a is put between the anchors of smaller and
   those of larger priority. *)
LEMMA InsertedIsSorted ==
    ASSUME NEW list \in Seq(Ids), NEW a \in Ids, NEW k \in 1..(Len(list) + 1),
           NEW l, IsInserted(l, list, k, a),
           \A m, j \in 1..Len(list) : m < j => PriorityOf(list[m]) <= PriorityOf(list[j]),
           \A m \in 1..Len(list) :
              IF m < k THEN PriorityOf(list[m]) <= PriorityOf(a)
              ELSE PriorityOf(a) <= PriorityOf(list[m])
    PROVE  \A m, j \in 1..Len(l) : m < j => PriorityOf(l[m]) <= PriorityOf(l[j])
<1>1. /\ Len(l) = Len(list) + 1
      /\ \A m \in 1..(Len(list) + 1) :
            l[m] = IF m < k THEN list[m] ELSE IF m = k THEN a ELSE list[m - 1]
    BY DEF IsInserted
<1> SUFFICES ASSUME NEW m \in 1..(Len(list) + 1), NEW j \in 1..(Len(list) + 1), m < j
             PROVE  PriorityOf(l[m]) <= PriorityOf(l[j])
    BY <1>1
<1>2. CASE m = k
    <2>1. j - 1 \in 1..Len(list) /\ ~(j - 1 < k) /\ ~(j < k) /\ j # k
        BY <1>2
    <2>2. l[m] = a /\ l[j] = list[j - 1]
        BY <1>1, <1>2, <2>1
    <2>3. QED
        BY <2>1, <2>2
<1>3. CASE j = k
    <2>1. m \in 1..Len(list) /\ m < k
        BY <1>3
    <2>2. l[m] = list[m] /\ l[j] = a
        BY <1>1, <1>3, <2>1
    <2>3. QED
        BY <2>1, <2>2
<1>4. CASE m # k /\ j # k
    <2> DEFINE at(x) == IF x < k THEN x ELSE x - 1
    <2>1. /\ at(m) \in 1..Len(list) /\ at(j) \in 1..Len(list) /\ at(m) < at(j)
          /\ l[m] = list[at(m)] /\ l[j] = list[at(j)]
        BY <1>1, <1>4
    <2> HIDE DEF at
    <2>2. QED
        BY <2>1
<1>5. QED
    BY <1>2, <1>3, <1>4

(* The numbers that Link writes. *)
Numbers(l, a, order) ==
    [b \in Ids |-> IF \E k \in 1..Len(l) : l[k] = b
                   THEN CHOOSE k \in 1..Len(l) : l[k] = b
                   ELSE IF b = a THEN 0 ELSE order[b]]

LEMMA Numbered ==
    ASSUME NEW next, NEW first, NEW l, LinkedAs(next, first, l),
           NEW a, NEW order \in [Ids -> Nat]
    PROVE  /\ Numbers(l, a, order) \in [Ids -> Nat]
           /\ \A k \in 1..Len(l) : Numbers(l, a, order)[l[k]] = k
<1>1. /\ \A k \in 1..Len(l) : l[k] \in Ids
      /\ \A k, m \in 1..Len(l) : l[k] = l[m] => k = m
    BY LinkedFacts
<1>2. ASSUME NEW k \in 1..Len(l) PROVE (CHOOSE m \in 1..Len(l) : l[m] = l[k]) = k
    BY <1>1
<1>3. ASSUME NEW b \in Ids
      PROVE  (IF \E k \in 1..Len(l) : l[k] = b
              THEN CHOOSE k \in 1..Len(l) : l[k] = b
              ELSE IF b = a THEN 0 ELSE order[b]) \in Nat
    <2>1. CASE \E k \in 1..Len(l) : l[k] = b
        <3>1. PICK k \in 1..Len(l) : l[k] = b
            BY <2>1
        <3>2. (CHOOSE m \in 1..Len(l) : l[m] = b) = k
            BY <1>2, <3>1
        <3>3. QED
            BY <2>1, <3>2
    <2>2. CASE ~ \E k \in 1..Len(l) : l[k] = b
        BY <2>2
    <2>3. QED
        BY <2>1, <2>2
<1>4. Numbers(l, a, order) \in [Ids -> Nat]
    BY <1>3 DEF Numbers
<1>5. ASSUME NEW k \in 1..Len(l) PROVE Numbers(l, a, order)[l[k]] = k
    BY <1>1, <1>2 DEF Numbers
<1>6. QED
    BY <1>4, <1>5

LEMMA LinkInv ==
    ASSUME NEW list, StateInv(list), NEW t \in Threads, Link(t)
    PROVE  \E l : StateInv(l)'
<1> USE NoInstanceAssumption
<1> DEFINE a == id[t]
<1>1. /\ TypeOK /\ OrderInv(list) /\ ThreadInv(t)
    BY DEF StateInv, ListInv
<1>2. /\ pc[t] = "claimed" /\ writer = t /\ writer' = NoThread /\ anchor' = anchor
      /\ a \in Ids
    BY <1>1 DEF Link, ThreadInv, Owning
<1>3. ActiveList = list /\ LinkedAs(next_anchor, first_anchor, list)
    BY <1>1, ActiveListOf DEF OrderInv
<1>4. /\ list \in Seq(Ids) /\ Len(list) \in Nat
      /\ \A k \in 1..Len(list) : list[k] \in Ids /\ list[k] \in ToSet(list)
      /\ \A k, m \in 1..Len(list) : k < m => PriorityOf(list[k]) <= PriorityOf(list[m])
    BY <1>1, <1>3, LinkedFacts DEF OrderInv
<1>5. ToSet(list) = {b \in Ids : IsActive(anchor[b])} \ {a}
    BY <1>1, <1>2, TakenOutAt DEF OrderInv
<1>6. \A b : PriorityOf(b)' = PriorityOf(b)
    BY <1>2 DEF PriorityOf
<1>7. TakenOut' = {}
    <2>1. \A u \in Threads : writer' # u
        BY <1>2, HandlersAssumption
    <2>2. QED
        BY <2>1 DEF TakenOut
<1>8. \A b \in Ids : IsActive(anchor[b]) => PriorityOf(b) \in Nat
    <2>1. ASSUME NEW b \in Ids, IsActive(anchor[b]) PROVE PriorityOf(b) \in Nat
        <3>1. ActiveInstance(anchor[b]) \in Instances
            BY <1>1, <2>1, ActiveInstanceAt DEF TypeOK, IsActive
        <3>2. QED
            BY <3>1, HandlersAssumption DEF PriorityOf
    <2>2. QED
        BY <2>1
<1>9. /\ first_anchor \in Ids \cup {NoId} /\ next_anchor \in [Ids -> Ids \cup {NoId}]
      /\ processing_order \in [Ids -> Nat]
    BY <1>1 DEF TypeOK
<1>10. CASE IsActive(anchor[a])
    <2>1. PICK l : l = InsertByPriority(list, a)
        OBVIOUS
    <2>2. PICK n : n = CHOOSE m \in 1..Len(l) : l[m] = a
        OBVIOUS
    <2>3. /\ first_anchor' = l[1]
          /\ next_anchor' = Linking(next_anchor, l, a, n)
          /\ processing_order' = Numbers(l, a, processing_order)
        BY <1>3, <1>10, <2>1, <2>2 DEF Link, LinkIn, Linking, Numbers
    <2>4. PICK k \in 1..(Len(list) + 1) :
              /\ l = InsertAt(list, k, a)
              /\ \A m \in 1..Len(list) :
                    IF m < k THEN PriorityOf(list[m]) <= PriorityOf(a)
                    ELSE PriorityOf(a) <= PriorityOf(list[m])
        <3>1. PriorityOf(a) \in Nat
            BY <1>2, <1>8, <1>10
        <3>2. \A k \in 1..Len(list) : PriorityOf(list[k]) \in Nat
            BY <1>4, <1>5, <1>8
        <3>3. QED
            BY <1>2, <1>4, <2>1, <3>1, <3>2, InsertByPriorityAt
    <2>5. IsInserted(l, list, k, a)
        BY <1>2, <1>4, <2>4, InsertAtSeq
    <2>6. a \in Ids \ ToSet(list)
        BY <1>2, <1>5
    <2>7. /\ LinkedAs(next_anchor', first_anchor', l)
          /\ ToSet(l) = ToSet(list) \cup {a} /\ n = k
        BY <1>3, <1>9, <2>2, <2>3, <2>5, <2>6, LinkInList
    <2>8. /\ processing_order' \in [Ids -> Nat]
          /\ \A m \in 1..Len(l) : processing_order'[l[m]] = m
        BY <1>9, <2>3, <2>7, Numbered
    <2>9. \A m, j \in 1..Len(l) : m < j => PriorityOf(l[m])' <= PriorityOf(l[j])'
        <3>1. \A m, j \in 1..Len(l) : m < j => PriorityOf(l[m]) <= PriorityOf(l[j])
            BY <1>2, <1>4, <2>4, <2>5, InsertedIsSorted
        <3>2. QED
            BY <1>6, <3>1
    <2>10. ToSet(l) = {b \in Ids : IsActive(anchor'[b])} \ TakenOut'
        BY <1>2, <1>5, <1>7, <1>10, <2>7
    <2>11. OrderInv(l)'
        BY <2>7, <2>8, <2>9, <2>10 DEF OrderInv
    <2>12. first_anchor' \in Ids \cup {NoId} /\ next_anchor' \in [Ids -> Ids \cup {NoId}]
        <3>1. l \in Seq(Ids) /\ Len(l) \in Nat /\ Len(l) > 0 /\ n \in 1..Len(l)
            BY <1>4, <2>5, <2>7 DEF IsInserted
        <3>2. \A b \in Ids : (CASE b = a /\ n < Len(l) -> l[n + 1]
                                [] b # a /\ n > 1 /\ b = l[n - 1] -> a
                                [] OTHER -> next_anchor[b]) \in Ids \cup {NoId}
            <4>1. n < Len(l) => l[n + 1] \in Ids
                BY <3>1
            <4>2. QED
                BY <1>2, <1>9, <4>1
        <3>3. l[1] \in Ids
            BY <3>1
        <3>4. QED
            BY <2>3, <3>2, <3>3 DEF Linking
    <2>13. QED
        BY <2>8, <2>11, <2>12, LinkedThreads
<1>11. CASE ~IsActive(anchor[a])
    <2>1. /\ first_anchor' = first_anchor /\ next_anchor' = next_anchor
          /\ processing_order' = Numbers(list, a, processing_order)
        BY <1>3, <1>11 DEF Link, Numbers
    <2>2. /\ processing_order' \in [Ids -> Nat]
          /\ \A m \in 1..Len(list) : processing_order'[list[m]] = m
        BY <1>3, <1>9, <2>1, Numbered
    <2>3. ToSet(list) = {b \in Ids : IsActive(anchor'[b])} \ TakenOut'
        BY <1>2, <1>5, <1>7, <1>11
    <2>4. OrderInv(list)'
        BY <1>3, <1>4, <1>6, <2>1, <2>2, <2>3 DEF OrderInv
    <2>5. QED
        BY <1>9, <2>1, <2>2, <2>4, LinkedThreads
<1>12. QED
    BY <1>10, <1>11

-----------------------------------------------------------------------------
(* The steps outside the write sections. *)

LEMMA ReleaseLastInv ==
    ASSUME NEW list, StateInv(list), NEW t \in Threads, ReleaseRetired(t),
           LastReference(anchor[id[t]], instance[t])
    PROVE  StateInv(list)'
<1> USE NoInstanceAssumption
<1> DEFINE a == id[t]
           i == instance[t]
           c == Release(anchor[a], i)
<1>1. /\ TypeOK /\ OwnersInv /\ NodesInv /\ OrderInv(list)
      /\ \A u \in Threads : ThreadInv(u) /\ CheckInv(u, list)
    BY DEF StateInv, ListInv
<1>2. /\ pc[t] = "retiring" /\ writer = NoThread /\ NoReader /\ writer' = writer
      /\ anchor' = [anchor EXCEPT ![a] = c]
      /\ IF LastReference(anchor[a], i) THEN Goto(t, "destroying", a, i) ELSE Idle(t)
      /\ UNCHANGED <<listVars, countVars, checkVars, created, destroyed, disturbed>>
    BY DEF ReleaseRetired
<1>3. /\ a \in Ids /\ anchor \in [Ids -> Seq(Node)] /\ anchor[a] \in Seq(Node)
      /\ i \in Instances /\ i # NoInstance /\ i \in created /\ IdOf[i] = a
      /\ OnAnchor(anchor[a], i) /\ ActiveInstance(anchor[a]) # i
    BY <1>1, <1>2 DEF TypeOK, ThreadInv, Owning
<1>4. PICK k \in 1..Len(anchor[a]) : anchor[a][k].adaptor = i
    BY <1>3, OnAnchorAt
<1>5. k \in 2..Len(anchor[a])
    BY <1>3, <1>4, ActiveInstanceAt
<1>6. \A m \in 1..Len(anchor[a]) : anchor[a][m].adaptor = i => m = k
    BY <1>1, <1>3, <1>4 DEF NodesInv
<1>7. c = Unlink(anchor[a], k) /\ LastReference(anchor[a], i)
    BY <1>3, <1>4, <1>5, <1>6, ReleasedNodes
<1>8. /\ c \in Seq(Node) /\ Len(c) = Len(anchor[a]) - 1
      /\ \A m \in 1..(Len(anchor[a]) - 1) :
            c[m] = IF m < k THEN anchor[a][m] ELSE anchor[a][m + 1]
    BY <1>3, <1>7, UnlinkSeq
<1>9. anchor'[a] = c /\ \A b \in Ids \ {a} : anchor'[b] = anchor[b]
    BY <1>2, <1>3
<1> HIDE DEF c
<1>10. /\ pc'[t] = "destroying" /\ id'[t] = a /\ instance'[t] = i
       /\ \A u \in Threads \ {t} :
            pc'[u] = pc[u] /\ id'[u] = id[u] /\ instance'[u] = instance[u]
    BY <1>1, <1>2, <1>7, GotoAt
<1>11. TypeOK'
    <2>1. /\ pc' \in [Threads -> Checking \cup
                          {"idle", "starting", "unlinked", "claimed", "retiring",
                           "destroying", "counting", "discarding"}]
          /\ id' \in [Threads -> Ids \cup {NoId}]
          /\ instance' \in [Threads -> Instances \cup {NoInstance}]
        BY <1>1, <1>2, <1>3, <1>7, GotoType
    <2>2. anchor' \in [Ids -> Seq(Node)]
        BY <1>2, <1>3, <1>8
    <2>3. QED
        BY <1>1, <1>2, <2>1, <2>2 DEF TypeOK, listVars, countVars, checkVars
(* The nodes of before, without the released one. *)
<1>12. \A m \in 1..Len(c) : \E p \in 1..Len(anchor[a]) :
          /\ c[m] = anchor[a][p] /\ p # k
          /\ p = IF m < k THEN m ELSE m + 1
    <2>1. ASSUME NEW m \in 1..Len(c), m < k
          PROVE  m \in 1..Len(anchor[a]) /\ c[m] = anchor[a][m] /\ m # k
        BY <1>3, <1>8, <2>1
    <2>2. ASSUME NEW m \in 1..Len(c), ~(m < k)
          PROVE  m + 1 \in 1..Len(anchor[a]) /\ c[m] = anchor[a][m + 1] /\ m + 1 # k
        BY <1>3, <1>8, <2>2
    <2>3. QED
        BY <2>1, <2>2
<1>13. \A p \in 1..Len(anchor[a]) : p # k => \E m \in 1..Len(c) : c[m] = anchor[a][p]
    <2>1. ASSUME NEW p \in 1..Len(anchor[a]), p < k PROVE p \in 1..Len(c) /\ c[p] = anchor[a][p]
        BY <1>3, <1>8, <2>1
    <2>2. ASSUME NEW p \in 1..Len(anchor[a]), p > k
          PROVE  p - 1 \in 1..Len(c) /\ c[p - 1] = anchor[a][p]
        <3>1. p - 1 \in 1..(Len(anchor[a]) - 1) /\ ~(p - 1 < k) /\ (p - 1) + 1 = p
            BY <1>3, <2>2
        <3>2. QED
            BY <1>8, <3>1
    <2>3. \A p \in 1..Len(anchor[a]) : p # k => p < k \/ p > k
        BY <1>3
    <2>4. QED
        BY <2>1, <2>2, <2>3
<1>14. ASSUME NEW j PROVE OnAnchor(c, j) <=> OnAnchor(anchor[a], j) /\ j # i
    <2>1. OnAnchor(c, j) => OnAnchor(anchor[a], j) /\ j # i
        BY <1>6, <1>12, OnAnchorAt
    <2>2. OnAnchor(anchor[a], j) /\ j # i => OnAnchor(c, j)
        <3>1. ASSUME NEW p \in 1..Len(anchor[a]), anchor[a][p].adaptor = j, j # i
              PROVE  \E m \in 1..Len(c) : c[m].adaptor = j
            BY <1>4, <1>13, <3>1
        <3>2. QED
            BY <3>1, OnAnchorAt
    <2>3. QED
        BY <2>1, <2>2
<1>15. ActiveInstance(c) = ActiveInstance(anchor[a])
    <2>1. Len(c) > 0 /\ Len(anchor[a]) > 0 /\ c[1] = anchor[a][1]
        BY <1>3, <1>5, <1>8
    <2>2. QED
        BY <1>3, <1>8, <2>1, ActiveInstanceAt
<1>16. \A b \in Ids : ActiveInstance(anchor'[b]) = ActiveInstance(anchor[b])
    BY <1>9, <1>15
<1>17. ASSUME NEW u \in Threads PROVE ThreadInv(u)'
    <2>1. writer' # u /\ writer # u
        BY <1>2, HandlersAssumption
    <2>2. CASE u = t
        BY <1>2, <1>3, <1>9, <1>10, <1>14, <2>1, <2>2 DEF ThreadInv, Owning
    <2>3. CASE u # t
        <3>1. /\ pc'[u] = pc[u] /\ id'[u] = id[u] /\ instance'[u] = instance[u]
              /\ created' = created /\ cursor'[u] = cursor[u]
            BY <1>2, <1>10, <2>3 DEF checkVars
        <3>2. ThreadInv(u) /\ pc[u] \notin {"unlinked", "claimed", "counting"}
            BY <1>1, <1>2, <2>1 DEF ThreadInv, NoReader
        <3>3. pc[u] \in Owning => id[u] \in Ids /\ instance[u] # NoInstance /\ instance[u] # i
            <4>1. ASSUME pc[u] \in Owning
                  PROVE  id[u] \in Ids /\ instance[u] # NoInstance
                BY <3>2, <4>1 DEF ThreadInv, Owning
            <4>2. pc[u] \in Owning => instance[u] # i
                BY <1>1, <1>2, <1>3, <2>3 DEF OwnersInv, Owning
            <4>3. QED
                BY <4>1, <4>2
        <3>4. pc[u] \in Owning =>
                /\ OnAnchor(anchor'[id[u]], instance[u]) <=> OnAnchor(anchor[id[u]], instance[u])
                /\ ActiveInstance(anchor'[id[u]]) = ActiveInstance(anchor[id[u]])
            BY <1>9, <1>14, <1>16, <3>3
        <3>5. QED
            BY <2>1, <3>1, <3>2, <3>3, <3>4 DEF ThreadInv, Owning
    <2>4. QED
        BY <2>2, <2>3
<1>18. OwnersInv'
    <2>1. pc[t] \in Owning /\ instance'[t] = instance[t]
        BY <1>2, <1>10 DEF Owning
    <2>2. \A u \in Threads \ {t} : pc'[u] = pc[u] /\ instance'[u] = instance[u]
        BY <1>10
    <2>3. QED
        BY <1>1, <2>1, <2>2, QuietOwners
<1>19. NodesInv'
    <2>1. created' = created
        BY <1>2
    <2>2. ASSUME NEW b \in Ids, NEW p \in 1..Len(anchor[b])
          PROVE  /\ anchor[b][p].adaptor # NoInstance =>
                        /\ anchor[b][p].adaptor \in created /\ IdOf[anchor[b][p].adaptor] = b
                        /\ \A m \in 1..Len(anchor[b]) :
                               anchor[b][m].adaptor = anchor[b][p].adaptor => m = p
                 /\ p > 1 => anchor[b][p].adaptor # NoInstance
        BY <1>1 DEF NodesInv
    <2>3. ASSUME NEW b \in Ids, b # a, NEW p \in 1..Len(anchor'[b])
          PROVE  LET j == anchor'[b][p].adaptor
                 IN  /\ j # NoInstance => /\ j \in created' /\ IdOf[j] = b
                                          /\ \A m \in 1..Len(anchor'[b]) :
                                                 anchor'[b][m].adaptor = j => m = p
                     /\ p > 1 => j # NoInstance
        <3>1. anchor'[b] = anchor[b] /\ p \in 1..Len(anchor[b])
            BY <1>9, <2>3
        <3>2. QED
            BY <2>1, <2>2, <3>1
    <2>4. ASSUME NEW m \in 1..Len(c)
          PROVE  LET j == c[m].adaptor
                 IN  /\ j # NoInstance => /\ j \in created' /\ IdOf[j] = a
                                          /\ \A n \in 1..Len(c) : c[n].adaptor = j => n = m
                     /\ m > 1 => j # NoInstance
        <3> DEFINE of(x) == IF x < k THEN x ELSE x + 1
                   j == c[m].adaptor
        <3>1. ASSUME NEW x \in 1..Len(c)
              PROVE  of(x) \in 1..Len(anchor[a]) /\ c[x] = anchor[a][of(x)] /\ of(x) # k
            BY <1>12
        <3>2. ASSUME NEW n \in 1..Len(c), c[n].adaptor = j, j # NoInstance PROVE n = m
            <4>1. of(n) = of(m)
                <5> HIDE DEF of
                <5>1. /\ of(n) \in 1..Len(anchor[a]) /\ anchor[a][of(n)].adaptor = j
                      /\ of(m) \in 1..Len(anchor[a]) /\ anchor[a][of(m)].adaptor = j
                    <6>1. of(n) \in 1..Len(anchor[a]) /\ c[n] = anchor[a][of(n)]
                        BY <3>1
                    <6>2. of(m) \in 1..Len(anchor[a]) /\ c[m] = anchor[a][of(m)]
                        BY <3>1
                    <6>3. QED
                        BY <3>2, <6>1, <6>2
                <5> HIDE DEF j, c
                <5>2. \A x \in 1..Len(anchor[a]) :
                         anchor[a][x].adaptor = anchor[a][of(m)].adaptor => x = of(m)
                    BY <1>3, <2>2, <3>2, <5>1
                <5>3. QED
                    BY <5>1, <5>2
            <4>2. m \in Int /\ n \in Int /\ k \in Int
                BY <1>5
            <4>3. (IF n < k THEN n ELSE n + 1) = (IF m < k THEN m ELSE m + 1)
                BY <4>1
            <4>4. QED
                BY <4>2, <4>3
        <3>3. m > 1 => of(m) > 1
            BY <1>3, <1>8
        <3> HIDE DEF of
        <3>5. of(m) \in 1..Len(anchor[a]) /\ c[m] = anchor[a][of(m)]
            BY <3>1
        <3>6. m > 1 => j # NoInstance
            BY <1>3, <2>2, <3>3, <3>5
        <3>7. j # NoInstance => j \in created /\ IdOf[j] = a
            BY <1>3, <2>2, <3>5
        <3>8. QED
            BY <2>1, <3>2, <3>6, <3>7
    <2>5. QED
        BY <1>9, <2>3, <2>4 DEF NodesInv
<1>20. OrderInv(list)'
    <2>1. \A u \in Threads : writer # u
        BY <1>2, HandlersAssumption
    <2>2. QED
        BY <1>1, <1>2, <1>16, <2>1, QuietOrder
<1>21. ASSUME NEW u \in Threads PROVE CheckInv(u, list)'
    <2>1. CASE u = t
        BY <1>10, <2>1 DEF CheckInv, Checking
    <2>2. CASE u # t
        BY <1>1, <1>2, <1>10, <1>16, <2>2, QuietCheck DEF checkVars
    <2>3. QED
        BY <2>1, <2>2
<1>22. QED
    BY <1>11, <1>17, <1>18, <1>19, <1>20, <1>21 DEF StateInv, ListInv

(* A step that only counts: the handlers on the anchors stay the same ones, and
   the thread answers for no handler afterwards. *)
SameHandlers ==
    \A b \in Ids : /\ Len(anchor'[b]) = Len(anchor[b])
                    /\ \A k \in 1..Len(anchor[b]) :
                          anchor'[b][k].adaptor = anchor[b][k].adaptor

LEMMA SameHandlersOn ==
    ASSUME TypeOK, TypeOK', SameHandlers, NEW b \in Ids
    PROVE  /\ ActiveInstance(anchor'[b]) = ActiveInstance(anchor[b])
           /\ \A i : OnAnchor(anchor'[b], i) <=> OnAnchor(anchor[b], i)
<1>1. anchor[b] \in Seq(Node) /\ anchor'[b] \in Seq(Node)
    BY DEF TypeOK
<1>2. /\ Len(anchor'[b]) = Len(anchor[b])
      /\ \A k \in 1..Len(anchor[b]) : anchor'[b][k].adaptor = anchor[b][k].adaptor
    BY DEF SameHandlers
<1>3. ActiveInstance(anchor'[b]) = ActiveInstance(anchor[b])
    <2>1. Len(anchor[b]) > 0 => 1 \in 1..Len(anchor[b])
        BY <1>1
    <2>2. QED
        BY <1>1, <1>2, <2>1 DEF ActiveInstance, Registered
<1>4. \A i : OnAnchor(anchor'[b], i) <=> OnAnchor(anchor[b], i)
    BY <1>2, OnAnchorAt
<1>5. QED
    BY <1>3, <1>4

LEMMA CountStepInv ==
    ASSUME NEW list, StateInv(list), NEW t \in Threads, SameHandlers,
           UNCHANGED <<listVars, writer, checkVars, created, disturbed>>,
           TypeOK', ThreadInv(t)', pc'[t] \notin Owning \cup Checking,
           pc[t] \notin {"unlinked", "claimed"},
           \A u \in Threads \ {t} :
               pc'[u] = pc[u] /\ id'[u] = id[u] /\ instance'[u] = instance[u]
    PROVE  StateInv(list)'
<1>1. /\ TypeOK /\ OwnersInv /\ NodesInv /\ OrderInv(list)
      /\ \A u \in Threads : ThreadInv(u) /\ CheckInv(u, list)
    BY DEF StateInv, ListInv
<1>2. writer # t
    BY <1>1 DEF ThreadInv
<1>3. \A b \in Ids : /\ ActiveInstance(anchor'[b]) = ActiveInstance(anchor[b])
                      /\ \A i : OnAnchor(anchor'[b], i) <=> OnAnchor(anchor[b], i)
    BY <1>1, SameHandlersOn
<1>4. ASSUME NEW u \in Threads, u # t PROVE ThreadInv(u)'
    <2>1. /\ pc'[u] = pc[u] /\ id'[u] = id[u] /\ instance'[u] = instance[u]
          /\ writer' = writer /\ cursor'[u] = cursor[u] /\ created' = created
        BY <1>4 DEF checkVars
    <2>2. pc[u] \in Owning \cup {"counting"} => id[u] \in Ids
        BY <1>1 DEF ThreadInv
    <2>3. pc[u] \in Owning \cup {"counting"} =>
            /\ ActiveInstance(anchor'[id[u]]) = ActiveInstance(anchor[id[u]])
            /\ OnAnchor(anchor'[id[u]], instance[u]) <=> OnAnchor(anchor[id[u]], instance[u])
        BY <1>3, <2>2
    <2>4. ThreadInv(u)
        BY <1>1
    <2>5. QED
        BY <2>1, <2>2, <2>3, <2>4 DEF ThreadInv, Owning, IsActive
<1>5. OwnersInv'
    BY <1>1, QuietOwners
<1>6. NodesInv'
    <2>1. ASSUME NEW b \in Ids, NEW k \in 1..Len(anchor'[b])
          PROVE  /\ k \in 1..Len(anchor[b])
                 /\ anchor'[b][k].adaptor = anchor[b][k].adaptor
        BY DEF SameHandlers
    <2>2. \A b \in Ids : Len(anchor'[b]) = Len(anchor[b])
        BY DEF SameHandlers
    <2>3. QED
        BY <1>1, <2>1, <2>2 DEF NodesInv
<1>7. OrderInv(list)'
    BY <1>1, <1>2, <1>3, QuietOrder
<1>8. ASSUME NEW u \in Threads PROVE CheckInv(u, list)'
    <2>1. CASE u = t
        BY <2>1 DEF CheckInv
    <2>2. CASE u # t
        BY <1>1, <1>3, <2>2, QuietCheck DEF checkVars
    <2>3. QED
        BY <2>1, <2>2
<1>9. QED
    BY <1>4, <1>5, <1>6, <1>7, <1>8 DEF StateInv, ListInv

(* A stop gives its reference back, and others have the handler still. *)
LEMMA ReleaseKeptInv ==
    ASSUME NEW list, StateInv(list), NEW t \in Threads, ReleaseRetired(t),
           ~LastReference(anchor[id[t]], instance[t])
    PROVE  StateInv(list)'
<1> USE NoInstanceAssumption
<1> DEFINE a == id[t]
           i == instance[t]
<1>1. TypeOK /\ NodesInv /\ ThreadInv(t)
    BY DEF StateInv
<1>2. /\ pc[t] = "retiring" /\ writer = NoThread /\ writer' = writer
      /\ anchor' = [anchor EXCEPT ![a] = Release(anchor[a], i)] /\ Idle(t)
      /\ UNCHANGED <<listVars, countVars, checkVars, created, destroyed, disturbed>>
    BY DEF ReleaseRetired
<1>3. /\ a \in Ids /\ anchor \in [Ids -> Seq(Node)] /\ anchor[a] \in Seq(Node)
      /\ i # NoInstance /\ OnAnchor(anchor[a], i)
    BY <1>1, <1>2 DEF TypeOK, ThreadInv, Owning
<1>4. PICK k \in 1..Len(anchor[a]) : anchor[a][k].adaptor = i
    BY <1>3, OnAnchorAt
<1>5. \A m \in 1..Len(anchor[a]) : anchor[a][m].adaptor = i => m = k
    BY <1>1, <1>3, <1>4 DEF NodesInv
<1> DEFINE n == anchor[a][k].reference_count - 1
<1>6. Release(anchor[a], i) = Recounted(anchor[a], k, n)
    BY <1>3, <1>4, <1>5, KeptNodes
<1>7. n \in Int
    <2>1. anchor[a][k] \in Node
        BY <1>3
    <2>2. QED
        BY <2>1 DEF Node
<1>8. /\ anchor'[a] \in Seq(Node) /\ Len(anchor'[a]) = Len(anchor[a])
      /\ \A m \in 1..Len(anchor[a]) : anchor'[a][m].adaptor = anchor[a][m].adaptor
    BY <1>2, <1>3, <1>6, <1>7, RecountedNodes
<1>9. \A b \in Ids \ {a} : anchor'[b] = anchor[b]
    BY <1>2, <1>3
<1>10. SameHandlers
    BY <1>8, <1>9 DEF SameHandlers
<1>11. /\ pc'[t] = "idle"
       /\ \A u \in Threads \ {t} :
            pc'[u] = pc[u] /\ id'[u] = id[u] /\ instance'[u] = instance[u]
    BY <1>1, <1>2, GotoAt DEF Idle
<1>12. TypeOK'
    <2>1. /\ pc' \in [Threads -> Checking \cup
                          {"idle", "starting", "unlinked", "claimed", "retiring",
                           "destroying", "counting", "discarding"}]
          /\ id' \in [Threads -> Ids \cup {NoId}]
          /\ instance' \in [Threads -> Instances \cup {NoInstance}]
        BY <1>1, <1>2, GotoType DEF Idle
    <2>2. anchor' \in [Ids -> Seq(Node)]
        BY <1>2, <1>3, <1>8, <1>9
    <2>3. QED
        BY <1>1, <1>2, <2>1, <2>2 DEF TypeOK, listVars, countVars, checkVars
<1>13. ThreadInv(t)'
    BY <1>2, <1>11, HandlersAssumption, IdleThread
<1>14. QED
    BY <1>2, <1>10, <1>11, <1>12, <1>13, CountStepInv DEF Owning, Checking

LEMMA ReleaseRetiredInv ==
    ASSUME NEW list, StateInv(list), NEW t \in Threads, ReleaseRetired(t)
    PROVE  StateInv(list)'
BY ReleaseLastInv, ReleaseKeptInv

LEMMA DestroyInv ==
    ASSUME NEW list, StateInv(list), NEW t \in Threads, Destroy(t)
    PROVE  StateInv(list)'
<1>1. /\ TypeOK /\ OwnersInv /\ NodesInv /\ OrderInv(list)
      /\ \A u \in Threads : ThreadInv(u) /\ CheckInv(u, list)
    BY DEF StateInv, ListInv
<1>2. /\ pc[t] = "destroying" /\ destroyed' = destroyed \cup {instance[t]} /\ Idle(t)
      /\ UNCHANGED <<anchor, listVars, writer, countVars, checkVars, created, disturbed>>
    BY DEF Destroy
<1>3. writer # t /\ instance[t] \in created
    BY <1>1, <1>2 DEF ThreadInv, Owning
<1>4. /\ pc'[t] = "idle"
      /\ \A u \in Threads \ {t} :
            pc'[u] = pc[u] /\ id'[u] = id[u] /\ instance'[u] = instance[u]
    BY <1>1, <1>2, GotoAt DEF Idle
<1>5. TypeOK'
    <2>1. /\ pc' \in [Threads -> Checking \cup
                          {"idle", "starting", "unlinked", "claimed", "retiring",
                           "destroying", "counting", "discarding"}]
          /\ id' \in [Threads -> Ids \cup {NoId}]
          /\ instance' \in [Threads -> Instances \cup {NoInstance}]
        BY <1>1, <1>2, GotoType DEF Idle
    <2>2. QED
        BY <1>1, <1>2, <1>3, <2>1 DEF TypeOK, listVars, countVars, checkVars
<1>6. ASSUME NEW u \in Threads PROVE ThreadInv(u)'
    <2>1. CASE u = t
        BY <1>2, <1>3, <1>4, <2>1, IdleThread
    <2>2. CASE u # t
        BY <1>1, <1>2, <1>4, <2>2, QuietThread DEF checkVars
    <2>3. QED
        BY <2>1, <2>2
<1>7. OwnersInv'
    <2>1. pc'[t] \notin Owning
        BY <1>4 DEF Owning
    <2>2. QED
        BY <1>1, <1>4, <2>1, QuietOwners
<1>8. NodesInv'
    BY <1>1, <1>2, <1>4, QuietNodes
<1>9. OrderInv(list)'
    BY <1>1, <1>2, <1>3, <1>4, QuietOrder
<1>10. ASSUME NEW u \in Threads PROVE CheckInv(u, list)'
    <2>1. CASE u = t
        BY <1>4, <2>1 DEF CheckInv, Checking
    <2>2. CASE u # t
        BY <1>1, <1>2, <1>4, <2>2, QuietCheck DEF checkVars
    <2>3. QED
        BY <2>1, <2>2
<1>11. QED
    BY <1>5, <1>6, <1>7, <1>8, <1>9, <1>10 DEF StateInv, ListInv

-----------------------------------------------------------------------------
(* The steps of an adaptor that gets a reference to the handler it names. *)

LEMMA ReadCountInv ==
    ASSUME NEW list, StateInv(list), NEW t \in Threads, ReadCount(t)
    PROVE  StateInv(list)'
<1>1. TypeOK /\ NodesInv /\ ThreadInv(t)
    BY DEF StateInv
<1>2. PICK a \in Ids :
          /\ IsActive(anchor[a]) /\ Goto(t, "counting", a, ActiveInstance(anchor[a]))
          /\ count' = [count EXCEPT ![t] = anchor[a][1].reference_count]
          /\ raced' \in {raced, raced \cup {ActiveInstance(anchor[a])}}
    BY DEF ReadCount
<1> DEFINE i == ActiveInstance(anchor[a])
<1>3. /\ pc[t] = "idle" /\ writer = NoThread /\ anchor' = anchor /\ writer' = writer
      /\ UNCHANGED <<listVars, taken, checkVars, created, destroyed, disturbed>>
    BY DEF ReadCount
<1>4. /\ anchor[a] \in Seq(Node) /\ i \in Instances /\ i # NoInstance /\ i \in created
      /\ anchor[a][1].reference_count \in Int
    <2>1. anchor[a] \in Seq(Node)
        BY <1>1 DEF TypeOK
    <2>2. i \in Instances \cup {NoInstance} /\ i # NoInstance /\ Len(anchor[a]) > 0
        BY <1>2, <2>1, ActiveInstanceAt DEF IsActive
    <2>3. 1 \in 1..Len(anchor[a]) /\ anchor[a][1].adaptor = i
        BY <2>1, <2>2, ActiveInstanceAt
    <2>4. anchor[a][1] \in Node
        BY <2>1, <2>3
    <2>5. i \in created
        BY <1>1, <2>2, <2>3 DEF NodesInv
    <2>6. QED
        BY <2>1, <2>2, <2>4, <2>5 DEF Node
<1> HIDE DEF i
<1>5. /\ pc'[t] = "counting" /\ id'[t] = a /\ instance'[t] = i
      /\ \A u \in Threads \ {t} :
            pc'[u] = pc[u] /\ id'[u] = id[u] /\ instance'[u] = instance[u]
    BY <1>1, <1>2, GotoAt DEF i
<1>6. TypeOK'
    <2>1. /\ pc' \in [Threads -> Checking \cup
                          {"idle", "starting", "unlinked", "claimed", "retiring",
                           "destroying", "counting", "discarding"}]
          /\ id' \in [Threads -> Ids \cup {NoId}]
          /\ instance' \in [Threads -> Instances \cup {NoInstance}]
        BY <1>1, <1>2, <1>4, GotoType DEF i
    <2>2. count' \in [Threads -> Int] /\ raced' \subseteq created
        BY <1>1, <1>2, <1>4 DEF TypeOK, i
    <2>3. QED
        BY <1>1, <1>3, <2>1, <2>2 DEF TypeOK, listVars, checkVars
<1>7. ThreadInv(t)'
    <2>1. writer' # t
        BY <1>3, HandlersAssumption
    <2>2. instance'[t] = ActiveInstance(anchor'[id'[t]])
        BY <1>3, <1>5 DEF i
    <2>3. QED
        BY <1>3, <1>4, <1>5, <2>1, <2>2 DEF ThreadInv, Owning
<1>8. SameHandlers
    BY <1>3 DEF SameHandlers
<1>9. QED
    BY <1>3, <1>5, <1>6, <1>7, <1>8, CountStepInv DEF Owning, Checking

LEMMA WriteCountInv ==
    ASSUME NEW list, StateInv(list), NEW t \in Threads, WriteCount(t)
    PROVE  StateInv(list)'
<1> DEFINE a == id[t]
           i == instance[t]
<1>1. TypeOK /\ NodesInv /\ ThreadInv(t)
    BY DEF StateInv
<1>2. /\ pc[t] = "counting" /\ writer' = writer
      /\ anchor' = [anchor EXCEPT ![a] = Recounted(anchor[a], 1, count[t] + 1)]
      /\ taken' = [taken EXCEPT ![i] = taken[i] + 1]
      /\ count' = [count EXCEPT ![t] = 0]
      /\ Goto(t, "discarding", a, i)
      /\ UNCHANGED <<listVars, raced, checkVars, created, destroyed, disturbed>>
    BY DEF WriteCount, Recounted
<1>3. /\ a \in Ids /\ i # NoInstance /\ i = ActiveInstance(anchor[a])
      /\ writer = NoThread /\ count[t] + 1 \in Int /\ i \in Instances
      /\ anchor \in [Ids -> Seq(Node)] /\ anchor[a] \in Seq(Node)
    BY <1>1, <1>2, NoInstanceAssumption DEF ThreadInv, TypeOK
<1>4. 1 \in 1..Len(anchor[a]) /\ anchor[a][1].adaptor = i
    BY <1>3, ActiveInstanceAt
<1>5. i \in created
    BY <1>1, <1>3, <1>4 DEF NodesInv
<1>6. /\ anchor'[a] \in Seq(Node) /\ Len(anchor'[a]) = Len(anchor[a])
      /\ \A m \in 1..Len(anchor[a]) : anchor'[a][m].adaptor = anchor[a][m].adaptor
      /\ \A b \in Ids \ {a} : anchor'[b] = anchor[b]
    BY <1>2, <1>3, <1>4, RecountedNodes
<1>7. SameHandlers
    BY <1>6 DEF SameHandlers
<1>8. /\ pc'[t] = "discarding" /\ id'[t] = a /\ instance'[t] = i
      /\ \A u \in Threads \ {t} :
            pc'[u] = pc[u] /\ id'[u] = id[u] /\ instance'[u] = instance[u]
    BY <1>1, <1>2, GotoAt
<1>9. TypeOK'
    <2>1. /\ pc' \in [Threads -> Checking \cup
                          {"idle", "starting", "unlinked", "claimed", "retiring",
                           "destroying", "counting", "discarding"}]
          /\ id' \in [Threads -> Ids \cup {NoId}]
          /\ instance' \in [Threads -> Instances \cup {NoInstance}]
        BY <1>1, <1>2, <1>3, GotoType
    <2>2. anchor' \in [Ids -> Seq(Node)]
        BY <1>2, <1>3, <1>6
    <2>3. count' \in [Threads -> Int] /\ taken' \in [Instances -> Nat]
        BY <1>1, <1>2, <1>3 DEF TypeOK
    <2>4. QED
        BY <1>1, <1>2, <2>1, <2>2, <2>3 DEF TypeOK, listVars, checkVars
<1>10. ThreadInv(t)'
    BY <1>2, <1>3, <1>5, <1>8, HandlersAssumption DEF ThreadInv, Owning
<1>11. QED
    BY <1>2, <1>7, <1>8, <1>9, <1>10, CountStepInv DEF Owning, Checking

LEMMA DiscardInv ==
    ASSUME NEW list, StateInv(list), NEW t \in Threads, Discard(t)
    PROVE  StateInv(list)'
<1>1. TypeOK /\ ThreadInv(t)
    BY DEF StateInv
<1>2. /\ pc[t] = "discarding" /\ destroyed' = destroyed \cup {instance[t]} /\ Idle(t)
      /\ UNCHANGED <<anchor, listVars, writer, countVars, checkVars, created, disturbed>>
    BY DEF Discard
<1>3. writer # t /\ instance[t] \in created
    BY <1>1, <1>2 DEF ThreadInv
<1>4. /\ pc'[t] = "idle"
      /\ \A u \in Threads \ {t} :
            pc'[u] = pc[u] /\ id'[u] = id[u] /\ instance'[u] = instance[u]
    BY <1>1, <1>2, GotoAt DEF Idle
<1>5. TypeOK'
    <2>1. /\ pc' \in [Threads -> Checking \cup
                          {"idle", "starting", "unlinked", "claimed", "retiring",
                           "destroying", "counting", "discarding"}]
          /\ id' \in [Threads -> Ids \cup {NoId}]
          /\ instance' \in [Threads -> Instances \cup {NoInstance}]
        BY <1>1, <1>2, GotoType DEF Idle
    <2>2. QED
        BY <1>1, <1>2, <1>3, <2>1 DEF TypeOK, listVars, countVars, checkVars
<1>6. ThreadInv(t)'
    BY <1>2, <1>3, <1>4, IdleThread
<1>7. SameHandlers
    BY <1>2 DEF SameHandlers
<1>8. QED
    BY <1>2, <1>4, <1>5, <1>6, <1>7, CountStepInv DEF Owning, Checking

-----------------------------------------------------------------------------
(* The steps of a check write nothing but what belongs to their thread. *)

CheckStep(t) ==
    /\ UNCHANGED <<anchor, listVars, writer, countVars, created, destroyed>>
    /\ \A u \in Threads \ {t} : /\ cursor'[u] = cursor[u]
                                 /\ visited'[u] = visited[u]
                                 /\ disturbed'[u] = disturbed[u]

LEMMA CheckStepInv ==
    ASSUME NEW list, StateInv(list), NEW t \in Threads, CheckStep(t),
           pc[t] \in {"idle", "walking", "evaluating"},
           NEW location \in {"idle", "walking", "evaluating"},
           NEW i \in Instances \cup {NoInstance}, Goto(t, location, NoId, i),
           location = "evaluating" => cursor'[t] # NoId,
           cursor' \in [Threads -> Ids \cup {NoId}],
           visited' \in [Threads -> Seq(Instances)],
           disturbed' \in [Threads -> BOOLEAN],
           CheckInv(t, list)'
    PROVE  StateInv(list)'
<1>1. /\ TypeOK /\ OwnersInv /\ NodesInv /\ OrderInv(list)
      /\ \A u \in Threads : ThreadInv(u) /\ CheckInv(u, list)
    BY DEF StateInv, ListInv
<1>2. /\ UNCHANGED <<anchor, listVars, writer, countVars, created, destroyed>>
      /\ \A u \in Threads \ {t} :
            /\ cursor'[u] = cursor[u] /\ visited'[u] = visited[u]
            /\ disturbed'[u] = disturbed[u]
    BY DEF CheckStep
<1>3. writer # t
    BY <1>1 DEF ThreadInv
<1>4. /\ pc'[t] = location
      /\ \A u \in Threads \ {t} :
            pc'[u] = pc[u] /\ id'[u] = id[u] /\ instance'[u] = instance[u]
    BY <1>1, GotoAt
<1>5. TypeOK'
    <2>1. location \in Checking \cup {"idle", "starting", "unlinked", "claimed",
                                     "retiring", "destroying", "counting",
                                     "discarding"}
        BY DEF Checking
    <2>2. /\ pc' \in [Threads -> Checking \cup
                          {"idle", "starting", "unlinked", "claimed", "retiring",
                           "destroying", "counting", "discarding"}]
          /\ id' \in [Threads -> Ids \cup {NoId}]
          /\ instance' \in [Threads -> Instances \cup {NoInstance}]
        BY <1>1, <2>1, GotoType
    <2>3. QED
        BY <1>1, <1>2, <2>2 DEF TypeOK, listVars, countVars
<1>6. ASSUME NEW u \in Threads PROVE ThreadInv(u)'
    <2>1. CASE u = t
        BY <1>2, <1>3, <1>4, <2>1 DEF ThreadInv, Owning
    <2>2. CASE u # t
        BY <1>1, <1>2, <1>4, <2>2, QuietThread
    <2>3. QED
        BY <2>1, <2>2
<1>7. OwnersInv'
    <2>1. pc'[t] \notin Owning
        BY <1>4 DEF Owning
    <2>2. QED
        BY <1>1, <1>4, <2>1, QuietOwners
<1>8. NodesInv'
    BY <1>1, <1>2, <1>4, QuietNodes
<1>9. OrderInv(list)'
    BY <1>1, <1>2, <1>3, <1>4, QuietOrder
<1>10. ASSUME NEW u \in Threads, u # t PROVE CheckInv(u, list)'
    BY <1>1, <1>2, <1>4, <1>10, QuietCheck
<1>11. QED
    BY <1>5, <1>6, <1>7, <1>8, <1>9, <1>10 DEF StateInv, ListInv

LEMMA BeginCheckInv ==
    ASSUME NEW list, StateInv(list), NEW t \in Threads, BeginCheck(t)
    PROVE  StateInv(list)'
<1>1. TypeOK /\ OrderInv(list)
    BY DEF StateInv, ListInv
<1>2. /\ pc[t] = "idle" /\ Goto(t, "walking", NoId, NoInstance)
      /\ cursor' = [cursor EXCEPT ![t] = first_anchor]
      /\ visited' = [visited EXCEPT ![t] = <<>>]
      /\ disturbed' = [disturbed EXCEPT ![t] = writer # NoThread]
      /\ UNCHANGED <<anchor, listVars, writer, countVars, created, destroyed>>
    BY DEF BeginCheck
<1>3. /\ cursor'[t] = first_anchor /\ visited'[t] = <<>>
      /\ disturbed'[t] = (writer # NoThread) /\ pc'[t] = "walking"
    BY <1>1, <1>2, GotoAt DEF TypeOK
<1>4. CheckStep(t)
    BY <1>1, <1>2 DEF CheckStep, TypeOK
<1>5. /\ cursor' \in [Threads -> Ids \cup {NoId}]
      /\ visited' \in [Threads -> Seq(Instances)]
      /\ disturbed' \in [Threads -> BOOLEAN]
    BY <1>1, <1>2 DEF TypeOK
<1>6. CheckInv(t, list)'
    <2>1. /\ Len(list) \in Nat /\ list \in Seq(Ids)
          /\ first_anchor = IF list = <<>> THEN NoId ELSE list[1]
        BY <1>1 DEF OrderInv, LinkedAs
    <2>2. cursor'[t] = IF 1 <= Len(list) THEN list[1] ELSE NoId
        BY <1>3, <2>1
    <2>3. visited'[t] = [m \in 1..(1 - 1) |-> ActiveInstance(anchor'[list[m]])]
        BY <1>3
    <2>4. 1 \in 1..(Len(list) + 1) /\ CheckIsAt(t, list, 1)'
        BY <1>3, <2>1, <2>2, <2>3 DEF CheckIsAt
    <2>5. ~disturbed'[t] => writer' = NoThread
        BY <1>2, <1>3
    <2>6. QED
        BY <2>4, <2>5 DEF CheckInv
<1>7. QED
    BY <1>2, <1>4, <1>5, <1>6, CheckStepInv

(* The list is of the started handlers, so each anchor that an undisturbed check
   comes to has one. *)
LEMMA VisitHandlerInv ==
    ASSUME NEW list, StateInv(list), NEW t \in Threads, VisitHandler(t)
    PROVE  StateInv(list)'
<1> DEFINE ah == ActiveInstance(anchor[cursor[t]])
<1>1. TypeOK /\ OrderInv(list) /\ CheckInv(t, list)
    BY DEF StateInv, ListInv
<1>2. /\ pc[t] = "walking" /\ cursor[t] # NoId /\ Goto(t, "evaluating", NoId, ah)
      /\ visited' = [visited EXCEPT ![t] =
                        IF ah = NoInstance THEN visited[t] ELSE Append(visited[t], ah)]
      /\ UNCHANGED <<anchor, listVars, writer, countVars, cursor, created, destroyed, disturbed>>
    BY DEF VisitHandler
<1>3. ah \in Instances \cup {NoInstance} /\ cursor[t] \in Ids
    BY <1>1, <1>2, ActiveInstanceAt DEF TypeOK
<1>4. /\ pc'[t] = "evaluating" /\ cursor'[t] = cursor[t] /\ disturbed'[t] = disturbed[t]
      /\ visited'[t] = IF ah = NoInstance THEN visited[t] ELSE Append(visited[t], ah)
    BY <1>1, <1>2, GotoAt DEF TypeOK
<1>5. CheckStep(t)
    BY <1>1, <1>2 DEF CheckStep, TypeOK
<1>6. /\ cursor' \in [Threads -> Ids \cup {NoId}]
      /\ visited' \in [Threads -> Seq(Instances)]
      /\ disturbed' \in [Threads -> BOOLEAN]
    <2>1. visited[t] \in Seq(Instances)
        BY <1>1 DEF TypeOK
    <2>2. (IF ah = NoInstance THEN visited[t] ELSE Append(visited[t], ah)) \in Seq(Instances)
        BY <1>3, <2>1
    <2>3. QED
        BY <1>1, <1>2, <2>2 DEF TypeOK
<1>7. CheckInv(t, list)'
    <2>1. SUFFICES ASSUME ~disturbed[t]
                   PROVE  /\ writer' = NoThread
                          /\ \E k \in 1..(Len(list) + 1) : CheckIsAt(t, list, k)'
        BY <1>4 DEF CheckInv
    <2>2. writer = NoThread
        BY <1>1, <1>2, <2>1 DEF CheckInv, Checking
    <2>3. PICK k \in 1..(Len(list) + 1) : CheckIsAt(t, list, k)
        BY <1>1, <1>2, <2>1 DEF CheckInv, Checking
    <2>4. /\ cursor[t] = IF k <= Len(list) THEN list[k] ELSE NoId
          /\ visited[t] = [m \in 1..(k - 1) |-> ActiveInstance(anchor[list[m]])]
        BY <1>2, <2>3 DEF CheckIsAt
    <2>5. k <= Len(list) /\ cursor[t] = list[k]
        BY <1>2, <2>4
    <2>6. ah # NoInstance
        <3>1. list[k] \in ToSet(list)
            <4>1. k \in 1..Len(list)
                BY <2>3, <2>5
            <4>2. QED
                BY <1>1, <4>1, LinkedFacts DEF OrderInv
        <3>2. IsActive(anchor[list[k]])
            BY <1>1, <3>1 DEF OrderInv
        <3>3. QED
            BY <2>5, <3>2 DEF IsActive
    <2>7. visited'[t] = [m \in 1..k |-> ActiveInstance(anchor'[list[m]])]
        <3>1. visited[t] \in Seq(Instances) /\ ah \in Instances
            BY <1>1, <1>3, <2>6 DEF TypeOK
        <3>2. Len(visited[t]) = k - 1
            <4>1. k - 1 \in Nat /\ DOMAIN visited[t] = 1..(k - 1)
                BY <2>4
            <4>2. QED
                BY <3>1, <4>1
        <3>3. Append(visited[t], ah) = [m \in 1..k |-> ActiveInstance(anchor[list[m]])]
            <4> DEFINE w == Append(visited[t], ah)
            <4>1. w \in Seq(Instances) /\ Len(w) = k
                BY <3>1, <3>2
            <4>2. DOMAIN w = 1..k /\ w = [m \in 1..k |-> w[m]]
                BY <4>1
            <4>3. \A m \in 1..k : w[m] = ActiveInstance(anchor[list[m]])
                <5>1. ASSUME NEW m \in 1..k, m # k PROVE w[m] = visited[t][m] /\ m \in 1..(k - 1)
                    BY <3>1, <3>2, <5>1
                <5>2. w[k] = ah
                    BY <3>1, <3>2
                <5>3. QED
                    BY <2>4, <2>5, <5>1, <5>2
            <4> HIDE DEF w
            <4>4. w = [m \in 1..k |-> ActiveInstance(anchor[list[m]])]
                BY <4>2, <4>3
            <4>5. QED
                BY <4>4 DEF w
        <3>4. QED
            BY <1>2, <1>4, <2>6, <3>3
    <2>8. CheckIsAt(t, list, k)'
        BY <1>4, <2>4, <2>5, <2>7 DEF CheckIsAt
    <2>9. QED
        BY <1>2, <2>2, <2>8
<1>8. QED
    BY <1>2, <1>3, <1>4, <1>5, <1>6, <1>7, CheckStepInv

LEMMA NextAnchorInv ==
    ASSUME NEW list, StateInv(list), NEW t \in Threads, NextAnchor(t)
    PROVE  StateInv(list)'
<1>1. TypeOK /\ OrderInv(list) /\ CheckInv(t, list) /\ ThreadInv(t)
    BY DEF StateInv, ListInv
<1>2. /\ pc[t] = "evaluating" /\ Goto(t, "walking", NoId, NoInstance)
      /\ cursor' = [cursor EXCEPT ![t] = next_anchor[cursor[t]]]
      /\ UNCHANGED <<anchor, listVars, writer, countVars, created, destroyed, visited, disturbed>>
    BY DEF NextAnchor
<1>3. cursor[t] \in Ids
    BY <1>1, <1>2 DEF ThreadInv, TypeOK
<1>4. /\ pc'[t] = "walking" /\ cursor'[t] = next_anchor[cursor[t]]
      /\ visited'[t] = visited[t] /\ disturbed'[t] = disturbed[t]
    BY <1>1, <1>2, GotoAt DEF TypeOK
<1>5. CheckStep(t)
    BY <1>1, <1>2 DEF CheckStep, TypeOK
<1>6. /\ cursor' \in [Threads -> Ids \cup {NoId}]
      /\ visited' \in [Threads -> Seq(Instances)]
      /\ disturbed' \in [Threads -> BOOLEAN]
    BY <1>1, <1>2, <1>3 DEF TypeOK
<1>7. CheckInv(t, list)'
    <2>1. SUFFICES ASSUME ~disturbed[t]
                   PROVE  /\ writer' = NoThread
                          /\ \E k \in 1..(Len(list) + 1) : CheckIsAt(t, list, k)'
        BY <1>4 DEF CheckInv
    <2>2. writer = NoThread
        BY <1>1, <1>2, <2>1 DEF CheckInv, Checking
    <2>3. PICK k \in 1..(Len(list) + 1) : CheckIsAt(t, list, k)
        BY <1>1, <1>2, <2>1 DEF CheckInv, Checking
    <2>4. /\ k <= Len(list) /\ cursor[t] = list[k]
          /\ visited[t] = [m \in 1..k |-> ActiveInstance(anchor[list[m]])]
        BY <1>2, <2>3 DEF CheckIsAt
    <2>5. Len(list) \in Nat
        BY <1>1, LinkedFacts DEF OrderInv
    <2>6. next_anchor[list[k]] = IF k < Len(list) THEN list[k + 1] ELSE NoId
        <3>1. k \in 1..Len(list)
            BY <2>4, <2>5
        <3>2. QED
            BY <1>1, <3>1 DEF OrderInv, LinkedAs
    <2>7. k + 1 \in 1..(Len(list) + 1) /\ (k + 1) - 1 = k /\ (k + 1 <= Len(list) <=> k < Len(list))
        BY <2>4, <2>5
    <2>8. visited'[t] = [m \in 1..((k + 1) - 1) |-> ActiveInstance(anchor'[list[m]])]
        BY <1>2, <1>4, <2>4, <2>7
    <2>9. CheckIsAt(t, list, k + 1)'
        BY <1>4, <2>4, <2>6, <2>7, <2>8 DEF CheckIsAt
    <2>10. QED
        BY <1>2, <2>2, <2>7, <2>9
<1>8. QED
    BY <1>2, <1>4, <1>5, <1>6, <1>7, CheckStepInv

LEMMA EndCheckInv ==
    ASSUME NEW list, StateInv(list), NEW t \in Threads, EndCheck(t)
    PROVE  StateInv(list)'
<1>1. TypeOK
    BY DEF StateInv
<1>2. /\ pc[t] = "walking" /\ Goto(t, "idle", NoId, NoInstance)
      /\ visited' = [visited EXCEPT ![t] = <<>>]
      /\ disturbed' = [disturbed EXCEPT ![t] = FALSE]
      /\ UNCHANGED <<anchor, listVars, writer, countVars, cursor, created, destroyed>>
    BY DEF EndCheck, Idle
<1>3. CheckStep(t)
    BY <1>1, <1>2 DEF CheckStep, TypeOK
<1>4. /\ cursor' \in [Threads -> Ids \cup {NoId}]
      /\ visited' \in [Threads -> Seq(Instances)]
      /\ disturbed' \in [Threads -> BOOLEAN]
    BY <1>1, <1>2 DEF TypeOK
<1>5. pc'[t] = "idle"
    BY <1>1, <1>2, GotoAt
<1>6. CheckInv(t, list)'
    BY <1>5 DEF CheckInv, Checking
<1>7. QED
    BY <1>2, <1>3, <1>4, <1>6, CheckStepInv

-----------------------------------------------------------------------------
LEMMA InitInv == Init => HandlersInv
<1> SUFFICES ASSUME Init PROVE StateInv(<<>>)
    BY HandlersInvOfList DEF HasStateInv
<1>1. TypeOK
    BY DEF Init, TypeOK
<1>2. \A t \in Threads : ThreadInv(t)
    BY HandlersAssumption DEF Init, ThreadInv, Owning
<1>3. OwnersInv
    BY DEF Init, OwnersInv, Owning
<1>4. NodesInv
    BY DEF Init, NodesInv
<1>5. LinkedAs(next_anchor, first_anchor, <<>>)
    <2>1. <<>> \in Seq(Ids) /\ Len(<<>>) = 0 /\ DOMAIN <<>> = {}
        OBVIOUS
    <2>2. IsInjective(<<>>)
        BY <2>1 DEF IsInjective
    <2>3. QED
        BY <2>1, <2>2 DEF Init, LinkedAs
<1>6. \A a \in Ids : ~IsActive(anchor[a])
    BY DEF Init, IsActive, ActiveInstance, Registered
<1>7. ToSet(<<>>) = {}
    BY DEF ToSet
<1>8. OrderInv(<<>>)
    BY <1>5, <1>6, <1>7 DEF OrderInv
<1>9. \A t \in Threads : CheckInv(t, <<>>)
    BY DEF Init, CheckInv, Checking
<1>10. QED
    BY <1>1, <1>2, <1>3, <1>4, <1>8, <1>9 DEF StateInv, ListInv

LEMMA StepInv ==
    ASSUME NEW list, StateInv(list), [Next]_vars
    PROVE  \E l : StateInv(l)'
<1>1. CASE Next
    <2>1. PICK t \in Threads :
              \/ CreateHandler(t) \/ Start(t) \/ Stop(t) \/ Claim(t) \/ Link(t)
              \/ ReleaseRetired(t) \/ Destroy(t)
              \/ ReadCount(t) \/ WriteCount(t) \/ Discard(t)
              \/ BeginCheck(t) \/ VisitHandler(t) \/ NextAnchor(t) \/ EndCheck(t)
        BY <1>1 DEF Next
    <2>2. CASE CreateHandler(t)
        BY <2>2, CreateHandlerInv
    <2>3. CASE Start(t)
        BY <2>3, StartInv
    <2>4. CASE Stop(t)
        BY <2>4, StopInv
    <2>5. CASE Claim(t)
        BY <2>5, ClaimInv
    <2>6. CASE Link(t)
        BY <2>6, LinkInv
    <2>7. CASE ReleaseRetired(t)
        BY <2>7, ReleaseRetiredInv
    <2>8. CASE Destroy(t)
        BY <2>8, DestroyInv
    <2>9. CASE BeginCheck(t)
        BY <2>9, BeginCheckInv
    <2>10. CASE VisitHandler(t)
        BY <2>10, VisitHandlerInv
    <2>11. CASE NextAnchor(t)
        BY <2>11, NextAnchorInv
    <2>12. CASE EndCheck(t)
        BY <2>12, EndCheckInv
    <2>13. CASE ReadCount(t)
        BY <2>13, ReadCountInv
    <2>14. CASE WriteCount(t)
        BY <2>14, WriteCountInv
    <2>15. CASE Discard(t)
        BY <2>15, DiscardInv
    <2>16. QED
        BY <2>1, <2>2, <2>3, <2>4, <2>5, <2>6, <2>7, <2>8, <2>9, <2>10, <2>11, <2>12,
           <2>13, <2>14, <2>15
<1>2. CASE UNCHANGED vars
    <2>1. /\ TypeOK /\ OwnersInv /\ NodesInv /\ OrderInv(list)
          /\ \A u \in Threads : ThreadInv(u) /\ CheckInv(u, list)
        BY DEF StateInv, ListInv
    <2>2. TypeOK'
        BY <1>2, <2>1 DEF TypeOK, vars, listVars, countVars, checkVars
    <2>3. \A u \in Threads : ThreadInv(u)'
        BY <1>2, <2>1, QuietThread DEF vars, checkVars
    <2>4. OwnersInv'
        BY <1>2, <2>1 DEF OwnersInv, vars
    <2>5. NodesInv'
        BY <1>2, <2>1, QuietNodes DEF vars
    <2>6. OrderInv(list)'
        BY <1>2, <2>1, QuietOrder DEF vars
    <2>7. \A u \in Threads : CheckInv(u, list)'
        BY <1>2, <2>1, QuietCheck DEF vars, checkVars
    <2>8. QED
        BY <2>2, <2>3, <2>4, <2>5, <2>6, <2>7 DEF StateInv, ListInv
<1>3. QED
    BY <1>1, <1>2

LEMMA NextInv == HandlersInv /\ [Next]_vars => HandlersInv'
<1>1. HasStateInv /\ [Next]_vars => HasStateInv'
    BY StepInv DEF HasStateInv
<1>2. HandlersInv <=> HasStateInv
    BY HandlersInvOfList
<1>3. HandlersInv' <=> HasStateInv'
    BY HandlersInvOfList, PTL
<1>4. QED
    BY <1>1, <1>2, <1>3

(* The inductive invariant: whoever starts, stops and checks handlers, in
   whatever order, the anchors are linked as a sorted list of the handlers that
   are started and not being worked on. *)
THEOREM HandlersInvariant == Spec => []HandlersInv
<1>1. Init => HandlersInv
    BY InitInv
<1>2. HandlersInv /\ [Next]_vars => HandlersInv'
    BY NextInv
<1>3. QED
    BY <1>1, <1>2, PTL DEF Spec

-----------------------------------------------------------------------------
(* What the invariant gives. *)

LEMMA InOrder == HandlersInv => ListInOrder
<1> SUFFICES ASSUME HandlersInv, writer = NoThread
             PROVE  /\ ToSet(ActiveList) = {a \in Ids : IsActive(anchor[a])}
                    /\ IsInjective(ActiveList)
                    /\ \A k \in 1..Len(ActiveList) :
                          processing_order[ActiveList[k]] = k
                    /\ \A k, m \in 1..Len(ActiveList) :
                          k < m => PriorityOf(ActiveList[k]) <= PriorityOf(ActiveList[m])
    BY DEF ListInOrder
<1>1. OrderInv(ActiveList)
    BY DEF HandlersInv, ListInv
<1>2. TakenOut = {}
    BY NothingTakenOut
<1>3. IsInjective(ActiveList)
    BY <1>1 DEF OrderInv, LinkedAs
<1>4. QED
    BY <1>1, <1>2, <1>3 DEF OrderInv

(* Nobody changes the list: it holds the started handlers, each once, sorted by
   priority and numbered, whatever starts, restarts and stops came before. *)
THEOREM ListInOrderHolds == Spec => []ListInOrder
<1>1. HandlersInv => ListInOrder
    BY InOrder
<1>2. QED
    BY <1>1, HandlersInvariant, PTL

LEMMA Ends == HandlersInv => WalksEnd
<1> SUFFICES ASSUME HandlersInv, NEW a \in {first_anchor} \cup {cursor[t] : t \in Threads}
             PROVE  Len(ChainFrom(next_anchor, a, Cardinality(Ids) + 1)) <= Cardinality(Ids)
    BY DEF WalksEnd
<1>1. LinkedAs(next_anchor, first_anchor, ActiveList)
    BY DEF HandlersInv, ListInv, OrderInv
<1>2. a \in Ids \cup {NoId}
    BY DEF HandlersInv, TypeOK
<1>3. QED
    BY <1>1, <1>2, ChainEnds

(* The loop of afw_authorization_check ends, though it reads the links without
   the lock: after every step of a writer they lead from each anchor to NULL. *)
THEOREM WalksEndHolds == Spec => []WalksEnd
<1>1. HandlersInv => WalksEnd
    BY Ends
<1>2. QED
    BY <1>1, HandlersInvariant, PTL

LEMMA ActiveOnOneId ==
    ASSUME NodesInv, TypeOK, NEW a \in Ids, IsActive(anchor[a])
    PROVE  ActiveInstance(anchor[a]) \in Instances /\ IdOf[ActiveInstance(anchor[a])] = a
<1>1. Len(anchor[a]) > 0 /\ ActiveInstance(anchor[a]) = anchor[a][1].adaptor
    BY DEF IsActive, ActiveInstance, Registered
<1>2. anchor[a] \in Seq(Node)
    BY DEF TypeOK
<1>3. 1 \in 1..Len(anchor[a]) /\ anchor[a][1].adaptor # NoInstance
    BY <1>1, <1>2 DEF IsActive
<1>4. anchor[a][1].adaptor \in created /\ IdOf[anchor[a][1].adaptor] = a
    BY <1>3 DEF NodesInv
<1>5. created \subseteq Instances
    BY DEF TypeOK
<1>6. QED
    BY <1>1, <1>4, <1>5

LEMMA Complete == HandlersInv => UndisturbedCheckIsComplete
<1> SUFFICES ASSUME HandlersInv, NEW t \in Threads,
                    pc[t] = "walking", cursor[t] = NoId, ~disturbed[t]
             PROVE  /\ ToSet(visited[t]) =
                          {ActiveInstance(anchor[a]) : a \in Ids} \ {NoInstance}
                    /\ IsInjective(visited[t])
                    /\ \A k, m \in 1..Len(visited[t]) :
                          k < m => Priority[visited[t][k]] <= Priority[visited[t][m]]
    BY DEF UndisturbedCheckIsComplete
<1> DEFINE list == ActiveList
<1>1. TypeOK /\ NodesInv /\ OrderInv(list) /\ CheckInv(t, list)
    BY DEF HandlersInv, ListInv
<1> HIDE DEF list
<1>2. /\ Len(list) \in Nat
      /\ \A k \in 1..Len(list) : list[k] \in Ids
      /\ \A k, m \in 1..Len(list) : list[k] = list[m] => k = m
      /\ \A a : a \in ToSet(list) <=> \E k \in 1..Len(list) : list[k] = a
    BY <1>1, LinkedFacts DEF OrderInv
<1>3. PICK k \in 1..(Len(list) + 1) : writer = NoThread /\ CheckIsAt(t, list, k)
    BY <1>1 DEF CheckInv, Checking
<1>4. k = Len(list) + 1
    BY <1>2, <1>3, HandlersAssumption DEF CheckIsAt
<1>5. visited[t] = [m \in 1..Len(list) |-> ActiveInstance(anchor[list[m]])]
    BY <1>2, <1>3, <1>4 DEF CheckIsAt
<1>6. DOMAIN visited[t] = 1..Len(list) /\ Len(visited[t]) = Len(list)
    <2>1. visited[t] \in Seq(Instances)
        BY <1>1 DEF TypeOK
    <2>2. DOMAIN visited[t] = 1..Len(list)
        BY <1>5
    <2>3. QED
        BY <1>2, <2>1, <2>2
<1>7. ToSet(list) = {a \in Ids : IsActive(anchor[a])}
    BY <1>1, <1>3, NothingTakenOut DEF OrderInv
<1>8. \A m \in 1..Len(list) : /\ visited[t][m] = ActiveInstance(anchor[list[m]])
                               /\ IsActive(anchor[list[m]])
                               /\ IdOf[visited[t][m]] = list[m]
    BY <1>1, <1>2, <1>5, <1>7, ActiveOnOneId
<1>9. ToSet(visited[t]) = {ActiveInstance(anchor[a]) : a \in Ids} \ {NoInstance}
    <2>1. ToSet(visited[t]) = {visited[t][m] : m \in 1..Len(list)}
        BY <1>6 DEF ToSet
    <2>2. ASSUME NEW m \in 1..Len(list)
          PROVE  visited[t][m] \in {ActiveInstance(anchor[a]) : a \in Ids} \ {NoInstance}
        BY <1>2, <1>8 DEF IsActive
    <2>3. ASSUME NEW a \in Ids, ActiveInstance(anchor[a]) # NoInstance
          PROVE  \E m \in 1..Len(list) : visited[t][m] = ActiveInstance(anchor[a])
        <3>1. a \in ToSet(list)
            BY <1>7, <2>3 DEF IsActive
        <3>2. PICK m \in 1..Len(list) : list[m] = a
            BY <1>2, <3>1
        <3>3. QED
            BY <1>8, <3>2
    <2>4. QED
        BY <2>1, <2>2, <2>3
<1>10. IsInjective(visited[t])
    <2>1. \A k1, m \in 1..Len(list) : visited[t][k1] = visited[t][m] => k1 = m
        BY <1>2, <1>8
    <2>2. QED
        BY <1>6, <2>1 DEF IsInjective
<1>11. \A k1, m \in 1..Len(list) :
            k1 < m => Priority[visited[t][k1]] <= Priority[visited[t][m]]
    BY <1>1, <1>8 DEF OrderInv, PriorityOf
<1>12. QED
    BY <1>6, <1>9, <1>10, <1>11

(* A check during which nobody started, restarted or stopped a handler has
   asked every started one, once, in the order of their priorities. *)
THEOREM UndisturbedCheckIsCompleteHolds == Spec => []UndisturbedCheckIsComplete
<1>1. HandlersInv => UndisturbedCheckIsComplete
    BY Complete
<1>2. QED
    BY <1>1, HandlersInvariant, PTL

-----------------------------------------------------------------------------
(* The counts.  With HandlersInv at hand, CountsInv is inductive by itself. *)

Counted(i, n, base) ==
    /\ n >= 1
    /\ n <= base + taken[i]
    /\ taken[i] > 0 => n > base
    /\ i \notin raced => n = base + taken[i]

NodeCounted(node, k) ==
    node.adaptor # NoInstance =>
        Counted(node.adaptor, node.reference_count, BaseReferences(node.adaptor, k))

NodesCounted == \A a \in Ids : \A k \in 1..Len(anchor[a]) : NodeCounted(anchor[a][k], k)

NothingGiven == \A t \in Threads : pc[t] = "destroying" => taken[instance[t]] = 0

(* The parts of CountingInv. *)
CountingThread(t) ==
    pc[t] = "counting" =>
        /\ count[t] >= 1 /\ count[t] <= 1 + taken[instance[t]]
        /\ instance[t] \notin raced =>
              /\ count[t] = anchor[id[t]][1].reference_count
              /\ \A u \in Threads \ {t} : pc[u] = "counting" => instance[u] # instance[t]

StartingThread(t) ==
    pc[t] \in {"starting", "unlinked"} /\ instance[t] # NoInstance
        => taken[instance[t]] = 0 /\ instance[t] \notin raced

NotGivenYet == \A i \in Instances \ created : taken[i] = 0

PartsInv ==
    /\ NodesCounted /\ NothingGiven /\ NotGivenYet
    /\ \A t \in Threads : CountingThread(t) /\ StartingThread(t)

LEMMA CountsParts == CountsInv <=> PartsInv
<1>1. ReferencesAreCounted <=> NodesCounted /\ NothingGiven
    BY DEF ReferencesAreCounted, NodesCounted, NodeCounted, Counted, NothingGiven
<1>2. CountingInv <=> NotGivenYet /\ \A t \in Threads : CountingThread(t) /\ StartingThread(t)
    BY DEF CountingInv, NotGivenYet, CountingThread, StartingThread
<1>3. QED
    BY <1>1, <1>2 DEF CountsInv, PartsInv

(* Whom a thread holds for a stop or a start. *)
Held(i) == \E t \in Threads : pc[t] \in {"claimed", "retiring"} /\ instance[t] = i

LEMMA BaseOf ==
    ASSUME NEW i, NEW k
    PROVE  BaseReferences(i, k) = IF k = 1 \/ Held(i) THEN 1 ELSE 0
BY DEF BaseReferences, Held

(* A node that is where it was, or another one than the first as before, of a
   handler that is held as before. *)
LEMMA CarriedNode ==
    ASSUME NEW node, NEW k, NEW m, NodeCounted(node, k), k = 1 <=> m = 1,
           node.adaptor # NoInstance /\ k # 1 => Held(node.adaptor)' = Held(node.adaptor),
           taken' = taken, raced \subseteq raced'
    PROVE  NodeCounted(node, m)'
<1> SUFFICES ASSUME node.adaptor # NoInstance
             PROVE  Counted(node.adaptor, node.reference_count,
                            BaseReferences(node.adaptor, m))'
    BY DEF NodeCounted
<1>1. BaseReferences(node.adaptor, m)' = BaseReferences(node.adaptor, k)
    BY DEF BaseReferences, Held
<1>2. Counted(node.adaptor, node.reference_count, BaseReferences(node.adaptor, k))
    BY DEF NodeCounted
<1>3. QED
    BY <1>1, <1>2 DEF Counted

(* A step that writes no count and makes nobody let go of a handler that is not
   the active one. *)
LEMMA QuietCounts ==
    ASSUME TypeOK, PartsInv, anchor' = anchor, taken' = taken, raced \subseteq raced',
           created \subseteq created',
           \A a \in Ids : \A k \in 2..Len(anchor[a]) :
               LET i == anchor[a][k].adaptor
               IN  i # NoInstance => Held(i)' = Held(i),
           \A t \in Threads : pc'[t] = "destroying" =>
               pc[t] = "destroying" /\ instance'[t] = instance[t],
           \A t \in Threads : CountingThread(t)' /\ StartingThread(t)'
    PROVE  PartsInv'
<1>1. NodesCounted'
    <2>1. ASSUME NEW a \in Ids, NEW k \in 1..Len(anchor[a]) PROVE NodeCounted(anchor[a][k], k)'
        <3>1. NodeCounted(anchor[a][k], k)
            BY DEF PartsInv, NodesCounted
        <3>2. anchor[a] \in Seq(Node)
            BY DEF TypeOK
        <3>3. k # 1 => k \in 2..Len(anchor[a])
            BY <3>2
        <3>4. QED
            BY <3>1, <3>3, CarriedNode
    <2>2. QED
        BY <2>1 DEF NodesCounted, NodeCounted
<1>2. NothingGiven'
    BY DEF PartsInv, NothingGiven
<1>3. NotGivenYet'
    BY DEF PartsInv, NotGivenYet
<1>4. QED
    BY <1>1, <1>2, <1>3 DEF PartsInv

(* Who holds a handler changes only with the thread that takes the step. *)
LEMMA HeldByOthers ==
    ASSUME NEW t \in Threads, NEW i,
           \A u \in Threads \ {t} : pc'[u] = pc[u] /\ instance'[u] = instance[u],
           ~(pc[t] \in {"claimed", "retiring"} /\ instance[t] = i),
           ~(pc'[t] \in {"claimed", "retiring"} /\ instance'[t] = i)
    PROVE  Held(i)' = Held(i)
BY DEF Held

LEMMA SameCountingThread ==
    ASSUME NEW t \in Threads, NEW u \in Threads, u # t, CountingThread(u),
           anchor' = anchor, taken' = taken, raced' = raced, count'[u] = count[u],
           pc'[t] # "counting",
           \A v \in Threads \ {t} :
               pc'[v] = pc[v] /\ id'[v] = id[v] /\ instance'[v] = instance[v]
    PROVE  CountingThread(u)'
BY DEF CountingThread

LEMMA SameStartingThread ==
    ASSUME NEW u \in Threads, StartingThread(u), taken' = taken, raced' = raced,
           pc'[u] = pc[u] /\ instance'[u] = instance[u]
    PROVE  StartingThread(u)'
BY DEF StartingThread

(* The steps that write no count: of a start, a stop, a check, an adaptor. *)
LEMMA PlainCounts ==
    ASSUME TypeOK, PartsInv, NEW t \in Threads, anchor' = anchor, UNCHANGED countVars,
           created \subseteq created',
           pc[t] \notin {"claimed", "retiring"},
           pc'[t] \notin {"claimed", "retiring", "counting", "destroying"},
           \A u \in Threads \ {t} :
               pc'[u] = pc[u] /\ id'[u] = id[u] /\ instance'[u] = instance[u],
           StartingThread(t)'
    PROVE  PartsInv'
<1>1. taken' = taken /\ raced' = raced /\ count' = count
    BY DEF countVars
<1>2. \A i : Held(i)' = Held(i)
    BY HeldByOthers
<1>3. ASSUME NEW u \in Threads PROVE CountingThread(u)' /\ StartingThread(u)'
    <2>1. CASE u = t
        BY <2>1 DEF CountingThread
    <2>2. CASE u # t
        BY <1>1, <2>2, SameCountingThread, SameStartingThread DEF PartsInv
    <2>3. QED
        BY <2>1, <2>2
<1>4. QED
    BY <1>1, <1>2, <1>3, QuietCounts

LEMMA CreateHandlerCounts ==
    ASSUME TypeOK, PartsInv, NEW t \in Threads, CreateHandler(t)
    PROVE  PartsInv'
<1>1. PICK i \in Instances \ created :
          created' = created \cup {i} /\ Goto(t, "starting", IdOf[i], i)
    BY DEF CreateHandler
<1>2. pc[t] = "idle" /\ anchor' = anchor /\ UNCHANGED countVars
    BY DEF CreateHandler
<1>3. /\ pc'[t] = "starting" /\ instance'[t] = i
      /\ \A u \in Threads \ {t} :
            pc'[u] = pc[u] /\ id'[u] = id[u] /\ instance'[u] = instance[u]
    BY <1>1, GotoAt
<1>4. taken[i] = 0 /\ i \notin raced
    BY <1>1 DEF PartsInv, NotGivenYet, TypeOK
<1>5. StartingThread(t)'
    BY <1>2, <1>3, <1>4 DEF StartingThread, countVars
<1>6. QED
    BY <1>1, <1>2, <1>3, <1>5, PlainCounts

LEMMA StartCounts ==
    ASSUME TypeOK, PartsInv, NEW t \in Threads, Start(t)
    PROVE  PartsInv'
<1>1. /\ pc[t] = "starting" /\ anchor' = anchor /\ UNCHANGED countVars
      /\ Goto(t, "unlinked", id[t], instance[t]) /\ created' = created
    BY DEF Start, TakeOut
<1>2. /\ pc'[t] = "unlinked" /\ instance'[t] = instance[t]
      /\ \A u \in Threads \ {t} :
            pc'[u] = pc[u] /\ id'[u] = id[u] /\ instance'[u] = instance[u]
    BY <1>1, GotoAt
<1>3. StartingThread(t)'
    BY <1>1, <1>2 DEF PartsInv, StartingThread, countVars
<1>4. QED
    BY <1>1, <1>2, <1>3, PlainCounts

LEMMA StopCounts ==
    ASSUME TypeOK, PartsInv, NEW t \in Threads, Stop(t)
    PROVE  PartsInv'
<1>1. PICK a \in Ids : TakeOut(t, a, NoInstance)
    BY DEF Stop
<1>2. /\ pc[t] = "idle" /\ anchor' = anchor /\ UNCHANGED countVars
      /\ Goto(t, "unlinked", a, NoInstance) /\ created' = created
    BY <1>1 DEF Stop, TakeOut
<1>3. /\ pc'[t] = "unlinked" /\ instance'[t] = NoInstance
      /\ \A u \in Threads \ {t} :
            pc'[u] = pc[u] /\ id'[u] = id[u] /\ instance'[u] = instance[u]
    BY <1>2, GotoAt
<1>4. StartingThread(t)'
    BY <1>3 DEF StartingThread
<1>5. QED
    BY <1>2, <1>3, <1>4, PlainCounts

(* What leaves a thread with nothing to count and nothing to start. *)
LEMMA OtherCounts ==
    ASSUME TypeOK, PartsInv, NEW t \in Threads,
           \/ Destroy(t) \/ Discard(t)
           \/ BeginCheck(t) \/ VisitHandler(t) \/ NextAnchor(t) \/ EndCheck(t)
    PROVE  PartsInv'
<1>1. /\ anchor' = anchor /\ UNCHANGED countVars /\ created' = created
      /\ pc[t] \in Checking \cup {"idle", "destroying", "discarding"}
      /\ \E location \in Checking \cup {"idle"} : \E a, i : Goto(t, location, a, i)
    BY DEF Destroy, Discard, BeginCheck, VisitHandler, NextAnchor, EndCheck, Idle, Checking
<1>2. PICK location \in Checking \cup {"idle"} : \E a, i : Goto(t, location, a, i)
    BY <1>1
<1>3. /\ pc'[t] = location
      /\ \A u \in Threads \ {t} :
            pc'[u] = pc[u] /\ id'[u] = id[u] /\ instance'[u] = instance[u]
    BY <1>2, GotoAt
<1>4. StartingThread(t)'
    BY <1>3 DEF StartingThread, Checking
<1>5. QED
    BY <1>1, <1>3, <1>4, PlainCounts DEF Checking

(* A handler has one node. *)
LEMMA OneNode ==
    ASSUME NodesInv, NEW a \in Ids, NEW k \in 1..Len(anchor[a]), anchor[a][k].adaptor # NoInstance
    PROVE  /\ anchor[a][k].adaptor \in created /\ IdOf[anchor[a][k].adaptor] = a
           /\ \A b \in Ids : \A m \in 1..Len(anchor[b]) :
                 anchor[b][m].adaptor = anchor[a][k].adaptor => b = a /\ m = k
<1>1. /\ anchor[a][k].adaptor \in created /\ IdOf[anchor[a][k].adaptor] = a
      /\ \A m \in 1..Len(anchor[a]) : anchor[a][m].adaptor = anchor[a][k].adaptor => m = k
    BY DEF NodesInv
<1>2. ASSUME NEW b \in Ids, NEW m \in 1..Len(anchor[b]),
             anchor[b][m].adaptor = anchor[a][k].adaptor
      PROVE  b = a
    BY <1>1, <1>2 DEF NodesInv
<1>3. QED
    BY <1>1, <1>2

(* The active handler is on the first node. *)
LEMMA ActiveNode ==
    ASSUME TypeOK, NEW a \in Ids, ActiveInstance(anchor[a]) # NoInstance
    PROVE  /\ 1 \in 1..Len(anchor[a]) /\ anchor[a][1].adaptor = ActiveInstance(anchor[a])
           /\ ActiveInstance(anchor[a]) \in Instances
<1>1. anchor[a] \in Seq(Node)
    BY DEF TypeOK
<1>2. Len(anchor[a]) > 0 /\ anchor[a][1].adaptor = ActiveInstance(anchor[a])
    BY <1>1, ActiveInstanceAt
<1>3. QED
    BY <1>1, <1>2, ActiveInstanceAt

LEMMA LinkCounts ==
    ASSUME HandlersInv, PartsInv, NEW t \in Threads, Link(t)
    PROVE  PartsInv'
<1> USE NoInstanceAssumption
<1> DEFINE a == id[t]
           started == IsActive(anchor[a])
<1>1. TypeOK /\ NodesInv /\ ThreadInv(t)
    BY DEF HandlersInv
<1>2. /\ pc[t] = "claimed" /\ anchor' = anchor /\ UNCHANGED countVars /\ created' = created
      /\ IF started THEN Idle(t) ELSE Goto(t, "retiring", a, instance[t])
    BY DEF Link
<1>3. /\ a \in Ids /\ instance[t] # NoInstance
      /\ started => ActiveInstance(anchor[a]) = instance[t]
    BY <1>1, <1>2 DEF ThreadInv, Owning, IsActive
<1>4. /\ started => pc'[t] = "idle"
      /\ ~started => pc'[t] = "retiring" /\ instance'[t] = instance[t]
      /\ \A u \in Threads \ {t} :
            pc'[u] = pc[u] /\ id'[u] = id[u] /\ instance'[u] = instance[u]
    BY <1>1, <1>2, GotoAt DEF Idle
<1>5. taken' = taken /\ raced' = raced /\ count' = count
    BY <1>2 DEF countVars
<1>6. ASSUME NEW b \in Ids, NEW k \in 2..Len(anchor[b]), anchor[b][k].adaptor # NoInstance
      PROVE  Held(anchor[b][k].adaptor)' = Held(anchor[b][k].adaptor)
    <2>1. CASE started
        <3>1. anchor[b][k].adaptor # instance[t]
            <4>1. 1 \in 1..Len(anchor[a]) /\ anchor[a][1].adaptor = instance[t]
                BY <1>1, <1>3, <2>1, ActiveNode
            <4>2. k \in 1..Len(anchor[b]) /\ k # 1
                OBVIOUS
            <4>3. QED
                BY <1>1, <1>3, <1>6, <4>1, <4>2, OneNode
        <3>2. \A i : i # instance[t] => Held(i)' = Held(i)
            BY <1>4, <2>1, HeldByOthers
        <3>3. QED
            BY <1>2, <3>1, <3>2 DEF Held
    <2>2. CASE ~started
        BY <1>2, <1>4, <2>2 DEF Held
    <2>3. QED
        BY <2>1, <2>2
<1>7. ASSUME NEW u \in Threads PROVE CountingThread(u)' /\ StartingThread(u)'
    <2>1. pc'[t] \in {"idle", "retiring"}
        BY <1>4
    <2>2. CASE u = t
        BY <2>1, <2>2 DEF CountingThread, StartingThread
    <2>3. CASE u # t
        BY <1>2, <1>4, <1>5, <2>1, <2>3, SameCountingThread, SameStartingThread DEF PartsInv
    <2>4. QED
        BY <2>2, <2>3
<1>8. \A u \in Threads : pc'[u] = "destroying" =>
          pc[u] = "destroying" /\ instance'[u] = instance[u]
    BY <1>4
<1>9. QED
    BY <1>1, <1>2, <1>5, <1>6, <1>7, <1>8, QuietCounts

(* Nobody counts an instance but the one that is active on its id. *)
LEMMA ReadCountCounts ==
    ASSUME HandlersInv, PartsInv, NEW t \in Threads, ReadCount(t)
    PROVE  PartsInv'
<1> USE NoInstanceAssumption
<1>1. TypeOK /\ NodesInv /\ \A u \in Threads : ThreadInv(u)
    BY DEF HandlersInv
<1>2. PICK a \in Ids :
          /\ IsActive(anchor[a]) /\ Goto(t, "counting", a, ActiveInstance(anchor[a]))
          /\ count' = [count EXCEPT ![t] = anchor[a][1].reference_count]
          /\ raced' = IF \E u \in Threads : /\ pc[u] = "counting"
                                            /\ instance[u] = ActiveInstance(anchor[a])
                      THEN raced \cup {ActiveInstance(anchor[a])} ELSE raced
    BY DEF ReadCount
<1>3. pc[t] = "idle" /\ anchor' = anchor /\ taken' = taken /\ created' = created
    BY DEF ReadCount
<1> DEFINE i == ActiveInstance(anchor[a])
<1>4. /\ i # NoInstance /\ 1 \in 1..Len(anchor[a]) /\ anchor[a][1].adaptor = i
      /\ IdOf[i] = a
    <2>1. i # NoInstance
        BY <1>2 DEF IsActive
    <2>2. 1 \in 1..Len(anchor[a]) /\ anchor[a][1].adaptor = i
        BY <1>1, <2>1, ActiveNode
    <2>3. QED
        BY <1>1, <2>1, <2>2, OneNode
<1>5. /\ pc'[t] = "counting" /\ id'[t] = a /\ instance'[t] = i
      /\ count'[t] = anchor[a][1].reference_count
      /\ \A u \in Threads \ {t} :
            /\ pc'[u] = pc[u] /\ id'[u] = id[u] /\ instance'[u] = instance[u]
            /\ count'[u] = count[u]
    BY <1>1, <1>2, GotoAt DEF TypeOK
<1>6. /\ raced \subseteq raced' /\ raced' \subseteq raced \cup {i}
      /\ i \notin raced' => \A u \in Threads : pc[u] = "counting" => instance[u] # i
    BY <1>2
<1> HIDE DEF i
<1>7. CountingThread(t)'
    <2>1. NodeCounted(anchor[a][1], 1)
        BY <1>4 DEF PartsInv, NodesCounted
    <2>2. Counted(i, anchor[a][1].reference_count, 1)
        BY <1>4, <2>1, BaseOf DEF NodeCounted
    <2>3. \A u \in Threads \ {t} : pc'[u] = "counting" /\ instance'[u] = i => i \in raced'
        BY <1>5, <1>6
    <2>4. QED
        BY <1>3, <1>5, <2>2, <2>3 DEF CountingThread, Counted
<1>8. StartingThread(t)'
    BY <1>5 DEF StartingThread
<1>9. ASSUME NEW u \in Threads, u # t PROVE CountingThread(u)' /\ StartingThread(u)'
    <2>1. CountingThread(u) /\ StartingThread(u) /\ ThreadInv(u)
        BY <1>1 DEF PartsInv
    <2>2. CountingThread(u)'
        <3>1. SUFFICES ASSUME pc[u] = "counting"
                       PROVE  CountingThread(u)'
            BY <1>5, <1>9 DEF CountingThread
        <3>2. instance[u] \notin raced' => instance[u] # i
            BY <1>6, <3>1
        <3>3. QED
            BY <1>3, <1>5, <1>6, <1>9, <2>1, <3>1, <3>2 DEF CountingThread
    <2>3. StartingThread(u)'
        <3>1. SUFFICES ASSUME pc[u] \in {"starting", "unlinked"}, instance[u] # NoInstance
                       PROVE  taken'[instance[u]] = 0 /\ instance[u] \notin raced'
            BY <1>5, <1>9 DEF StartingThread
        <3>2. id[u] \in Ids /\ IdOf[instance[u]] = id[u] /\ ~OnAnchor(anchor[id[u]], instance[u])
            BY <2>1, <3>1 DEF ThreadInv, Owning
        <3>3. instance[u] # i
            BY <1>4, <3>2, OnAnchorAt
        <3>4. QED
            BY <1>3, <1>6, <2>1, <3>1, <3>3 DEF StartingThread
    <2>4. QED
        BY <2>2, <2>3
<1>10. \A j : Held(j)' = Held(j)
    BY <1>3, <1>5, HeldByOthers
<1>11. \A u \in Threads : pc'[u] = "destroying" =>
           pc[u] = "destroying" /\ instance'[u] = instance[u]
    BY <1>5
<1>12. QED
    BY <1>1, <1>3, <1>6, <1>7, <1>8, <1>9, <1>10, <1>11, QuietCounts

(* Between the two steps nobody stops the handler: its node is the first. *)
LEMMA WriteCountCounts ==
    ASSUME HandlersInv, PartsInv, NEW t \in Threads, WriteCount(t)
    PROVE  PartsInv'
<1> USE NoInstanceAssumption
<1> DEFINE a == id[t]
           i == instance[t]
           n == count[t] + 1
<1>1. TypeOK /\ NodesInv /\ \A u \in Threads : ThreadInv(u)
    BY DEF HandlersInv
<1>2. /\ pc[t] = "counting"
      /\ anchor' = [anchor EXCEPT ![a] = Recounted(anchor[a], 1, n)]
      /\ taken' = [taken EXCEPT ![i] = taken[i] + 1]
      /\ count' = [count EXCEPT ![t] = 0]
      /\ Goto(t, "discarding", a, i)
      /\ raced' = raced /\ created' = created
    BY DEF WriteCount, Recounted
<1>3. /\ a \in Ids /\ i # NoInstance /\ i = ActiveInstance(anchor[a])
      /\ n \in Int /\ i \in Instances /\ taken \in [Instances -> Nat]
      /\ anchor \in [Ids -> Seq(Node)] /\ anchor[a] \in Seq(Node)
    BY <1>1, <1>2 DEF ThreadInv, TypeOK
<1>4. 1 \in 1..Len(anchor[a]) /\ anchor[a][1].adaptor = i
    BY <1>1, <1>3, ActiveNode
<1>5. /\ i \in created /\ IdOf[i] = a
      /\ \A b \in Ids : \A m \in 1..Len(anchor[b]) : anchor[b][m].adaptor = i => b = a /\ m = 1
    BY <1>1, <1>3, <1>4, OneNode
<1>6. /\ Len(anchor'[a]) = Len(anchor[a])
      /\ \A m \in 1..Len(anchor[a]) :
            /\ anchor'[a][m].adaptor = anchor[a][m].adaptor
            /\ anchor'[a][m].reference_count = IF m = 1 THEN n ELSE anchor[a][m].reference_count
      /\ \A b \in Ids \ {a} : anchor'[b] = anchor[b]
    BY <1>2, <1>3, <1>4, RecountedNodes
<1>7. /\ pc'[t] = "discarding"
      /\ \A u \in Threads \ {t} :
            /\ pc'[u] = pc[u] /\ id'[u] = id[u] /\ instance'[u] = instance[u]
            /\ count'[u] = count[u]
    BY <1>1, <1>2, GotoAt DEF TypeOK
<1>8. /\ taken'[i] = taken[i] + 1 /\ taken[i] \in Nat
      /\ \A j \in Instances \ {i} : taken'[j] = taken[j]
    BY <1>2, <1>3
<1>9. /\ count[t] \in Int /\ count[t] >= 1 /\ count[t] <= 1 + taken[i]
      /\ i \notin raced => /\ count[t] = anchor[a][1].reference_count
                           /\ \A u \in Threads \ {t} : pc[u] = "counting" => instance[u] # i
    BY <1>1, <1>2 DEF PartsInv, CountingThread, TypeOK
<1>10. NodesCounted'
    <2>1. ASSUME NEW b \in Ids, NEW k \in 1..Len(anchor'[b])
          PROVE  NodeCounted(anchor[b][k], k)'
        <3>0. PICK node : node = anchor'[b][k]
            OBVIOUS
        <3>1. /\ k \in 1..Len(anchor[b]) /\ node.adaptor = anchor[b][k].adaptor
              /\ ~(b = a /\ k = 1) => node.reference_count = anchor[b][k].reference_count
            BY <1>6, <2>1, <3>0
        <3>2. SUFFICES ASSUME node.adaptor # NoInstance
                       PROVE  Counted(node.adaptor, node.reference_count,
                                      BaseReferences(node.adaptor, k))'
            BY <3>0 DEF NodeCounted, Counted, BaseReferences
        <3>3. BaseReferences(node.adaptor, k)' = BaseReferences(node.adaptor, k)
            <4>1. Held(node.adaptor)' = Held(node.adaptor)
                BY <1>2, <1>7, HeldByOthers
            <4>2. QED
                BY <4>1 DEF BaseReferences, Held
        <3>4. Counted(anchor[b][k].adaptor, anchor[b][k].reference_count,
                      BaseReferences(anchor[b][k].adaptor, k))
            BY <3>1, <3>2 DEF PartsInv, NodesCounted, NodeCounted
        <3>5. CASE b = a /\ k = 1
            <4>1. node.adaptor = i /\ node.reference_count = n
                BY <1>4, <1>6, <3>0, <3>5
            <4>2. BaseReferences(i, k) = 1
                BY <3>5, BaseOf
            <4>3. i \notin raced => count[t] = 1 + taken[i]
                BY <1>4, <1>9, <3>4, <3>5, <4>2 DEF Counted
            <4>4. QED
                BY <1>2, <1>8, <1>9, <3>3, <4>1, <4>2, <4>3 DEF Counted
        <3>6. CASE ~(b = a /\ k = 1)
            <4>1. node.adaptor # i
                BY <1>5, <3>1, <3>6
            <4>2. node.adaptor \in Instances
                BY <1>1, <3>1, <3>2, OneNode DEF TypeOK
            <4>3. taken'[node.adaptor] = taken[node.adaptor]
                BY <1>8, <4>1, <4>2
            <4>4. QED
                BY <1>2, <3>1, <3>3, <3>4, <3>6, <4>3 DEF Counted
        <3>7. QED
            BY <3>5, <3>6
    <2>2. QED
        BY <2>1 DEF NodesCounted, NodeCounted
(* Who starts or destroys a handler has it on no anchor. *)
<1>11. ASSUME NEW u \in Threads, u # t, pc[u] \in {"starting", "unlinked", "destroying"},
              instance[u] # NoInstance
       PROVE  instance[u] # i /\ taken'[instance[u]] = taken[instance[u]]
    <2>1. /\ id[u] \in Ids /\ IdOf[instance[u]] = id[u]
          /\ ~OnAnchor(anchor[id[u]], instance[u])
        BY <1>1, <1>11 DEF ThreadInv, Owning
    <2>2. instance[u] # i
        BY <1>4, <1>5, <2>1, OnAnchorAt
    <2>3. instance[u] \in Instances
        BY <1>1, <1>11 DEF TypeOK
    <2>4. QED
        BY <1>8, <2>2, <2>3
<1>12. NothingGiven'
    <2>1. \A u \in Threads : pc[u] = "destroying" => instance[u] # NoInstance
        BY <1>1 DEF ThreadInv, Owning
    <2>2. QED
        BY <1>7, <1>11, <2>1 DEF NothingGiven, PartsInv
<1>13. NotGivenYet'
    BY <1>2, <1>5, <1>8 DEF NotGivenYet, PartsInv
<1>14. ASSUME NEW u \in Threads PROVE CountingThread(u)' /\ StartingThread(u)'
    <2>1. CASE u = t
        BY <1>7, <2>1 DEF CountingThread, StartingThread
    <2>2. CASE u # t
        <3>1. StartingThread(u)'
            BY <1>2, <1>7, <1>11, <2>2 DEF PartsInv, StartingThread
        <3>2. CountingThread(u)'
            <4>1. SUFFICES ASSUME pc[u] = "counting"
                           PROVE  CountingThread(u)'
                BY <1>7, <2>2 DEF CountingThread
            <4>2. /\ CountingThread(u) /\ id[u] \in Ids /\ instance[u] \in Instances
                  /\ instance[u] = ActiveInstance(anchor[id[u]])
                BY <1>1, <4>1 DEF PartsInv, ThreadInv, TypeOK
            <4>3. CASE instance[u] = i
                <5>1. i \in raced
                    BY <1>9, <2>2, <4>1, <4>3
                <5>2. count[u] \in Int
                    BY <1>1 DEF TypeOK
                <5>3. count[u] >= 1 /\ count[u] <= 1 + taken[i]
                    BY <4>1, <4>2, <4>3 DEF CountingThread
                <5>4. count[u] <= 1 + taken'[i]
                    BY <1>8, <5>2, <5>3
                <5>5. QED
                    BY <1>2, <1>7, <2>2, <4>3, <5>1, <5>3, <5>4 DEF CountingThread
            <4>4. CASE instance[u] # i
                <5>1. id[u] # a
                    BY <1>3, <4>2, <4>4
                <5>2. anchor'[id[u]] = anchor[id[u]] /\ taken'[instance[u]] = taken[instance[u]]
                    BY <1>6, <1>8, <4>2, <4>4, <5>1
                <5>3. QED
                    BY <1>2, <1>7, <2>2, <4>2, <5>2 DEF CountingThread
            <4>5. QED
                BY <4>3, <4>4
        <3>3. QED
            BY <3>1, <3>2
    <2>3. QED
        BY <2>1, <2>2
<1>15. QED
    BY <1>10, <1>12, <1>13, <1>14 DEF PartsInv

LEMMA ClaimCounts ==
    ASSUME HandlersInv, PartsInv, NEW t \in Threads, Claim(t)
    PROVE  PartsInv'
<1> USE NoInstanceAssumption
<1> DEFINE a == id[t]
           c == Claimed(a, instance[t])
<1>1. TypeOK /\ NodesInv /\ \A u \in Threads : ThreadInv(u)
    BY DEF HandlersInv
<1>2. /\ pc[t] = "unlinked" /\ anchor' = [anchor EXCEPT ![a] = c]
      /\ Goto(t, "claimed", a, IF instance[t] # NoInstance THEN instance[t]
                              ELSE ActiveInstance(anchor[a]))
      /\ UNCHANGED countVars /\ created' = created
    BY DEF Claim
<1>3. /\ a \in Ids /\ anchor \in [Ids -> Seq(Node)] /\ anchor[a] \in Seq(Node)
      /\ writer = t /\ taken' = taken /\ raced' = raced /\ count' = count
      /\ instance[t] \in Instances \cup {NoInstance}
    BY <1>1, <1>2 DEF TypeOK, ThreadInv, Owning, countVars
<1>4. PICK j : j = IF instance[t] # NoInstance THEN instance[t] ELSE ActiveInstance(anchor[a])
    OBVIOUS
<1>5. /\ pc'[t] = "claimed" /\ instance'[t] = j
      /\ \A u \in Threads \ {t} :
            pc'[u] = pc[u] /\ id'[u] = id[u] /\ instance'[u] = instance[u]
    BY <1>1, <1>2, <1>4, GotoAt
<1>6. anchor'[a] = c /\ \A b \in Ids \ {a} : anchor'[b] = anchor[b]
    BY <1>2, <1>3
<1>7. ASSUME NEW i, i # j PROVE Held(i)' = Held(i)
    BY <1>2, <1>5, <1>7, HeldByOthers
(* The nodes of before, but for the one that is overwritten, are carried. *)
<1>8. ASSUME NEW b \in Ids, NEW k \in 1..Len(anchor[b]), NEW m, k = 1 <=> m = 1,
             anchor[b][k].adaptor # j, NEW node, node = anchor[b][k]
      PROVE  NodeCounted(node, m)'
    <2>1. NodeCounted(node, k)
        BY <1>8 DEF PartsInv, NodesCounted
    <2>2. node.adaptor # j
        BY <1>8
    <2>3. Held(node.adaptor)' = Held(node.adaptor)
        BY <1>7, <2>2
    <2>4. QED
        BY <1>3, <1>8, <2>1, <2>3, CarriedNode
<1>9. ASSUME NEW b \in Ids, b # a, NEW k \in 1..Len(anchor[b]), NEW node, node = anchor[b][k]
      PROVE  NodeCounted(node, k)'
    <2>1. CASE node.adaptor = NoInstance
        BY <2>1 DEF NodeCounted
    <2>2. CASE node.adaptor # NoInstance
        <3>1. IdOf[node.adaptor] = b
            BY <1>1, <1>9, <2>2, OneNode
        <3>2. j # NoInstance => IdOf[j] = a
            <4>1. CASE instance[t] # NoInstance
                BY <1>1, <1>2, <1>4, <4>1 DEF ThreadInv, Owning
            <4>2. CASE instance[t] = NoInstance /\ j # NoInstance
                <5>1. 1 \in 1..Len(anchor[a]) /\ anchor[a][1].adaptor = j
                    BY <1>1, <1>3, <1>4, <4>2, ActiveNode
                <5>2. QED
                    BY <1>1, <1>3, <4>2, <5>1, OneNode
            <4>3. QED
                BY <4>1, <4>2
        <3>3. node.adaptor # j
            BY <1>9, <2>2, <3>1, <3>2
        <3>4. QED
            BY <1>8, <1>9, <3>3
    <2>3. QED
        BY <2>1, <2>2
<1>10. ASSUME NEW m \in 1..Len(c), NEW node, node = c[m] PROVE NodeCounted(node, m)'
    <2>1. CASE instance[t] = NoInstance
        <3>1. IsActive(anchor[a]) /\ j = ActiveInstance(anchor[a]) /\ j # NoInstance
            BY <1>1, <1>2, <1>4, <2>1 DEF ThreadInv, IsActive
        <3>2. /\ 1 \in 1..Len(anchor[a]) /\ anchor[a][1].adaptor = j
              /\ \A k \in 1..Len(anchor[a]) : anchor[a][k].adaptor = j => k = 1
            BY <1>1, <1>3, <3>1, ActiveNode, OneNode
        <3>3. /\ Len(c) = Len(anchor[a]) + 1 /\ c[1] = NewNode(NoInstance, 0)
              /\ \A k \in 2..(Len(anchor[a]) + 1) : c[k] = anchor[a][k - 1]
            BY <1>3, <2>1, <3>1, StoppedNodes
        <3> HIDE DEF c
        <3>4. CASE m = 1
            BY <1>10, <3>3, <3>4 DEF NodeCounted, NewNode
        <3>5. CASE m = 2
            <4>1. node = anchor[a][1] /\ node.adaptor = j
                BY <1>3, <1>10, <3>2, <3>3, <3>5
            <4>2. Counted(j, node.reference_count, 1)
                <5>1. NodeCounted(anchor[a][1], 1)
                    BY <1>3, <3>2 DEF PartsInv, NodesCounted
                <5>2. QED
                    BY <3>1, <4>1, <5>1, BaseOf DEF NodeCounted
            <4>3. BaseReferences(j, m)' = 1
                BY <1>5 DEF BaseReferences
            <4>4. QED
                BY <1>3, <4>1, <4>2, <4>3 DEF NodeCounted, Counted
        <3>6. CASE m # 1 /\ m # 2
            <4>1. m - 1 \in 1..Len(anchor[a]) /\ m - 1 # 1 /\ node = anchor[a][m - 1]
                BY <1>3, <1>10, <3>3, <3>6
            <4>2. anchor[a][m - 1].adaptor # j
                BY <3>2, <4>1
            <4>3. QED
                BY <1>3, <1>8, <3>6, <4>1, <4>2
        <3>7. QED
            BY <3>4, <3>5, <3>6
    <2>2. CASE instance[t] # NoInstance
        <3>1. /\ j = instance[t] /\ j \in Instances /\ ~OnAnchor(anchor[a], j)
              /\ taken[j] = 0 /\ j \notin raced
            BY <1>1, <1>2, <1>3, <1>4, <2>2 DEF ThreadInv, PartsInv, StartingThread
        <3>2. /\ Len(c) = IF Len(anchor[a]) = 0 THEN 1 ELSE Len(anchor[a])
              /\ c[1] = NewNode(j, 1)
              /\ \A k \in 2..Len(anchor[a]) : c[k] = anchor[a][k]
            BY <1>3, <3>1, StartedNodes
        <3> HIDE DEF c
        <3>3. CASE m = 1
            <4>1. node.adaptor = j /\ node.reference_count = 1
                BY <1>10, <3>2, <3>3 DEF NewNode
            <4>2. BaseReferences(j, m)' = 1
                BY <3>3 DEF BaseReferences
            <4>3. QED
                BY <1>3, <3>1, <4>1, <4>2 DEF NodeCounted, Counted
        <3>4. CASE m # 1
            <4>1. m \in 1..Len(anchor[a]) /\ node = anchor[a][m]
                BY <1>3, <1>10, <3>2, <3>4
            <4>2. anchor[a][m].adaptor # j
                BY <3>1, <4>1, OnAnchorAt
            <4>3. QED
                BY <1>3, <1>8, <3>4, <4>1, <4>2
        <3>5. QED
            BY <3>3, <3>4
    <2>3. QED
        BY <2>1, <2>2
<1> HIDE DEF c
<1>11. NodesCounted'
    <2>1. ASSUME NEW b \in Ids, NEW k \in 1..Len(anchor'[b])
          PROVE  NodeCounted(anchor[b][k], k)'
        <3>1. PICK node : node = anchor'[b][k]
            OBVIOUS
        <3>2. NodeCounted(node, k)'
            <4>1. CASE b = a
                BY <1>6, <1>10, <3>1, <4>1
            <4>2. CASE b # a
                <5>1. k \in 1..Len(anchor[b]) /\ node = anchor[b][k]
                    BY <1>6, <2>1, <3>1, <4>2
                <5>2. QED
                    BY <1>9, <4>2, <5>1
            <4>3. QED
                BY <4>1, <4>2
        <3>3. QED
            BY <3>1, <3>2 DEF NodeCounted, Counted, BaseReferences
    <2>2. QED
        BY <2>1 DEF NodesCounted, NodeCounted
<1>12. NothingGiven' /\ NotGivenYet'
    BY <1>2, <1>3, <1>5 DEF PartsInv, NothingGiven, NotGivenYet
<1>13. ASSUME NEW u \in Threads PROVE CountingThread(u)' /\ StartingThread(u)'
    <2>1. pc'[u] # "counting"
        <3>1. pc[u] # "counting"
            BY <1>1, <1>3, HandlersAssumption DEF ThreadInv
        <3>2. QED
            BY <1>5, <3>1
    <2>2. StartingThread(u)'
        <3>1. CASE u = t
            BY <1>5, <3>1 DEF StartingThread
        <3>2. CASE u # t
            BY <1>3, <1>5, <3>2, SameStartingThread DEF PartsInv
        <3>3. QED
            BY <3>1, <3>2
    <2>3. QED
        BY <2>1, <2>2 DEF CountingThread
<1>14. QED
    BY <1>11, <1>12, <1>13 DEF PartsInv

(* A stop gives the base reference back: the last one, which takes the node off
   the anchor, or one of several. *)
LEMMA ReleaseRetiredCounts ==
    ASSUME HandlersInv, PartsInv, NEW t \in Threads, ReleaseRetired(t)
    PROVE  PartsInv'
<1> USE NoInstanceAssumption
<1>1. TypeOK /\ NodesInv /\ OwnersInv /\ \A u \in Threads : ThreadInv(u)
    BY DEF HandlersInv
<1>2. PICK a, i : a = id[t] /\ i = instance[t]
    OBVIOUS
<1>3. /\ pc[t] = "retiring" /\ NoReader
      /\ anchor' = [anchor EXCEPT ![a] = Release(anchor[a], i)]
      /\ IF LastReference(anchor[a], i) THEN Goto(t, "destroying", a, i) ELSE Idle(t)
      /\ UNCHANGED countVars /\ created' = created
    BY <1>2 DEF ReleaseRetired
<1>4. /\ a \in Ids /\ anchor \in [Ids -> Seq(Node)] /\ anchor[a] \in Seq(Node)
      /\ i \in Instances /\ i # NoInstance
      /\ OnAnchor(anchor[a], i) /\ ActiveInstance(anchor[a]) # i
      /\ taken' = taken /\ raced' = raced /\ count' = count /\ taken[i] \in Nat
    BY <1>1, <1>2, <1>3 DEF TypeOK, ThreadInv, Owning, countVars
<1>5. PICK k \in 1..Len(anchor[a]) : anchor[a][k].adaptor = i
    BY <1>4, OnAnchorAt
<1>6. k \in 2..Len(anchor[a])
    BY <1>4, <1>5, ActiveInstanceAt
<1>7. \A b \in Ids : \A m \in 1..Len(anchor[b]) : anchor[b][m].adaptor = i => b = a /\ m = k
    BY <1>1, <1>4, <1>5, OneNode
<1>8. /\ LastReference(anchor[a], i) => pc'[t] = "destroying" /\ instance'[t] = i
      /\ ~LastReference(anchor[a], i) => pc'[t] = "idle"
      /\ \A u \in Threads \ {t} :
            pc'[u] = pc[u] /\ id'[u] = id[u] /\ instance'[u] = instance[u]
    BY <1>1, <1>3, GotoAt DEF Idle
<1>9. pc'[t] \in {"destroying", "idle"}
    BY <1>8
<1>10. Held(i) /\ ~(Held(i)')
    <2>1. Held(i)
        BY <1>2, <1>3 DEF Held
    <2>2. ASSUME NEW u \in Threads, pc'[u] \in {"claimed", "retiring"}, instance'[u] = i
          PROVE  FALSE
        <3>1. u # t
            BY <1>9, <2>2
        <3>2. pc[u] \in Owning /\ pc[t] \in Owning /\ instance[u] = i
            BY <1>3, <1>8, <2>2, <3>1 DEF Owning
        <3>3. QED
            BY <1>1, <1>2, <1>4, <3>1, <3>2 DEF OwnersInv
    <2>3. QED
        BY <2>1, <2>2 DEF Held
<1>11. \A j : j # i => Held(j)' = Held(j)
    BY <1>2, <1>8, <1>9, HeldByOthers
<1>12. Counted(i, anchor[a][k].reference_count, 1)
    <2>1. NodeCounted(anchor[a][k], k)
        BY <1>4, <1>5 DEF PartsInv, NodesCounted
    <2>2. QED
        BY <1>4, <1>5, <1>10, <2>1, BaseOf DEF NodeCounted
<1>13. anchor[a][k].reference_count \in Int
    <2>1. anchor[a][k] \in Node
        BY <1>4, <1>5
    <2>2. QED
        BY <2>1 DEF Node
<1>14. ASSUME NEW b \in Ids, NEW p \in 1..Len(anchor[b]), NEW m, p = 1 <=> m = 1,
              anchor[b][p].adaptor # i, NEW node, node = anchor[b][p]
       PROVE  NodeCounted(node, m)'
    <2>1. NodeCounted(node, p)
        BY <1>14 DEF PartsInv, NodesCounted
    <2>2. Held(node.adaptor)' = Held(node.adaptor)
        BY <1>11, <1>14
    <2>3. QED
        BY <1>4, <1>14, <2>1, <2>2, CarriedNode
<1>15. \A b \in Ids \ {a} : anchor'[b] = anchor[b]
    BY <1>3, <1>4
<1>16. anchor'[a] = Release(anchor[a], i)
    BY <1>3, <1>4
<1>17. ASSUME NEW m \in 1..Len(anchor'[a]), NEW node, node = anchor'[a][m]
       PROVE  NodeCounted(node, m)'
    <2>1. CASE LastReference(anchor[a], i)
        <3>1. Release(anchor[a], i) = Unlink(anchor[a], k)
            BY <1>4, <1>5, <1>6, <1>7, <2>1, ReleasedNodes
        <3>2. /\ m \in 1..(Len(anchor[a]) - 1)
              /\ node = IF m < k THEN anchor[a][m] ELSE anchor[a][m + 1]
            <4>1. /\ Len(Unlink(anchor[a], k)) = Len(anchor[a]) - 1
                  /\ \A p \in 1..(Len(anchor[a]) - 1) : Unlink(anchor[a], k)[p] =
                        IF p < k THEN anchor[a][p] ELSE anchor[a][p + 1]
                BY <1>4, <1>5, UnlinkSeq
            <4>2. m \in 1..Len(Unlink(anchor[a], k)) /\ node = Unlink(anchor[a], k)[m]
                BY <1>16, <1>17, <3>1
            <4>3. QED
                BY <4>1, <4>2
        <3>3. PICK p : p = IF m < k THEN m ELSE m + 1
            OBVIOUS
        <3>4. p \in 1..Len(anchor[a]) /\ p # k /\ node = anchor[a][p] /\ (p = 1 <=> m = 1)
            BY <1>4, <1>6, <3>2, <3>3
        <3>5. anchor[a][p].adaptor # i
            BY <1>4, <1>7, <3>4
        <3>6. QED
            BY <1>4, <1>14, <3>4, <3>5
    <2>2. CASE ~LastReference(anchor[a], i)
        <3>1. PICK n : n = anchor[a][k].reference_count - 1
            OBVIOUS
        <3>2. Release(anchor[a], i) = Recounted(anchor[a], k, n) /\ n >= 1
            <4>1. \A p \in 1..Len(anchor[a]) : anchor[a][p].adaptor = i => p = k
                BY <1>4, <1>7
            <4>2. /\ Release(anchor[a], i) = Recounted(anchor[a], k, n)
                  /\ anchor[a][k].reference_count > 1
                BY <1>4, <1>5, <2>2, <3>1, <4>1, KeptNodes
            <4>3. QED
                BY <1>13, <3>1, <4>2
        <3>3. n \in Int
            BY <1>13, <3>1
        <3>4. /\ m \in 1..Len(anchor[a]) /\ node.adaptor = anchor[a][m].adaptor
              /\ node.reference_count = IF m = k THEN n ELSE anchor[a][m].reference_count
            BY <1>4, <1>5, <1>16, <1>17, <3>2, <3>3, RecountedNodes
        <3>5. CASE m = k
            <4>1. node.adaptor = i /\ node.reference_count = n
                BY <1>5, <3>4, <3>5
            <4>2. BaseReferences(i, m)' = 0
                BY <1>6, <1>10, <3>5 DEF BaseReferences, Held
            <4>3. n <= taken[i] /\ (i \notin raced => n = taken[i])
                BY <1>4, <1>12, <1>13, <3>1 DEF Counted
            <4>4. QED
                BY <1>4, <3>2, <3>3, <4>1, <4>2, <4>3 DEF NodeCounted, Counted
        <3>6. CASE m # k
            <4>1. PICK old : old = anchor[a][m]
                OBVIOUS
            <4>2. NodeCounted(old, m)'
                <5>1. anchor[a][m].adaptor # i
                    BY <1>4, <1>7, <3>4, <3>6
                <5>2. QED
                    BY <1>4, <1>14, <3>4, <4>1, <5>1
            <4>3. node.adaptor = old.adaptor /\ node.reference_count = old.reference_count
                BY <3>4, <3>6, <4>1
            <4>4. QED
                BY <4>2, <4>3 DEF NodeCounted
        <3>7. QED
            BY <3>5, <3>6
    <2>3. QED
        BY <2>1, <2>2
<1>18. NodesCounted'
    <2>1. ASSUME NEW b \in Ids, NEW m \in 1..Len(anchor'[b])
          PROVE  NodeCounted(anchor[b][m], m)'
        <3>1. PICK node : node = anchor'[b][m]
            OBVIOUS
        <3>2. NodeCounted(node, m)'
            <4>1. CASE b = a
                BY <1>17, <3>1, <4>1
            <4>2. CASE b # a
                <5>1. m \in 1..Len(anchor[b]) /\ node = anchor[b][m]
                    BY <1>15, <2>1, <3>1, <4>2
                <5>2. anchor[b][m].adaptor # i
                    BY <1>7, <4>2, <5>1
                <5>3. QED
                    BY <1>14, <5>1, <5>2
            <4>3. QED
                BY <4>1, <4>2
        <3>3. QED
            BY <3>1, <3>2 DEF NodeCounted, Counted, BaseReferences
    <2>2. QED
        BY <2>1 DEF NodesCounted, NodeCounted
<1>19. NothingGiven'
    <2>1. LastReference(anchor[a], i) => taken[i] = 0
        <3>1. SUFFICES ASSUME LastReference(anchor[a], i) PROVE taken[i] = 0
            OBVIOUS
        <3>2. anchor[a][k].reference_count <= 1
            <4>1. FirstPosition(anchor[a], i) = k
                BY <1>4, <1>5, <1>7, PositionOfOne
            <4>2. QED
                BY <3>1, <4>1 DEF LastReference
        <3>3. QED
            BY <1>4, <1>12, <1>13, <3>2 DEF Counted
    <2>2. ASSUME NEW u \in Threads, pc'[u] = "destroying" PROVE taken'[instance'[u]] = 0
        BY <1>4, <1>8, <2>1, <2>2 DEF PartsInv, NothingGiven
    <2>3. QED
        BY <2>2 DEF NothingGiven
<1>20. NotGivenYet'
    BY <1>3, <1>4 DEF PartsInv, NotGivenYet
<1>21. ASSUME NEW u \in Threads PROVE CountingThread(u)' /\ StartingThread(u)'
    <2>1. pc'[u] # "counting"
        BY <1>3, <1>8, <1>9 DEF NoReader
    <2>2. StartingThread(u)'
        <3>1. CASE u = t
            BY <1>9, <3>1 DEF StartingThread
        <3>2. CASE u # t
            BY <1>4, <1>8, <3>2, SameStartingThread DEF PartsInv
        <3>3. QED
            BY <3>1, <3>2
    <2>3. QED
        BY <2>1, <2>2 DEF CountingThread
<1>22. QED
    BY <1>18, <1>19, <1>20, <1>21 DEF PartsInv

LEMMA InitCounts == Init => PartsInv
<1> SUFFICES ASSUME Init PROVE PartsInv
    OBVIOUS
<1>1. NodesCounted
    BY DEF Init, NodesCounted
<1>2. QED
    BY <1>1 DEF Init, PartsInv, NothingGiven, NotGivenYet, CountingThread, StartingThread

LEMMA StepCounts ==
    ASSUME HandlersInv, PartsInv, [Next]_vars
    PROVE  PartsInv'
<1>0. TypeOK
    BY DEF HandlersInv
<1>1. CASE Next
    <2>1. PICK t \in Threads :
              \/ CreateHandler(t) \/ Start(t) \/ Stop(t) \/ Claim(t) \/ Link(t)
              \/ ReleaseRetired(t) \/ Destroy(t)
              \/ ReadCount(t) \/ WriteCount(t) \/ Discard(t)
              \/ BeginCheck(t) \/ VisitHandler(t) \/ NextAnchor(t) \/ EndCheck(t)
        BY <1>1 DEF Next
    <2>2. CASE CreateHandler(t)
        BY <1>0, <2>2, CreateHandlerCounts
    <2>3. CASE Start(t)
        BY <1>0, <2>3, StartCounts
    <2>4. CASE Stop(t)
        BY <1>0, <2>4, StopCounts
    <2>5. CASE Claim(t)
        BY <2>5, ClaimCounts
    <2>6. CASE Link(t)
        BY <2>6, LinkCounts
    <2>7. CASE ReleaseRetired(t)
        BY <2>7, ReleaseRetiredCounts
    <2>8. CASE ReadCount(t)
        BY <2>8, ReadCountCounts
    <2>9. CASE WriteCount(t)
        BY <2>9, WriteCountCounts
    <2>10. CASE \/ Destroy(t) \/ Discard(t)
                \/ BeginCheck(t) \/ VisitHandler(t) \/ NextAnchor(t) \/ EndCheck(t)
        BY <1>0, <2>10, OtherCounts
    <2>11. QED
        BY <2>1, <2>2, <2>3, <2>4, <2>5, <2>6, <2>7, <2>8, <2>9, <2>10
<1>2. CASE UNCHANGED vars
    <2>1. /\ anchor' = anchor /\ pc' = pc /\ id' = id /\ instance' = instance
          /\ count' = count /\ taken' = taken /\ raced' = raced /\ created' = created
        BY <1>2 DEF vars, countVars
    <2>2. \A u \in Threads : CountingThread(u)' /\ StartingThread(u)'
        BY <2>1 DEF PartsInv, CountingThread, StartingThread
    <2>3. \A i : Held(i)' = Held(i)
        BY <2>1 DEF Held
    <2>4. QED
        BY <1>0, <2>1, <2>2, <2>3, QuietCounts
<1>3. QED
    BY <1>1, <1>2

(* Whatever starts, restarts, stops and adaptors do, and however many threads
   count at once: what was given out keeps a handler on its anchor and from the
   destroy of a stop, and nothing but threads that count at once loses a
   reference. *)
THEOREM ReferencesAreCountedHolds == Spec => []ReferencesAreCounted
<1>1. Init => HandlersInv /\ PartsInv
    BY InitInv, InitCounts
<1>2. HandlersInv /\ PartsInv /\ [Next]_vars => (HandlersInv /\ PartsInv)'
    BY NextInv, StepCounts
<1>3. PartsInv => ReferencesAreCounted
    BY CountsParts DEF CountsInv
<1>4. QED
    BY <1>1, <1>2, <1>3, PTL DEF Spec
=============================================================================
