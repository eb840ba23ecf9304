---------------------- MODULE AdaptorTransactionsProofs ----------------------
(***************************************************************************)
(* What TLAPS proves about the transactions of requests, for any number of *)
(* threads, adaptors, requests and operations, and for any faults.         *)
(***************************************************************************)
EXTENDS AdaptorTransactions, FiniteSetTheorems, SequenceTheorems,
        WellFoundedInduction, TLAPS

-----------------------------------------------------------------------------
(* The calls of a request. *)

LEMMA NextCall ==
    ASSUME TypeOK, NEW r \in Threads, work[r] # <<>>
    PROVE  /\ work[r] \in Seq(Steps)
           /\ Head(work[r]) = work[r][1] /\ Head(work[r]) \in Steps
           /\ 1 \in DOMAIN work[r] /\ Len(work[r]) \in Nat \ {0}
           /\ Tail(work[r]) \in Seq(Steps)
           /\ Len(Tail(work[r])) = Len(work[r]) - 1
           /\ \A i \in 1..Len(Tail(work[r])) : Tail(work[r])[i] = work[r][i + 1]
<1>1. work[r] \in Seq(Steps)
    BY DEF TypeOK
<1>2. QED
    BY <1>1, HeadTailProperties, EmptySeq

(* After a step of r, its calls are those of q and then the ones that were   *)
(* behind the next call.                                                     *)
Continued(r, q) ==
    /\ work' \in [Threads -> Seq(Steps)]
    /\ Len(work'[r]) = Len(q) + Len(work[r]) - 1
    /\ \A i \in 1..Len(q) : work'[r][i] = q[i]
    /\ \A i \in 1..Len(work'[r]) :
          i > Len(q) => /\ i - Len(q) + 1 \in 2..Len(work[r])
                        /\ work'[r][i] = work[r][i - Len(q) + 1]
    /\ \A t \in Threads : t # r => work'[t] = work[t]

LEMMA ReturnContinues ==
    ASSUME TypeOK, NEW r \in Threads, work[r] # <<>>, Return(r)
    PROVE  Continued(r, <<>>)
<1>1. /\ work' \in [Threads -> Seq(Steps)]
      /\ work'[r] = Tail(work[r])
      /\ \A t \in Threads : t # r => work'[t] = work[t]
    BY NextCall DEF TypeOK, Return
<1>2. Len(<<>>) = 0
    OBVIOUS
<1>3. QED
    BY <1>1, <1>2, NextCall DEF Continued

LEMMA CallContinues ==
    ASSUME TypeOK, NEW r \in Threads, work[r] # <<>>,
           NEW q \in Seq(Steps), Call(r, q)
    PROVE  Continued(r, q)
<1>1. /\ Tail(work[r]) \in Seq(Steps)
      /\ work'[r] = q \o Tail(work[r])
      /\ \A t \in Threads : t # r => work'[t] = work[t]
    BY NextCall DEF TypeOK, Call
<1>2. q \o Tail(work[r]) \in Seq(Steps)
    BY <1>1
<1>3. work' \in [Threads -> Seq(Steps)]
    BY <1>2 DEF Call, TypeOK
<1>4. /\ Len(q) \in Nat /\ Len(work[r]) \in Nat \ {0}
      /\ Len(Tail(work[r])) = Len(work[r]) - 1
      /\ \A i \in 1..Len(Tail(work[r])) : Tail(work[r])[i] = work[r][i + 1]
    BY NextCall
<1>5. /\ Len(work'[r]) = Len(q) + Len(Tail(work[r]))
      /\ \A i \in 1..(Len(q) + Len(Tail(work[r]))) :
            work'[r][i] = IF i <= Len(q) THEN q[i] ELSE Tail(work[r])[i - Len(q)]
    BY <1>1, ConcatProperties
<1>6. /\ \A i \in 1..Len(q) : work'[r][i] = q[i]
      /\ \A i \in 1..Len(work'[r]) :
            i > Len(q) => /\ i - Len(q) + 1 \in 2..Len(work[r])
                          /\ work'[r][i] = work[r][i - Len(q) + 1]
    BY <1>4, <1>5
<1>7. QED
    BY <1>1, <1>3, <1>4, <1>5, <1>6 DEF Continued

LEMMA StepType ==
    ASSUME NEW do \in {"get_cached", "get_cached_begin", "begin", "begin_index", "txn_begin",
                       "txn_begin_index", "read_object", "update_object", "journal_epilogue",
                       "add_entry", "open_index", "update_index"},
           NEW a \in Adaptors
    PROVE  Step(do, a) \in Steps /\ Step(do, a).do = do /\ Step(do, a).on = a /\ Step(do, a).of = a
BY DEF Step, Steps

LEMMA EntryStepType ==
    ASSUME NEW a \in Adaptors, NEW j \in Adaptors
    PROVE  /\ EntryStep(j, a) \in Steps /\ EntryStep(j, a).do = "add_entry"
           /\ EntryStep(j, a).on = j /\ EntryStep(j, a).of = a
BY DEF EntryStep, Steps

-----------------------------------------------------------------------------
(* The list of transactions. *)

LEMMA PositionIs ==
    ASSUME TypeOK, NEW r \in Threads, NEW a \in Adaptors
    PROVE  /\ Position(r, a) \in Nat
           /\ a \in Range(begun[r]) =>
                 Position(r, a) \in DOMAIN begun[r] /\ begun[r][Position(r, a)] = a
                 /\ Position(r, a) > 0
           /\ a \notin Range(begun[r]) => Position(r, a) = 0
<1>1. DOMAIN begun[r] = 1..Len(begun[r]) /\ Len(begun[r]) \in Nat
    BY DEF TypeOK
<1>2. CASE a \in Range(begun[r])
    <2>1. \E i \in DOMAIN begun[r] : begun[r][i] = a
        BY <1>2 DEF Range
    <2>2. QED
        BY <1>1, <1>2, <2>1 DEF Position
<1>3. CASE a \notin Range(begun[r])
    BY <1>3 DEF Position
<1>4. QED
    BY <1>2, <1>3

LEMMA ChangeType ==
    ASSUME TypeOK, NEW r \in Threads, NEW s \in Steps
    PROVE  /\ Change(r, s) \in Changes
           /\ Change(r, s).by = r /\ Change(r, s).request = Current(r)
           /\ Change(r, s).operation = operations[r]
           /\ Change(r, s).on = s.on /\ Change(r, s).of = s.of
           /\ Change(r, s).entry = (s.do = "add_entry")
           /\ Change(r, s).position = Position(r, s.on)
<1>1. s.on \in Adaptors /\ s.of \in Adaptors /\ (s.do = "add_entry") \in BOOLEAN
    BY DEF Steps
<1>2. Current(r) \in Nat \ {0} /\ operations[r] \in Nat
    BY DEF TypeOK, Current
<1>3. Position(r, s.on) \in Nat
    BY <1>1, PositionIs
<1>4. QED
    BY <1>1, <1>2, <1>3 DEF Change, Changes

LEMMA BegunRange ==
    ASSUME TypeOK, NEW r \in Threads
    PROVE  /\ begun[r] \in Seq(Transactional) /\ Len(begun[r]) \in Nat
           /\ DOMAIN begun[r] = 1..Len(begun[r])
           /\ Range(begun[r]) \subseteq Transactional
           /\ \A i \in DOMAIN begun[r] : begun[r][i] \in Range(begun[r])
           /\ \A a \in Range(begun[r]) : \E i \in DOMAIN begun[r] : begun[r][i] = a
BY DEF TypeOK, Range

LEMMA RemoveLast ==
    ASSUME NEW S, NEW s \in Seq(S), s # <<>>
    PROVE  /\ RemoveAt(s, Len(s)) \in Seq(S)
           /\ Len(RemoveAt(s, Len(s))) = Len(s) - 1
           /\ \A i \in 1..(Len(s) - 1) : RemoveAt(s, Len(s))[i] = s[i]
           /\ Len(s) \in Nat \ {0} /\ Len(s) \in DOMAIN s
<1>1. Len(s) \in Nat \ {0} /\ Len(s) \in DOMAIN s
    BY EmptySeq
<1>2. SubSeq(s, Len(s) + 1, Len(s)) = <<>>
    BY <1>1, SubSeqEmpty
<1>3. RemoveAt(s, Len(s)) = SubSeq(s, 1, Len(s) - 1) \o <<>>
    BY <1>2 DEF RemoveAt
<1>4. SubSeq(s, 1, Len(s) - 1) \in Seq(S)
    BY <1>1, SubSeqProperties
<1>5. RemoveAt(s, Len(s)) = SubSeq(s, 1, Len(s) - 1)
    BY <1>3, <1>4, ConcatEmptySeq
<1>6. /\ Len(SubSeq(s, 1, Len(s) - 1)) = Len(s) - 1
      /\ \A i \in 1..(Len(s) - 1) : SubSeq(s, 1, Len(s) - 1)[i] = s[i]
    BY <1>1
<1>7. QED
    BY <1>1, <1>4, <1>5, <1>6

-----------------------------------------------------------------------------
(* The order of the calls. *)

LEMMA InOrderContinued ==
    ASSUME TypeOK, NEW r \in Threads, InOrder(r), phase[r] = "run", work[r] # <<>>,
           NEW q \in Seq(Steps), Continued(r, q), phase'[r] = "run",
           sessions[r] \subseteq sessions'[r], Range(begun[r]) \subseteq Range(begun'[r]),
           \A i \in 1..Len(q) :
              /\ StepInOrder(q[i], sessions'[r])
              /\ i > 1 => q[i].do \notin Openers
              /\ (q[i].do \in {"update_object", "add_entry"} /\ q[i].on \in Transactional) =>
                    \/ q[i].on \in Range(begun'[r])
                    \/ i = 2 /\ q[1].on = q[i].on /\ q[1].do \in Beginners
              /\ q[i].do = "update_object" =>
                    i < Len(q) /\ q[i + 1].on = q[i].on /\ q[i + 1].do = "journal_epilogue",
           work[r][1].do \in Beginners /\ work[r][1].on \in Transactional =>
              \/ work[r][1].on \in Range(begun'[r])
              \/ Len(q) = 1 /\ q[1].on = work[r][1].on /\ q[1].do \in Beginners
    PROVE  InOrder(r)'
<1> DEFINE L == Len(q)
<1>1. /\ L \in Nat /\ Len(work[r]) \in Nat \ {0}
      /\ DOMAIN work[r] = 1..Len(work[r])
      /\ DOMAIN work'[r] = 1..Len(work'[r])
      /\ Len(work'[r]) = L + Len(work[r]) - 1
    BY NextCall DEF Continued, TypeOK
<1>2. ASSUME NEW i \in DOMAIN work'[r]
      PROVE  CallInOrder(r, i)'
    <2>1. CASE i <= L
        <3>1. i \in 1..L /\ 1 \in 1..L /\ work'[r][i] = q[i] /\ work'[r][1] = q[1]
            BY <1>1, <2>1 DEF Continued
        <3>2. i < L => work'[r][i + 1] = q[i + 1]
            <4>1. i < L => i + 1 \in 1..L
                BY <1>1, <3>1
            <4>2. QED
                BY <4>1 DEF Continued
        <3>3. i < L => i < Len(work'[r])
            BY <1>1
        <3>4. /\ StepInOrder(q[i], sessions'[r])
              /\ i > 1 => q[i].do \notin Openers
              /\ (q[i].do \in {"update_object", "add_entry"} /\ q[i].on \in Transactional) =>
                    \/ q[i].on \in Range(begun'[r])
                    \/ i = 2 /\ q[1].on = q[i].on /\ q[1].do \in Beginners
              /\ q[i].do = "update_object" =>
                    i < L /\ q[i + 1].on = q[i].on /\ q[i + 1].do = "journal_epilogue"
            BY <3>1
        <3>5. QED
            BY <3>1, <3>2, <3>3, <3>4 DEF CallInOrder
    <2>2. CASE i > L
        <3> DEFINE k == i - L + 1
        <3>1. /\ k \in DOMAIN work[r] /\ k > 1 /\ k \in Nat
              /\ work'[r][i] = work[r][k]
            <4>1. i \in 1..(L + Len(work[r]) - 1)
                BY ONLY <1>1, i \in DOMAIN work'[r]
            <4>2. k \in 1..Len(work[r]) /\ k > 1 /\ k \in Nat
                BY ONLY <1>1, <4>1, <2>2
            <4>3. work'[r][i] = work[r][k]
                BY <1>1, <4>1, <2>2 DEF Continued
            <4>4. QED
                BY ONLY <1>1, <4>2, <4>3
        <3>2. k < Len(work[r]) => i < Len(work'[r]) /\ work'[r][i + 1] = work[r][k + 1]
            <4>1. SUFFICES ASSUME k < Len(work[r])
                           PROVE  i < Len(work'[r]) /\ work'[r][i + 1] = work[r][k + 1]
                OBVIOUS
            <4>2. i + 1 \in 1..Len(work'[r]) /\ i + 1 > L /\ (i + 1) - L + 1 = k + 1
                BY <1>1, <4>1, <2>2
            <4>3. work'[r][i + 1] = work[r][(i + 1) - L + 1]
                BY <4>2 DEF Continued
            <4>4. QED
                BY <4>2, <4>3
        <3>3. StepInOrder(work[r][k], sessions'[r])
            BY <3>1 DEF InOrder, CallInOrder, StepInOrder
        <3>4. ASSUME work[r][k].do \in {"update_object", "add_entry"},
                     work[r][k].on \in Transactional
              PROVE  \/ work[r][k].on \in Range(begun'[r])
                     \/ i = 2 /\ work'[r][1].on = work[r][k].on /\ work'[r][1].do \in Beginners
            <4>1. CASE work[r][k].on \in Range(begun[r])
                BY <4>1
            <4>2. CASE k = 2 /\ work[r][1].on = work[r][k].on /\ work[r][1].do \in Beginners
                <5>1. CASE L = 1 /\ q[1].on = work[r][1].on /\ q[1].do \in Beginners
                    <6>1. i = 2 /\ work'[r][1] = q[1]
                        BY <1>1, <4>2, <5>1 DEF Continued
                    <6>2. QED
                        BY <4>2, <5>1, <6>1
                <5>2. QED
                    BY <3>4, <4>2, <5>1
            <4>3. QED
                BY <3>1, <3>4, <4>1, <4>2 DEF InOrder, CallInOrder
        <3>5. work[r][k].do \notin Openers
            BY <3>1 DEF InOrder, CallInOrder
        <3>6. work[r][k].do = "update_object" =>
                 /\ k < Len(work[r]) /\ work[r][k + 1].on = work[r][k].on
                 /\ work[r][k + 1].do = "journal_epilogue"
            BY <3>1 DEF InOrder, CallInOrder
        <3>7. QED
            BY <3>1, <3>2, <3>3, <3>4, <3>5, <3>6 DEF CallInOrder, StepInOrder
    <2>3. QED
        BY <1>1, <2>1, <2>2
<1>3. QED
    BY <1>2 DEF InOrder

(* The calls behind the next one do not wait for a transaction.              *)
LEMMA ContinuedNoWait ==
    ASSUME TypeOK, NEW r \in Threads, InOrder(r), work[r] # <<>>,
           NEW q \in Seq(Steps), Continued(r, q),
           Len(q) > 0 => q[1].do \notin {"txn_begin", "txn_begin_index"}
    PROVE  \A a \in Transactional : ~Waits(r, a)'
<1>1. /\ Len(q) \in Nat /\ Len(work[r]) \in Nat \ {0}
      /\ DOMAIN work[r] = 1..Len(work[r])
      /\ work'[r] \in Seq(Steps)
    BY NextCall DEF Continued, TypeOK
<1>2. work'[r] # <<>> => 1 \in 1..Len(work'[r]) /\ Head(work'[r]) = work'[r][1]
    BY <1>1, EmptySeq
<1>3. work'[r] # <<>> => work'[r][1].do \notin {"txn_begin", "txn_begin_index"}
    <2>1. CASE Len(q) > 0
        BY <1>1, <2>1 DEF Continued
    <2>2. CASE Len(q) = 0
        <3>1. work'[r] # <<>> => 2 \in DOMAIN work[r] /\ work'[r][1] = work[r][2]
            BY <1>1, <1>2, <2>2 DEF Continued
        <3>2. QED
            BY <3>1 DEF InOrder, CallInOrder, Openers
    <2>3. QED
        BY <1>1, <2>1, <2>2
<1>4. QED
    BY <1>2, <1>3 DEF Waits, Calling

-----------------------------------------------------------------------------
(* What a step of one thread leaves to the others. *)

OthersRest(r) ==
    \A t \in Threads : t # r =>
        /\ phase'[t] = phase[t] /\ work'[t] = work[t]
        /\ operations'[t] = operations[t] /\ caught'[t] = caught[t]
        /\ sessions'[t] = sessions[t] /\ begun'[t] = begun[t] /\ open'[t] = open[t]
        /\ outcomes'[t] = outcomes[t]

LEMMA ReturnRests ==
    ASSUME TypeOK, NEW r \in Threads, Return(r)
    PROVE  \A t \in Threads : t # r => work'[t] = work[t]
BY DEF TypeOK, Return

LEMMA CallRests ==
    ASSUME TypeOK, NEW r \in Threads, NEW q, Call(r, q)
    PROVE  \A t \in Threads : t # r => work'[t] = work[t]
BY DEF TypeOK, Call

LEMMA ThrowRests ==
    ASSUME TypeOK, NEW r \in Threads, Throw(r)
    PROVE  /\ \A t \in Threads : t # r =>
                  work'[t] = work[t] /\ caught'[t] = caught[t] /\ phase'[t] = phase[t]
           /\ work'[r] = <<>> /\ work' \in [Threads -> Seq(Steps)]
           /\ caught' \in [Threads -> BOOLEAN]
           /\ phase' \in [Threads -> {"idle", "run", "commit", "abort"}]
           /\ phase'[r] = "abort" \/ (phase'[r] = phase[r] /\ caught'[r])
BY EmptySeq DEF TypeOK, Throw

LEMMA EndRests ==
    ASSUME TypeOK, NEW r \in Threads, NEW o \in Outcomes, End(r, o)
    PROVE  /\ \A t \in Threads : t # r =>
                  /\ phase'[t] = phase[t] /\ operations'[t] = operations[t]
                  /\ caught'[t] = caught[t] /\ outcomes'[t] = outcomes[t]
           /\ phase'[r] = "idle" /\ outcomes'[r] = Append(outcomes[r], o)
           /\ phase' \in [Threads -> {"idle", "run", "commit", "abort"}]
           /\ operations' \in [Threads -> Nat] /\ caught' \in [Threads -> BOOLEAN]
           /\ outcomes' \in [Threads -> Seq(Outcomes)]
<1>1. /\ phase \in [Threads -> {"idle", "run", "commit", "abort"}]
      /\ operations \in [Threads -> Nat] /\ caught \in [Threads -> BOOLEAN]
      /\ outcomes \in [Threads -> Seq(Outcomes)]
    BY DEF TypeOK
<1>2. Append(outcomes[r], o) \in Seq(Outcomes)
    BY <1>1
<1>3. QED
    BY <1>1, <1>2 DEF End

LEMMA OthersRestStep ==
    ASSUME TypeOK, NEW r \in Threads, Start(r) \/ Proceed(r) \/ Fail(r)
    PROVE  OthersRest(r)
<1>1. CASE Ask(r) \/ Start(r) \/ Finish(r)
    BY <1>1 DEF TypeOK, OthersRest, Ask, Start, Finish, cacheVars, lmdbVars
<1>2. CASE GetCached(r)
    BY <1>2, ReturnRests, CallRests DEF TypeOK, OthersRest, GetCached, lmdbVars
<1>3. CASE BeginElsewhere(r)
    BY <1>3, ReturnRests, CallRests DEF OthersRest, BeginElsewhere, cacheVars
<1>4. CASE LockDatabase(r)
    BY <1>4, CallRests DEF OthersRest, LockDatabase, cacheVars
<1>5. CASE BeginTransaction(r)
    BY <1>5, ReturnRests DEF TypeOK, OthersRest, BeginTransaction
<1>6. CASE ReadObject(r)
    BY <1>6, ReturnRests, CallRests DEF OthersRest, ReadObject, cacheVars
<1>7. CASE UpdateObject(r)
    BY <1>7, ReturnRests, CallRests DEF OthersRest, UpdateObject, cacheVars
<1>8. CASE JournalEpilogue(r)
    BY <1>8, ReturnRests, CallRests DEF OthersRest, JournalEpilogue, cacheVars
<1>9. CASE OpenIndex(r)
    BY <1>9, ReturnRests DEF OthersRest, OpenIndex, cacheVars
<1>10. CASE UpdateIndexThrows(r) \/ CallThrows(r) \/ BeginFails(r)
    BY <1>10, ThrowRests DEF OthersRest, UpdateIndexThrows, CallThrows, BeginFails, cacheVars
<1>11. CASE Commit(r) \/ Abort(r)
    BY <1>11 DEF TypeOK, OthersRest, Commit, Abort, requestVars
<1>12. CASE CommitFails(r)
    <2>1. End(r, "failed") /\ UNCHANGED <<work, cacheVars>>
        BY <1>12 DEF CommitFails
    <2>2. QED
        BY <2>1, EndRests DEF OthersRest, cacheVars, Outcomes
<1>13. CASE CloseSessions(r)
    <2>1. PICK o \in Outcomes : End(r, o)
        BY <1>13 DEF CloseSessions, Outcomes
    <2>2. UNCHANGED <<work, begun, open>> /\ sessions' = [sessions EXCEPT ![r] = {}]
        BY <1>13 DEF CloseSessions
    <2>3. QED
        BY <2>1, <2>2, EndRests DEF OthersRest, TypeOK
<1>14. QED
    BY <1>1, <1>2, <1>3, <1>4, <1>5, <1>6, <1>7, <1>8, <1>9, <1>10, <1>11, <1>12, <1>13
    DEF Proceed, Fail

LEMMA OthersInOrder ==
    ASSUME NEW r \in Threads, OthersRest(r), WorkInOrder,
           NEW t \in Threads, t # r
    PROVE  InOrder(t)'
BY DEF OthersRest, WorkInOrder, InOrder, CallInOrder

LEMMA OthersWait ==
    ASSUME NEW r \in Threads, OthersRest(r), NEW t \in Threads, t # r, NEW a
    PROVE  Waits(t, a)' <=> Waits(t, a)
BY DEF OthersRest, Waits, Calling, Callee

-----------------------------------------------------------------------------
(* Who holds dbLock. *)

LEMMA WaitingIsFinite ==
    ASSUME NEW a
    PROVE  IsFiniteSet(Waiting(a)) /\ Cardinality(Waiting(a)) \in Nat
<1>1. Waiting(a) \subseteq Threads
    BY DEF Waiting
<1>2. QED
    BY <1>1, ThreadAssumption, FS_Subset, FS_CardinalityType

LEMMA HeldIsCounted ==
    ASSUME LockInv, NEW a \in Transactional
    PROVE  /\ writer[a] # NoThread => dbLock[a] > 0
           /\ \A r \in Threads : Waits(r, a) => dbLock[a] > 0
<1>1. /\ dbLock[a] = Cardinality(Waiting(a)) + (IF writer[a] = NoThread THEN 0 ELSE 1)
      /\ dbLock[a] \in Nat
    BY DEF LockInv, ListIsOpen, TypeOK
<1>2. ASSUME NEW r \in Threads, Waits(r, a) PROVE Cardinality(Waiting(a)) # 0
    <2>1. r \in Waiting(a)
        BY <1>2 DEF Waiting
    <2>2. QED
        BY <2>1, WaitingIsFinite, FS_EmptySet
<1>3. QED
    BY <1>1, <1>2, WaitingIsFinite

LEMMA WaitingRests ==
    ASSUME NEW r \in Threads, OthersRest(r), NEW a, Waits(r, a)' <=> Waits(r, a)
    PROVE  Waiting(a)' = Waiting(a)
BY OthersWait DEF Waiting

LEMMA WaitingGrows ==
    ASSUME NEW r \in Threads, OthersRest(r), NEW a, Waits(r, a)', ~Waits(r, a)
    PROVE  Cardinality(Waiting(a)') = Cardinality(Waiting(a)) + 1
<1>1. Waiting(a)' = Waiting(a) \cup {r} /\ r \notin Waiting(a)
    BY OthersWait DEF Waiting
<1>2. QED
    BY <1>1, WaitingIsFinite, FS_AddElement

LEMMA WaitingShrinks ==
    ASSUME NEW r \in Threads, OthersRest(r), NEW a, ~Waits(r, a)', Waits(r, a)
    PROVE  Cardinality(Waiting(a)') = Cardinality(Waiting(a)) - 1
<1>1. Waiting(a)' = Waiting(a) \ {r} /\ r \in Waiting(a)
    BY OthersWait DEF Waiting
<1>2. QED
    BY <1>1, WaitingIsFinite, FS_RemoveElement

-----------------------------------------------------------------------------
(* The invariant of the locks, in parts. *)

Listed(t) ==
    phase[t] # "idle" =>
        /\ \A i, k \in DOMAIN begun[t] : begun[t][i] = begun[t][k] => i = k
        /\ \A a \in Range(begun[t]) : a \in open[t] /\ a \in sessions[t] /\ writer[a] = t
        /\ \A a \in open[t] : writer[a] = t

Counted(a) ==
    /\ dbLock[a] = Cardinality(Waiting(a)) + (IF writer[a] = NoThread THEN 0 ELSE 1)
    /\ \A c \in staged[a] : c.by = writer[a]

LEMMA LockInvParts ==
    LockInv <=> /\ TypeOK
                /\ \A t \in Threads : InOrder(t) /\ Listed(t)
                /\ \A a \in Transactional : Counted(a)
BY DEF LockInv, WorkInOrder, OpenIsOwn, ListIsOpen, Listed, Counted

LEMMA LockInvNext ==
    ASSUME TypeOK', \A t \in Threads : InOrder(t)' /\ Listed(t)',
           \A a \in Transactional : Counted(a)'
    PROVE  LockInv'
BY DEF LockInv, WorkInOrder, OpenIsOwn, ListIsOpen, Listed, Counted

LEMMA OthersListed ==
    ASSUME NEW r \in Threads, OthersRest(r), TypeOK, NEW t \in Threads, t # r, Listed(t),
           \A a \in Transactional : writer'[a] = writer[a] \/ writer[a] \in {r, NoThread}
    PROVE  Listed(t)'
<1>1. /\ phase'[t] = phase[t] /\ sessions'[t] = sessions[t]
      /\ begun'[t] = begun[t] /\ open'[t] = open[t]
    BY DEF OthersRest
<1>2. \A a \in Transactional : writer[a] = t => writer'[a] = t
    BY ThreadAssumption
<1>3. Range(begun[t]) \subseteq Transactional /\ open[t] \subseteq Transactional
    BY BegunRange DEF TypeOK
<1>4. (Range(begun[t]))' = Range(begun[t])
    BY <1>1 DEF Range
<1>5. QED
    BY <1>1, <1>2, <1>3, <1>4 DEF Listed

(* A step that neither gets nor loses a lock. *)
LEMMA QuietStep ==
    ASSUME LockInv, NEW r \in Threads, OthersRest(r), TypeOK', InOrder(r)',
           UNCHANGED <<writer, dbLock>>,
           \/ begun'[r] = <<>> /\ open'[r] = {}
           \/ /\ begun'[r] = begun[r] /\ open'[r] = open[r] /\ phase[r] # "idle"
              /\ phase'[r] # "idle" => sessions[r] \subseteq sessions'[r],
           \A a \in Transactional : ~Waits(r, a) /\ ~Waits(r, a)',
           \A a \in Transactional : \A c \in staged'[a] : c \in staged[a] \/ c.by = writer[a]
    PROVE  LockInv'
<1>1. \A a \in Transactional : writer'[a] = writer[a]
    OBVIOUS
<1>2. ASSUME NEW t \in Threads PROVE InOrder(t)' /\ Listed(t)'
    <2>1. CASE t # r
        BY <1>1, <2>1, OthersListed, OthersInOrder, LockInvParts DEF LockInv
    <2>2. CASE t = r /\ begun'[r] = <<>> /\ open'[r] = {}
        BY <2>2 DEF Listed, Range
    <2>3. CASE /\ t = r /\ begun'[r] = begun[r] /\ open'[r] = open[r] /\ phase[r] # "idle"
               /\ phase'[r] # "idle" => sessions[r] \subseteq sessions'[r]
        <3>1. Listed(r)
            BY LockInvParts
        <3>2. (Range(begun[r]))' = Range(begun[r])
            BY <2>3 DEF Range
        <3>3. QED
            BY <2>3, <3>1, <3>2 DEF Listed
    <2>4. QED
        BY <2>1, <2>2, <2>3
<1>3. ASSUME NEW a \in Transactional PROVE Counted(a)'
    <2>1. Counted(a)
        BY LockInvParts
    <2>2. Waiting(a)' = Waiting(a)
        BY WaitingRests
    <2>3. QED
        BY <2>1, <2>2 DEF Counted
<1>4. QED
    BY <1>2, <1>3, LockInvNext

LEMMA QuietWait ==
    ASSUME NEW r \in Threads, phase[r] # "run" \/ work[r] = <<>>, NEW a
    PROVE  ~Waits(r, a)
BY DEF Waits, Calling

LEMMA OtherCallWaits ==
    ASSUME NEW r \in Threads, Head(work[r]).do \notin {"txn_begin", "txn_begin_index"}, NEW a
    PROVE  ~Waits(r, a)
BY DEF Waits, Calling

LEMMA CallingRuns ==
    ASSUME LockInv, NEW r \in Threads, NEW dos, Calling(r, dos)
    PROVE  /\ TypeOK /\ phase[r] = "run" /\ work[r] # <<>>
           /\ work[r] \in Seq(Steps) /\ 1 \in DOMAIN work[r]
           /\ Head(work[r]) = work[r][1] /\ work[r][1] \in Steps /\ work[r][1].do \in dos
           /\ Callee(r) = work[r][1].on /\ Callee(r) \in Adaptors
           /\ InOrder(r) /\ StepInOrder(work[r][1], sessions[r])
           /\ \A a \in Transactional : "txn_begin" \notin dos /\ "txn_begin_index" \notin dos
                                        => ~Waits(r, a)
<1>1. TypeOK /\ phase[r] = "run" /\ work[r] # <<>> /\ InOrder(r) /\ Head(work[r]).do \in dos
    BY LockInvParts DEF Calling
<1>2. /\ 1 \in DOMAIN work[r] /\ Head(work[r]) = work[r][1] /\ work[r][1] \in Steps
      /\ work[r] \in Seq(Steps)
    BY <1>1, NextCall DEF TypeOK
<1>3. CallInOrder(r, 1)
    BY <1>1, <1>2 DEF InOrder
<1>4. Callee(r) = work[r][1].on /\ Callee(r) \in Adaptors
    BY <1>2 DEF Callee, Steps
<1>5. QED
    BY <1>1, <1>2, <1>3, <1>4, OtherCallWaits DEF CallInOrder

-----------------------------------------------------------------------------
(* The steps that neither get nor lose a lock. *)

LEMMA StartLocks ==
    ASSUME LockInv, NEW r \in Threads, Start(r), OthersRest(r)
    PROVE  LockInv'
<1>1. TypeOK'
    BY DEF LockInv, TypeOK, Start, lmdbVars
<1>2. work'[r] = <<>> /\ work[r] = <<>> /\ phase'[r] = "run"
    BY DEF LockInv, WorkInOrder, InOrder, Start, TypeOK
<1>3. InOrder(r)'
    BY <1>2 DEF InOrder
<1>4. begun'[r] = <<>> /\ open'[r] = {}
    BY DEF Start, LockInv, TypeOK
<1>5. \A a \in Transactional : ~Waits(r, a) /\ ~Waits(r, a)'
    BY <1>2 DEF Waits, Calling
<1>6. UNCHANGED <<writer, dbLock, staged>>
    BY DEF Start, lmdbVars
<1>7. QED
    BY <1>1, <1>3, <1>4, <1>5, <1>6, QuietStep

LEMMA CallsTypes ==
    ASSUME NEW o \in Operations
    PROVE  Calls(o) \in Seq(Steps) /\ Len(Calls(o)) > 0
<1>1. o.on \in Adaptors /\ o.do \in {"update", "read", "consume", "index"}
    BY DEF Operations
<1>2. /\ Update(o.on) \in Seq(Steps) /\ Read(o.on) \in Seq(Steps)
      /\ Consume(o.on) \in Seq(Steps) /\ CreateIndex(o.on) \in Seq(Steps)
    BY <1>1, StepType DEF Update, Read, Consume, CreateIndex
<1>3. /\ Len(Update(o.on)) > 0 /\ Len(Read(o.on)) > 0
      /\ Len(Consume(o.on)) > 0 /\ Len(CreateIndex(o.on)) > 0
    BY DEF Update, Read, Consume, CreateIndex
<1>4. CASE o.do = "update"
    <2>1. Calls(o) = Update(o.on)
        BY <1>4 DEF Calls
    <2>2. QED
        BY <1>2, <1>3, <2>1, Zenon
<1>5. CASE o.do = "read"
    <2>1. Calls(o) = Read(o.on)
        BY <1>5 DEF Calls
    <2>2. QED
        BY <1>2, <1>3, <2>1, Zenon
<1>6. CASE o.do = "consume"
    <2>1. Calls(o) = Consume(o.on)
        BY <1>6 DEF Calls
    <2>2. QED
        BY <1>2, <1>3, <2>1, Zenon
<1>7. CASE o.do = "index"
    <2>1. Calls(o) = CreateIndex(o.on)
        BY <1>7 DEF Calls
    <2>2. QED
        BY <1>2, <1>3, <2>1, Zenon
<1>8. QED
    BY <1>1, <1>4, <1>5, <1>6, <1>7

LEMMA AskLocks ==
    ASSUME LockInv, NEW r \in Threads, Ask(r), OthersRest(r)
    PROVE  LockInv'
<1>1. PICK o \in Workload[r] : work' = [work EXCEPT ![r] = Calls(o)]
    BY DEF Ask
<1>2. o \in Operations /\ o.on \in Adaptors /\ o.do \in {"update", "read", "consume", "index"}
    BY AdaptorAssumption DEF Operations
<1>3. Calls(o) \in Seq(Steps) /\ Len(Calls(o)) > 0
    BY <1>2, CallsTypes
<1>4. work'[r] = Calls(o) /\ phase'[r] = "run" /\ work[r] = <<>>
    BY <1>1 DEF Ask, LockInv, TypeOK
<1>5. TypeOK'
    <2>1. work' \in [Threads -> Seq(Steps)]
        BY <1>1, <1>3 DEF LockInv, TypeOK
    <2>2. QED
        BY <2>1 DEF Ask, LockInv, TypeOK, cacheVars, lmdbVars
<1>6. ASSUME NEW i \in DOMAIN work'[r] PROVE CallInOrder(r, i)'
    <2>1. CASE o.do = "update"
        <3>1. work'[r] = Update(o.on)
            BY <1>4, <2>1 DEF Calls
        <3>2. i \in {1, 2, 3}
            BY <3>1 DEF Update
        <3>3. QED
            BY <3>1, <3>2, StepType DEF CallInOrder, StepInOrder, Update, Step, Openers, Beginners
    <2>2. CASE o.do = "read"
        <3>1. work'[r] = Read(o.on)
            BY <1>4, <2>2 DEF Calls
        <3>2. QED
            BY <3>1 DEF CallInOrder, StepInOrder, Read, Step, Openers, Beginners
    <2>3. CASE o.do = "consume"
        <3>1. work'[r] = Consume(o.on)
            BY <1>4, <2>3 DEF Calls
        <3>2. QED
            BY <3>1 DEF CallInOrder, StepInOrder, Consume, Step, Openers, Beginners
    <2>4. CASE o.do = "index"
        <3>1. work'[r] = CreateIndex(o.on)
            BY <1>4, <2>4 DEF Calls
        <3>2. QED
            BY <3>1 DEF CallInOrder, StepInOrder, CreateIndex, Step, Openers, Beginners
    <2>5. QED
        BY <1>2, <2>1, <2>2, <2>3, <2>4
<1>7. InOrder(r)'
    BY <1>4, <1>6 DEF InOrder
<1>8. Head(work'[r]).do \notin {"txn_begin", "txn_begin_index"}
    BY <1>2, <1>4 DEF Calls, Update, Read, Consume, CreateIndex, Step
<1>9. \A a \in Transactional : ~Waits(r, a) /\ ~Waits(r, a)'
    BY <1>4, <1>8 DEF Waits, Calling
<1>10. /\ UNCHANGED <<writer, dbLock, staged, begun, open, sessions, phase>>
       /\ phase[r] = "run"
    BY DEF Ask, cacheVars, lmdbVars
<1>11. QED
    BY <1>5, <1>7, <1>9, <1>10, QuietStep

LEMMA FinishLocks ==
    ASSUME LockInv, NEW r \in Threads, Finish(r), OthersRest(r)
    PROVE  LockInv'
<1>1. TypeOK'
    BY DEF LockInv, TypeOK, Finish, cacheVars, lmdbVars
<1>2. phase'[r] = "commit" /\ work'[r] = <<>> /\ work[r] = <<>>
    BY DEF Finish, LockInv, TypeOK
<1>3. InOrder(r)'
    BY <1>2 DEF InOrder
<1>4. \A a \in Transactional : ~Waits(r, a) /\ ~Waits(r, a)'
    BY <1>2 DEF Waits, Calling
<1>5. UNCHANGED <<writer, dbLock, staged, begun, open, sessions>> /\ phase[r] = "run"
    BY DEF Finish, cacheVars, lmdbVars
<1>6. QED
    BY <1>1, <1>3, <1>4, <1>5, QuietStep

LEMMA CloseSessionsLocks ==
    ASSUME LockInv, NEW r \in Threads, CloseSessions(r), OthersRest(r)
    PROVE  LockInv'
<1>1. PICK o \in Outcomes : End(r, o)
    BY DEF CloseSessions, Outcomes
<1>2. /\ UNCHANGED <<work, begun, open, lmdbVars, store, lost>>
      /\ sessions' = [sessions EXCEPT ![r] = {}] /\ phase[r] \in {"commit", "abort"}
    BY DEF CloseSessions
<1>3. TypeOK'
    BY <1>1, <1>2, EndRests DEF LockInv, TypeOK, lmdbVars
<1>4. work[r] = <<>> /\ phase'[r] = "idle" /\ work'[r] = <<>>
    BY <1>1, <1>2, EndRests, LockInvParts DEF InOrder
<1>5. InOrder(r)'
    BY <1>4 DEF InOrder
<1>6. \A a \in Transactional : ~Waits(r, a) /\ ~Waits(r, a)'
    BY <1>4 DEF Waits, Calling
<1>7. UNCHANGED <<writer, dbLock, staged, begun, open>> /\ phase[r] # "idle"
    BY <1>2 DEF lmdbVars
<1>8. QED
    BY <1>3, <1>4, <1>5, <1>6, <1>7, QuietStep

LEMMA ThrowLocks ==
    ASSUME LockInv, NEW r \in Threads, CallThrows(r) \/ UpdateIndexThrows(r), OthersRest(r)
    PROVE  LockInv'
<1>1. /\ Throw(r) /\ UNCHANGED <<operations, cacheVars, lmdbVars, store, lost, outcomes>>
      /\ TypeOK /\ phase[r] = "run"
    BY DEF CallThrows, UpdateIndexThrows, Calling, LockInv
<1>2. TypeOK'
    BY <1>1, ThrowRests DEF TypeOK, cacheVars, lmdbVars
<1>3. work'[r] = <<>> /\ phase'[r] # "idle"
    BY <1>1, ThrowRests
<1>4. InOrder(r)'
    BY <1>3 DEF InOrder
<1>5. \A a \in Transactional : ~Waits(r, a)
    BY OtherCallWaits DEF CallThrows, UpdateIndexThrows, Calling
<1>6. \A a \in Transactional : ~Waits(r, a)'
    BY <1>3 DEF Waits, Calling
<1>7. QED
    BY <1>1, <1>2, <1>3, <1>4, <1>5, <1>6, QuietStep DEF cacheVars, lmdbVars

-----------------------------------------------------------------------------
(* The steps from one call of an operation to the next. *)

(* A step that continues r with the calls of q leaves the rest of r alone.   *)
LEMMA CallStep ==
    ASSUME LockInv, NEW r \in Threads, OthersRest(r), TypeOK', phase[r] = "run",
           phase'[r] = "run", InOrder(r), work[r] # <<>>,
           Head(work[r]).do \notin {"txn_begin", "txn_begin_index"},
           NEW q \in Seq(Steps), Continued(r, q),
           Len(q) > 0 => q[1].do \notin {"txn_begin", "txn_begin_index"},
           UNCHANGED <<writer, dbLock, begun, open>>, sessions[r] \subseteq sessions'[r],
           \A a \in Transactional : \A c \in staged'[a] : c \in staged[a] \/ c.by = writer[a],
           InOrder(r)'
    PROVE  LockInv'
<1>1. \A a \in Transactional : ~Waits(r, a)'
    BY ContinuedNoWait DEF LockInv
<1>2. \A a \in Transactional : ~Waits(r, a)
    BY OtherCallWaits
<1>3. begun'[r] = begun[r] /\ open'[r] = open[r] /\ phase[r] # "idle"
    OBVIOUS
<1>4. UNCHANGED <<writer, dbLock>>
    OBVIOUS
<1>5. QED
    BY <1>1, <1>2, <1>3, <1>4, QuietStep

LEMMA NoCalls == <<>> \in Seq(Steps) /\ Len(<<>>) = 0
OBVIOUS

LEMMA OneCall ==
    ASSUME NEW s \in Steps
    PROVE  <<s>> \in Seq(Steps) /\ Len(<<s>>) = 1 /\ <<s>>[1] = s
OBVIOUS

LEMMA GetCachedLocks ==
    ASSUME LockInv, NEW r \in Threads, GetCached(r), OthersRest(r)
    PROVE  LockInv'
<1>1. /\ TypeOK /\ phase[r] = "run" /\ work[r] # <<>> /\ InOrder(r)
      /\ Head(work[r]) = work[r][1] /\ Callee(r) = work[r][1].on /\ Callee(r) \in Adaptors
      /\ work[r][1].do \in {"get_cached", "get_cached_begin"}
    BY CallingRuns DEF GetCached
<1> DEFINE b == Step("begin", Callee(r))
           q == IF Begins(r) THEN <<b>> ELSE <<>>
<1>2. b \in Steps /\ b.do = "begin" /\ b.on = Callee(r)
    BY <1>1, StepType
<1>3. q \in Seq(Steps) /\ Continued(r, q)
    BY <1>1, <1>2, NoCalls, OneCall, CallContinues, ReturnContinues DEF GetCached
<1>4. /\ UNCHANGED <<phase, begun, open, writer, dbLock, staged>>
      /\ sessions'[r] = sessions[r] \cup {Callee(r)}
      /\ sessions' \in [Threads -> SUBSET Adaptors]
    BY <1>1 DEF GetCached, TypeOK, lmdbVars
<1>5. TypeOK'
    <2>1. work' \in [Threads -> Seq(Steps)]
        BY <1>3 DEF Continued
    <2>2. QED
        BY <1>4, <2>1 DEF GetCached, LockInv, TypeOK, lmdbVars
<1>6. Range(begun[r]) \subseteq Range(begun'[r]) /\ sessions[r] \subseteq sessions'[r]
    BY <1>4
<1>7. InOrder(r)'
    <2>1. \A i \in 1..Len(q) : i = 1 /\ q[i] = b
        BY NoCalls, OneCall
    <2>2. StepInOrder(b, sessions'[r])
        BY <1>2, <1>4 DEF StepInOrder
    <2>3. \A i \in 1..Len(q) :
              /\ StepInOrder(q[i], sessions'[r])
              /\ i > 1 => q[i].do \notin Openers
              /\ (q[i].do \in {"update_object", "add_entry"} /\ q[i].on \in Transactional) =>
                    \/ q[i].on \in Range(begun'[r])
                    \/ i = 2 /\ q[1].on = q[i].on /\ q[1].do \in Beginners
              /\ q[i].do = "update_object" =>
                    i < Len(q) /\ q[i + 1].on = q[i].on /\ q[i + 1].do = "journal_epilogue"
        BY <1>2, <2>1, <2>2
    <2>4. ASSUME work[r][1].do \in Beginners
          PROVE  \/ work[r][1].on \in Range(begun'[r])
                 \/ Len(q) = 1 /\ q[1].on = work[r][1].on /\ q[1].do \in Beginners
        <3>1. Head(work[r]).do = "get_cached_begin"
            BY <1>1, <2>4 DEF Beginners
        <3>2. CASE Begins(r)
            BY <1>1, <1>2, <3>2 DEF Beginners
        <3>3. CASE ~Begins(r)
            BY <1>1, <1>4, <3>1, <3>3 DEF Begins
        <3>4. QED
            BY <3>2, <3>3
    <2>5. phase'[r] = "run"
        BY <1>1, <1>4
    <2> HIDE DEF q
    <2>6. QED
        BY <1>1, <1>3, <1>6, <2>3, <2>4, <2>5, InOrderContinued
<1>8. /\ Head(work[r]).do \notin {"txn_begin", "txn_begin_index"}
      /\ Len(q) > 0 => q[1].do \notin {"txn_begin", "txn_begin_index"}
      /\ phase'[r] = "run"
    BY <1>1, <1>2, <1>4
<1> HIDE DEF q
<1>9. QED
    BY <1>1, <1>3, <1>4, <1>5, <1>6, <1>7, <1>8, CallStep

(* The condition on the new calls, when there is none or one. *)
LEMMA SimpleCallLocks ==
    ASSUME LockInv, NEW r \in Threads, OthersRest(r), TypeOK', phase[r] = "run",
           InOrder(r), work[r] # <<>>,
           Head(work[r]).do \notin {"txn_begin", "txn_begin_index"},
           UNCHANGED <<phase, cacheVars, writer, dbLock>>,
           \A a \in Transactional : \A c \in staged'[a] : c \in staged[a] \/ c.by = writer[a],
           \/ Continued(r, <<>>)
           \/ \E s \in Steps :
                 /\ Continued(r, <<s>>) /\ StepInOrder(s, sessions[r])
                 /\ s.do \notin {"txn_begin", "txn_begin_index", "update_object", "add_entry"},
           work[r][1].do \in Beginners => work[r][1].on \notin Transactional
    PROVE  LockInv'
<1> DEFINE Fits(q) ==
             /\ q \in Seq(Steps) /\ Continued(r, q)
             /\ \A i \in 1..Len(q) :
                   /\ i = 1 /\ StepInOrder(q[1], sessions[r])
                   /\ q[1].do \notin {"txn_begin", "txn_begin_index", "update_object", "add_entry"}
             /\ Len(q) > 0 => q[1].do \notin {"txn_begin", "txn_begin_index"}
<1>1. \E q : Fits(q)
    <2>1. CASE Continued(r, <<>>)
        <3>1. Fits(<<>>)
            BY <2>1, NoCalls
        <3>2. QED
            BY <3>1
    <2>2. ASSUME NEW s \in Steps, Continued(r, <<s>>), StepInOrder(s, sessions[r]),
                 s.do \notin {"txn_begin", "txn_begin_index", "update_object", "add_entry"}
          PROVE  \E q : Fits(q)
        <3>1. /\ <<s>> \in Seq(Steps) /\ Len(<<s>>) = 1 /\ <<s>>[1] = s
            BY OneCall
        <3>2. Fits(<<s>>)
            BY <2>2, <3>1
        <3>3. QED
            BY <3>2
    <2>3. QED
        BY <2>1, <2>2
<1>7. PICK q : Fits(q)
    BY <1>1
<1>2. /\ sessions[r] \subseteq sessions'[r] /\ sessions'[r] = sessions[r]
      /\ Range(begun[r]) \subseteq Range(begun'[r])
      /\ phase'[r] = "run" /\ TypeOK
    BY DEF cacheVars, LockInv
<1>3. \A i \in 1..Len(q) :
              /\ StepInOrder(q[i], sessions'[r])
              /\ i > 1 => q[i].do \notin Openers
              /\ (q[i].do \in {"update_object", "add_entry"} /\ q[i].on \in Transactional) =>
                    \/ q[i].on \in Range(begun'[r])
                    \/ i = 2 /\ q[1].on = q[i].on /\ q[1].do \in Beginners
              /\ q[i].do = "update_object" =>
                    i < Len(q) /\ q[i + 1].on = q[i].on /\ q[i + 1].do = "journal_epilogue"
    BY <1>7, <1>2
<1>4. InOrder(r)'
    BY <1>7, <1>2, <1>3, InOrderContinued
<1>5. UNCHANGED <<writer, dbLock, begun, open>>
    BY DEF cacheVars
<1>6. QED
    BY <1>7, <1>2, <1>4, <1>5, CallStep

LEMMA BeginElsewhereLocks ==
    ASSUME LockInv, NEW r \in Threads, BeginElsewhere(r), OthersRest(r)
    PROVE  LockInv'
<1>1. /\ TypeOK /\ phase[r] = "run" /\ work[r] # <<>> /\ InOrder(r)
      /\ Head(work[r]) = work[r][1] /\ Callee(r) = work[r][1].on /\ Callee(r) \in Adaptors
      /\ work[r][1].do \in {"begin"}
    BY CallingRuns DEF BeginElsewhere
<1>2. UNCHANGED <<phase, operations, caught, cacheVars, lmdbVars, store, lost, outcomes>>
      /\ Callee(r) \notin Transactional
    BY DEF BeginElsewhere
<1>3. \/ Continued(r, <<>>)
      \/ \E s \in Steps :
             /\ Continued(r, <<s>>) /\ StepInOrder(s, sessions[r])
             /\ s.do \notin {"txn_begin", "txn_begin_index", "update_object", "add_entry"}
    <2>1. CASE Callee(r) \in Models
        <3> DEFINE s == Step("get_cached_begin", MappedTo[Callee(r)])
        <3>1. MappedTo[Callee(r)] \in Adaptors
            BY <2>1, AdaptorAssumption
        <3>2. s \in Steps /\ s.do = "get_cached_begin"
            BY <3>1, StepType
        <3>3. Call(r, <<s>>)
            BY <2>1 DEF BeginElsewhere
        <3>4. Continued(r, <<s>>) /\ StepInOrder(s, sessions[r])
            BY <1>1, <3>2, <3>3, OneCall, CallContinues DEF StepInOrder
        <3>5. QED
            BY <3>2, <3>4
    <2>2. CASE Callee(r) \notin Models
        BY <1>1, <2>2, ReturnContinues DEF BeginElsewhere
    <2>3. QED
        BY <2>1, <2>2
<1>4. work' \in [Threads -> Seq(Steps)]
    BY <1>3 DEF Continued
<1>5. TypeOK'
    BY <1>1, <1>2, <1>4 DEF TypeOK, cacheVars, lmdbVars
<1>6. /\ UNCHANGED <<phase, cacheVars, writer, dbLock>>
      /\ \A a \in Transactional : \A c \in staged'[a] : c \in staged[a] \/ c.by = writer[a]
      /\ Head(work[r]).do \notin {"txn_begin", "txn_begin_index"}
    BY <1>1, <1>2 DEF lmdbVars
<1>7. QED
    BY <1>1, <1>2, <1>3, <1>5, <1>6, SimpleCallLocks

LEMMA OpenIndexLocks ==
    ASSUME LockInv, NEW r \in Threads, OpenIndex(r), OthersRest(r)
    PROVE  LockInv'
<1>1. /\ TypeOK /\ phase[r] = "run" /\ work[r] # <<>> /\ InOrder(r)
      /\ Head(work[r]) = work[r][1] /\ work[r][1].do \in {"open_index"}
    BY CallingRuns DEF OpenIndex
<1>2. UNCHANGED <<phase, operations, caught, cacheVars, lmdbVars, store, lost, outcomes>>
    BY DEF OpenIndex
<1>3. Continued(r, <<>>)
    BY <1>1, ReturnContinues DEF OpenIndex
<1>4. work' \in [Threads -> Seq(Steps)]
    BY <1>3 DEF Continued
<1>5. TypeOK'
    BY <1>1, <1>2, <1>4 DEF TypeOK, cacheVars, lmdbVars
<1>6. /\ UNCHANGED <<phase, cacheVars, writer, dbLock>>
      /\ \A a \in Transactional : \A c \in staged'[a] : c \in staged[a] \/ c.by = writer[a]
      /\ Head(work[r]).do \notin {"txn_begin", "txn_begin_index"}
      /\ work[r][1].do \notin Beginners
    BY <1>1, <1>2 DEF lmdbVars, Beginners
<1>7. QED
    BY <1>1, <1>2, <1>3, <1>5, <1>6, SimpleCallLocks

LEMMA TwoCalls ==
    ASSUME NEW s \in Steps, NEW t \in Steps
    PROVE  <<s, t>> \in Seq(Steps) /\ Len(<<s, t>>) = 2 /\ <<s, t>>[1] = s /\ <<s, t>>[2] = t
OBVIOUS

LEMMA ThreeCalls ==
    ASSUME NEW s \in Steps, NEW t \in Steps, NEW u \in Steps
    PROVE  /\ <<s, t, u>> \in Seq(Steps) /\ Len(<<s, t, u>>) = 3
           /\ <<s, t, u>>[1] = s /\ <<s, t, u>>[2] = t /\ <<s, t, u>>[3] = u
OBVIOUS

LEMMA ReadObjectLocks ==
    ASSUME LockInv, NEW r \in Threads, ReadObject(r), OthersRest(r)
    PROVE  LockInv'
<1>1. /\ TypeOK /\ phase[r] = "run" /\ work[r] # <<>> /\ InOrder(r)
      /\ Head(work[r]) = work[r][1] /\ work[r][1].do \in {"read_object"}
      /\ Callee(r) \in Adaptors
    BY CallingRuns DEF ReadObject
<1>2. UNCHANGED <<phase, operations, caught, cacheVars, lmdbVars, store, lost, outcomes>>
    BY DEF ReadObject
<1>3. /\ UNCHANGED <<phase, cacheVars, writer, dbLock>>
      /\ \A a \in Transactional : \A c \in staged'[a] : c \in staged[a] \/ c.by = writer[a]
      /\ Head(work[r]).do \notin {"txn_begin", "txn_begin_index"}
      /\ work[r][1].do \notin Beginners
    BY <1>1, <1>2 DEF lmdbVars, Beginners
<1>4. CASE Callee(r) \notin Models
    <2>1. Continued(r, <<>>)
        BY <1>1, <1>4, ReturnContinues DEF ReadObject
    <2>2. work' \in [Threads -> Seq(Steps)]
        BY <2>1 DEF Continued
    <2>3. TypeOK'
        BY <1>1, <1>2, <2>2 DEF TypeOK, cacheVars, lmdbVars
    <2>4. QED
        BY <1>1, <1>2, <1>3, <2>1, <2>3, SimpleCallLocks
<1>5. CASE Callee(r) \in Models
    <2> DEFINE a == MappedTo[Callee(r)]
               q == Read(a)
    <2>1. a \in Adaptors
        BY <1>5, AdaptorAssumption
    <2>2. /\ q \in Seq(Steps) /\ Len(q) = 2
          /\ q[1] = Step("get_cached", a) /\ q[2] = Step("read_object", a)
        BY <2>1, StepType, TwoCalls DEF Read
    <2>3. Call(r, q)
        BY <1>5 DEF ReadObject
    <2> HIDE DEF q
    <2>4. Continued(r, q)
        BY <1>1, <2>2, <2>3, CallContinues
    <2>5. work' \in [Threads -> Seq(Steps)]
        BY <2>4 DEF Continued
    <2>6. TypeOK'
        BY <1>1, <1>2, <2>5 DEF TypeOK, cacheVars, lmdbVars
    <2>7. \A i \in 1..Len(q) :
              /\ StepInOrder(q[i], sessions'[r])
              /\ i > 1 => q[i].do \notin Openers
              /\ (q[i].do \in {"update_object", "add_entry"} /\ q[i].on \in Transactional) =>
                    \/ q[i].on \in Range(begun'[r])
                    \/ i = 2 /\ q[1].on = q[i].on /\ q[1].do \in Beginners
              /\ q[i].do = "update_object" =>
                    i < Len(q) /\ q[i + 1].on = q[i].on /\ q[i + 1].do = "journal_epilogue"
        <3>1. \A i \in 1..Len(q) : i \in {1, 2} /\ q[i].do \in {"get_cached", "read_object"}
            BY <2>1, <2>2, StepType
        <3>2. q[2].do = "read_object"
            BY <2>1, <2>2, StepType
        <3>3. QED
            BY <3>1, <3>2 DEF StepInOrder, Openers
    <2>8. /\ phase'[r] = "run" /\ sessions[r] \subseteq sessions'[r]
          /\ Range(begun[r]) \subseteq Range(begun'[r])
          /\ UNCHANGED <<writer, dbLock, begun, open>>
        BY <1>1, <1>2 DEF cacheVars, lmdbVars
    <2>9. InOrder(r)'
        BY <1>1, <1>3, <2>2, <2>4, <2>7, <2>8, InOrderContinued
    <2>10. q[1].do \notin {"txn_begin", "txn_begin_index"}
        BY <2>1, <2>2, StepType
    <2>11. QED
        BY <1>1, <1>3, <2>2, <2>4, <2>6, <2>8, <2>9, <2>10, CallStep
<1>6. QED
    BY <1>4, <1>5

LEMMA WriteEffect ==
    ASSUME LockInv, NEW r \in Threads, Calling(r, {"update_object", "add_entry"}), Write(r)
    PROVE  LET c == Change(r, Head(work[r])) IN
           /\ c \in Changes /\ c.by = r
           /\ staged' \in [Transactional -> SUBSET Changes]
           /\ store' \in [Adaptors -> SUBSET Changes]
           /\ \A a \in Transactional :
                 \/ staged'[a] = staged[a]
                 \/ a = Callee(r) /\ a \in open[r] /\ staged'[a] = staged[a] \cup {c}
           /\ \A a \in Adaptors :
                 \/ store'[a] = store[a]
                 \/ a = Callee(r) /\ a \notin open[r] /\ store'[a] = store[a] \cup {c}
<1> DEFINE c == Change(r, Head(work[r]))
<1>1. TypeOK /\ Head(work[r]) \in Steps /\ Callee(r) \in Adaptors
    BY CallingRuns
<1>2. c \in Changes /\ c.by = r
    BY <1>1, ChangeType
<1> HIDE DEF c
<1>3. CASE Callee(r) \in open[r]
    <2>1. /\ staged' = [staged EXCEPT ![Callee(r)] = @ \cup {c}]
          /\ UNCHANGED store
        BY <1>3 DEF Write, c
    <2>2. Callee(r) \in Transactional
        BY <1>1, <1>3 DEF TypeOK
    <2>3. QED
        BY <1>1, <1>2, <1>3, <2>1, <2>2 DEF TypeOK, c
<1>4. CASE Callee(r) \notin open[r]
    <2>1. /\ store' = [store EXCEPT ![Callee(r)] = @ \cup {c}]
          /\ UNCHANGED staged
        BY <1>4 DEF Write, c
    <2>2. QED
        BY <1>1, <1>2, <1>4, <2>1 DEF TypeOK, c
<1>5. QED
    BY <1>3, <1>4

LEMMA UpdateObjectLocks ==
    ASSUME LockInv, NEW r \in Threads, UpdateObject(r), OthersRest(r)
    PROVE  LockInv'
<1>1. /\ TypeOK /\ phase[r] = "run" /\ work[r] # <<>> /\ InOrder(r)
      /\ Head(work[r]) = work[r][1] /\ work[r][1].do \in {"update_object", "add_entry"}
      /\ Callee(r) \in Adaptors
    BY CallingRuns DEF UpdateObject
<1>2. UNCHANGED <<phase, operations, caught, cacheVars, writer, dbLock, lost, outcomes>>
    BY DEF UpdateObject
<1>3. /\ UNCHANGED <<phase, cacheVars, writer, dbLock>>
      /\ Head(work[r]).do \notin {"txn_begin", "txn_begin_index"}
      /\ work[r][1].do \notin Beginners
    BY <1>1, <1>2 DEF Beginners
<1>4. CASE Callee(r) \notin Models
    <2>1. Write(r) /\ Return(r) /\ Calling(r, {"update_object", "add_entry"})
        BY <1>4 DEF UpdateObject
    <2>2. Continued(r, <<>>)
        BY <1>1, <2>1, ReturnContinues
    <2>3. work' \in [Threads -> Seq(Steps)]
        BY <2>2 DEF Continued
    <2>4. /\ staged' \in [Transactional -> SUBSET Changes]
          /\ store' \in [Adaptors -> SUBSET Changes]
        BY <2>1, WriteEffect
    <2>5. TypeOK'
        BY <1>1, <1>2, <2>3, <2>4 DEF TypeOK, cacheVars
    <2>6. \A a \in Transactional : a \in open[r] => writer[a] = r
        BY <1>1 DEF LockInv, OpenIsOwn
    <2>7. \A a \in Transactional : \A c \in staged'[a] : c \in staged[a] \/ c.by = writer[a]
        BY <2>1, <2>6, WriteEffect
    <2>8. QED
        BY <1>1, <1>3, <2>2, <2>5, <2>7, SimpleCallLocks
<1>5. CASE Callee(r) \in Models
    <2> DEFINE a == MappedTo[Callee(r)]
               q == Update(a)
    <2>1. a \in Adaptors
        BY <1>5, AdaptorAssumption
    <2>2. /\ q \in Seq(Steps) /\ Len(q) = 3
          /\ q[1] = Step("get_cached_begin", a) /\ q[2] = Step("update_object", a)
          /\ q[3] = Step("journal_epilogue", a)
        BY <2>1, StepType, ThreeCalls DEF Update
    <2>3. Call(r, q) /\ UNCHANGED <<staged, store>>
        BY <1>5 DEF UpdateObject, Mapped
    <2> HIDE DEF q
    <2>4. Continued(r, q)
        BY <1>1, <2>2, <2>3, CallContinues
    <2>5. work' \in [Threads -> Seq(Steps)]
        BY <2>4 DEF Continued
    <2>6. TypeOK'
        BY <1>1, <1>2, <2>3, <2>5 DEF TypeOK, cacheVars
    <2>7. \A i \in 1..Len(q) :
              /\ StepInOrder(q[i], sessions'[r])
              /\ i > 1 => q[i].do \notin Openers
              /\ (q[i].do \in {"update_object", "add_entry"} /\ q[i].on \in Transactional) =>
                    \/ q[i].on \in Range(begun'[r])
                    \/ i = 2 /\ q[1].on = q[i].on /\ q[1].do \in Beginners
              /\ q[i].do = "update_object" =>
                    i < Len(q) /\ q[i + 1].on = q[i].on /\ q[i + 1].do = "journal_epilogue"
        <3>1. /\ q[1].do = "get_cached_begin" /\ q[1].on = a
              /\ q[2].do = "update_object" /\ q[2].on = a /\ q[2].of = a
              /\ q[3].do = "journal_epilogue" /\ q[3].on = a
            BY <2>1, <2>2, StepType
        <3>2. \A i \in 1..Len(q) : i = 1 \/ i = 2 \/ i = 3
            BY <2>2
        <3>3. QED
            BY <2>2, <3>1, <3>2 DEF StepInOrder, Openers, Beginners
    <2>8. /\ phase'[r] = "run" /\ sessions[r] \subseteq sessions'[r]
          /\ Range(begun[r]) \subseteq Range(begun'[r])
          /\ UNCHANGED <<writer, dbLock, begun, open>>
        BY <1>1, <1>2 DEF cacheVars
    <2>9. InOrder(r)'
        BY <1>1, <1>3, <2>2, <2>4, <2>7, <2>8, InOrderContinued
    <2>10. /\ q[1].do \notin {"txn_begin", "txn_begin_index"}
           /\ \A b \in Transactional : \A c \in staged'[b] : c \in staged[b] \/ c.by = writer[b]
        BY <2>1, <2>2, <2>3, StepType
    <2>11. QED
        BY <1>1, <1>3, <2>2, <2>4, <2>6, <2>8, <2>9, <2>10, CallStep
<1>6. QED
    BY <1>4, <1>5

LEMMA JournalEpilogueLocks ==
    ASSUME LockInv, NEW r \in Threads, JournalEpilogue(r), OthersRest(r)
    PROVE  LockInv'
<1>1. /\ TypeOK /\ phase[r] = "run" /\ work[r] # <<>> /\ InOrder(r)
      /\ Head(work[r]) = work[r][1] /\ work[r][1].do \in {"journal_epilogue"}
      /\ Callee(r) \in Adaptors
    BY CallingRuns DEF JournalEpilogue
<1>2. UNCHANGED <<phase, operations, caught, cacheVars, lmdbVars, store, lost, outcomes>>
    BY DEF JournalEpilogue
<1>3. /\ UNCHANGED <<phase, cacheVars, writer, dbLock>>
      /\ \A a \in Transactional : \A c \in staged'[a] : c \in staged[a] \/ c.by = writer[a]
      /\ Head(work[r]).do \notin {"txn_begin", "txn_begin_index"}
      /\ work[r][1].do \notin Beginners
    BY <1>1, <1>2 DEF lmdbVars, Beginners
<1>4. CASE Callee(r) \notin DOMAIN JournalOf
    <2>1. Continued(r, <<>>)
        BY <1>1, <1>4, ReturnContinues DEF JournalEpilogue
    <2>2. work' \in [Threads -> Seq(Steps)]
        BY <2>1 DEF Continued
    <2>3. TypeOK'
        BY <1>1, <1>2, <2>2 DEF TypeOK, cacheVars, lmdbVars
    <2>4. QED
        BY <1>1, <1>2, <1>3, <2>1, <2>3, SimpleCallLocks
<1>5. CASE Callee(r) \in DOMAIN JournalOf
    <2> DEFINE a == Callee(r)
               j == JournalOf[a]
               q == <<Step("get_cached_begin", j), EntryStep(j, a)>>
    <2>1. j \in Adaptors
        BY <1>5, AdaptorAssumption
    <2>2. /\ q \in Seq(Steps) /\ Len(q) = 2
          /\ q[1] = Step("get_cached_begin", j) /\ q[2] = EntryStep(j, a)
        BY <1>1, <2>1, StepType, EntryStepType, TwoCalls
    <2>3. Call(r, q)
        BY <1>5 DEF JournalEpilogue
    <2> HIDE DEF q
    <2>4. Continued(r, q)
        BY <1>1, <2>2, <2>3, CallContinues
    <2>5. work' \in [Threads -> Seq(Steps)]
        BY <2>4 DEF Continued
    <2>6. TypeOK'
        BY <1>1, <1>2, <2>5 DEF TypeOK, cacheVars, lmdbVars
    <2>7. \A i \in 1..Len(q) :
              /\ StepInOrder(q[i], sessions'[r])
              /\ i > 1 => q[i].do \notin Openers
              /\ (q[i].do \in {"update_object", "add_entry"} /\ q[i].on \in Transactional) =>
                    \/ q[i].on \in Range(begun'[r])
                    \/ i = 2 /\ q[1].on = q[i].on /\ q[1].do \in Beginners
              /\ q[i].do = "update_object" =>
                    i < Len(q) /\ q[i + 1].on = q[i].on /\ q[i + 1].do = "journal_epilogue"
        <3>1. /\ q[1].do = "get_cached_begin" /\ q[1].on = j
              /\ q[2].do = "add_entry" /\ q[2].on = j /\ q[2].of = a
            BY <1>1, <2>1, <2>2, StepType, EntryStepType
        <3>2. \A i \in 1..Len(q) : i = 1 \/ i = 2
            BY <2>2
        <3>3. QED
            BY <1>5, <2>2, <3>1, <3>2 DEF StepInOrder, Openers, Beginners
    <2>8. /\ phase'[r] = "run" /\ sessions[r] \subseteq sessions'[r]
          /\ Range(begun[r]) \subseteq Range(begun'[r])
          /\ UNCHANGED <<writer, dbLock, begun, open>>
        BY <1>1, <1>2 DEF cacheVars, lmdbVars
    <2>9. InOrder(r)'
        BY <1>1, <1>3, <2>2, <2>4, <2>7, <2>8, InOrderContinued
    <2>10. q[1].do \notin {"txn_begin", "txn_begin_index"}
        BY <2>1, <2>2, StepType
    <2>11. QED
        BY <1>1, <1>3, <2>2, <2>4, <2>6, <2>8, <2>9, <2>10, CallStep
<1>6. QED
    BY <1>4, <1>5

-----------------------------------------------------------------------------
(* The steps that get a lock. *)

LEMMA ReturnInOrder ==
    ASSUME TypeOK, NEW r \in Threads, InOrder(r), phase[r] = "run", work[r] # <<>>,
           Continued(r, <<>>), phase'[r] = "run",
           sessions[r] \subseteq sessions'[r], Range(begun[r]) \subseteq Range(begun'[r]),
           work[r][1].do \in Beginners => work[r][1].on \in Range(begun'[r])
    PROVE  InOrder(r)'
<1>1. PICK q \in Seq(Steps) : q = <<>>
    BY NoCalls
<1>2. Continued(r, q) /\ Len(q) = 0
    BY <1>1, NoCalls
<1>3. \A i \in 1..Len(q) : FALSE
    BY <1>2
<1>4. QED
    BY <1>2, <1>3, InOrderContinued

LEMMA ReturnNoWait ==
    ASSUME TypeOK, NEW r \in Threads, InOrder(r), work[r] # <<>>, Continued(r, <<>>)
    PROVE  \A a \in Transactional : ~Waits(r, a)'
<1>1. PICK q \in Seq(Steps) : q = <<>>
    BY NoCalls
<1>2. Continued(r, q) /\ Len(q) = 0
    BY <1>1, NoCalls
<1>3. Len(q) > 0 => q[1].do \notin {"txn_begin", "txn_begin_index"}
    BY <1>2
<1>4. QED
    BY <1>2, <1>3, ContinuedNoWait

LEMMA LockDatabaseLocks ==
    ASSUME LockInv, NEW r \in Threads, LockDatabase(r), OthersRest(r)
    PROVE  LockInv'
<1>0. PICK a : a = Callee(r)
    OBVIOUS
<1> DEFINE s == Step(IF Head(work[r]).do = "begin" THEN "txn_begin" ELSE "txn_begin_index", a)
           q == <<s>>
<1>1. /\ TypeOK /\ phase[r] = "run" /\ work[r] # <<>> /\ InOrder(r)
      /\ Head(work[r]) = work[r][1] /\ work[r][1].do \in {"begin", "begin_index"}
      /\ a \in Adaptors /\ a = work[r][1].on
      /\ StepInOrder(work[r][1], sessions[r])
      /\ \A b \in Transactional : ~Waits(r, b)
    BY <1>0, CallingRuns DEF LockDatabase
<1>2. /\ UNCHANGED <<phase, operations, caught, cacheVars, writer, staged, store, lost, outcomes>>
      /\ a \in Transactional /\ dbLock' = [dbLock EXCEPT ![a] = @ + 1]
      /\ Call(r, q)
    BY <1>0 DEF LockDatabase
<1>3. /\ s \in Steps /\ s.on = a /\ s.do \in {"txn_begin", "txn_begin_index"}
      /\ s.do = "txn_begin" <=> work[r][1].do = "begin"
    BY <1>1, StepType
<1> HIDE DEF s
<1>4. q \in Seq(Steps) /\ Len(q) = 1 /\ q[1] = s
    BY <1>3, OneCall
<1> HIDE DEF q
<1>5. Continued(r, q)
    BY <1>1, <1>2, <1>4, CallContinues
<1>6. /\ dbLock' \in [Transactional -> Nat] /\ dbLock'[a] = dbLock[a] + 1
      /\ \A b \in Transactional : b # a => dbLock'[b] = dbLock[b]
    BY <1>1, <1>2 DEF TypeOK
<1>7. work' \in [Threads -> Seq(Steps)]
    BY <1>5 DEF Continued
<1>8. TypeOK'
    BY <1>1, <1>2, <1>6, <1>7 DEF TypeOK, cacheVars
<1>9. /\ phase'[r] = "run" /\ sessions'[r] = sessions[r] /\ begun'[r] = begun[r]
      /\ open'[r] = open[r] /\ Range(begun[r]) \subseteq Range(begun'[r])
      /\ UNCHANGED writer
    BY <1>1, <1>2 DEF cacheVars
<1>10. InOrder(r)'
    <2>1. StepInOrder(s, sessions'[r])
        BY <1>1, <1>2, <1>3, <1>9 DEF StepInOrder
    <2>2. \A i \in 1..Len(q) :
              /\ StepInOrder(q[i], sessions'[r])
              /\ i > 1 => q[i].do \notin Openers
              /\ (q[i].do \in {"update_object", "add_entry"} /\ q[i].on \in Transactional) =>
                    \/ q[i].on \in Range(begun'[r])
                    \/ i = 2 /\ q[1].on = q[i].on /\ q[1].do \in Beginners
              /\ q[i].do = "update_object" =>
                    i < Len(q) /\ q[i + 1].on = q[i].on /\ q[i + 1].do = "journal_epilogue"
        BY <1>3, <1>4, <2>1
    <2>3. work[r][1].do \in Beginners =>
              Len(q) = 1 /\ q[1].on = work[r][1].on /\ q[1].do \in Beginners
        BY <1>1, <1>3, <1>4 DEF Beginners
    <2>4. QED
        BY <1>1, <1>4, <1>5, <1>9, <2>2, <2>3, InOrderContinued
<1>11. Waits(r, a)' /\ \A b \in Transactional : b # a => ~Waits(r, b)'
    <2>1. work'[r] # <<>> /\ Head(work'[r]) = s
        <3>1. work'[r] \in Seq(Steps) /\ work'[r][1] = s /\ Len(work'[r]) > 0
            BY <1>1, <1>4, <1>5, NextCall DEF Continued
        <3>2. QED
            BY <3>1
    <2>2. QED
        BY <1>3, <1>9, <2>1 DEF Waits, Calling, Callee
<1>12. ASSUME NEW b \in Transactional PROVE Counted(b)'
    <2>1. Counted(b) /\ dbLock[b] \in Nat /\ Cardinality(Waiting(b)) \in Nat
        BY <1>1, LockInvParts, WaitingIsFinite DEF TypeOK
    <2>2. CASE b = a
        <3>1. Cardinality(Waiting(b)') = Cardinality(Waiting(b)) + 1
            BY <1>1, <1>11, <2>2, WaitingGrows
        <3>2. QED
            BY <1>2, <1>6, <2>1, <2>2, <3>1 DEF Counted
    <2>3. CASE b # a
        <3>1. Waiting(b)' = Waiting(b)
            BY <1>1, <1>11, <2>3, WaitingRests
        <3>2. QED
            BY <1>2, <1>6, <2>1, <2>3, <3>1 DEF Counted
    <2>4. QED
        BY <2>2, <2>3
<1>13. ASSUME NEW t \in Threads PROVE InOrder(t)' /\ Listed(t)'
    <2>1. CASE t # r
        BY <1>1, <1>9, <2>1, OthersListed, OthersInOrder, LockInvParts DEF LockInv
    <2>2. CASE t = r
        <3>1. Listed(r)
            BY LockInvParts
        <3>2. Listed(r)'
            BY <1>1, <1>9, <3>1 DEF Listed, Range
        <3>3. QED
            BY <1>10, <2>2, <3>2
    <2>3. QED
        BY <2>1, <2>2
<1>14. QED
    BY <1>8, <1>12, <1>13, LockInvNext

LEMMA BeginTransactionLocks ==
    ASSUME LockInv, NEW r \in Threads, BeginTransaction(r), OthersRest(r)
    PROVE  LockInv'
<1>0. PICK a : a = Callee(r)
    OBVIOUS
<1>1. /\ TypeOK /\ phase[r] = "run" /\ work[r] # <<>> /\ InOrder(r)
      /\ Head(work[r]) = work[r][1] /\ work[r][1].do \in {"txn_begin", "txn_begin_index"}
      /\ a \in Adaptors /\ a = work[r][1].on
      /\ StepInOrder(work[r][1], sessions[r])
    BY <1>0, CallingRuns DEF BeginTransaction
<1>2. a \in Transactional /\ writer[a] = NoThread
    BY <1>0, <1>1 DEF StepInOrder, BeginTransaction
<1>3. /\ UNCHANGED <<phase, operations, caught, sessions, dbLock, staged, store, lost, outcomes>>
      /\ writer' = [writer EXCEPT ![a] = r]
      /\ open' = [open EXCEPT ![r] = @ \cup {a}]
      /\ begun' = [begun EXCEPT ![r] = IF work[r][1].do = "txn_begin" THEN Append(@, a) ELSE @]
      /\ Return(r)
    BY <1>0, <1>1 DEF BeginTransaction
<1>4. Continued(r, <<>>)
    BY <1>1, <1>3, ReturnContinues
<1>5. /\ begun[r] \in Seq(Transactional) /\ Append(begun[r], a) \in Seq(Transactional)
      /\ begun'[r] = IF work[r][1].do = "txn_begin" THEN Append(begun[r], a) ELSE begun[r]
      /\ begun' \in [Threads -> Seq(Transactional)]
    BY <1>1, <1>2, <1>3 DEF TypeOK
<1>6. /\ writer'[a] = r /\ \A b \in Transactional : b # a => writer'[b] = writer[b]
      /\ writer' \in [Transactional -> Threads \cup {NoThread}]
      /\ open'[r] = open[r] \cup {a} /\ open' \in [Threads -> SUBSET Transactional]
    BY <1>1, <1>2, <1>3 DEF TypeOK
<1>7. work' \in [Threads -> Seq(Steps)]
    BY <1>4 DEF Continued
<1>8. TypeOK'
    BY <1>1, <1>3, <1>5, <1>6, <1>7 DEF TypeOK
<1>9. Listed(r) /\ phase[r] # "idle"
    BY <1>1, LockInvParts
<1>10. a \notin Range(begun[r])
    BY <1>2, <1>9, ThreadAssumption DEF Listed
<1>11. /\ Range(begun'[r]) = IF work[r][1].do = "txn_begin" THEN Range(begun[r]) \cup {a}
                             ELSE Range(begun[r])
       /\ \A i, k \in DOMAIN begun'[r] : begun'[r][i] = begun'[r][k] => i = k
    <2>1. CASE work[r][1].do = "txn_begin"
        <3>1. /\ Len(begun[r]) \in Nat /\ DOMAIN begun[r] = 1..Len(begun[r])
              /\ DOMAIN begun'[r] = 1..(Len(begun[r]) + 1)
              /\ \A i \in 1..Len(begun[r]) : begun'[r][i] = begun[r][i]
              /\ begun'[r][Len(begun[r]) + 1] = a
            BY <1>5, <2>1, AppendProperties
        <3>2. \A i \in 1..Len(begun[r]) : begun[r][i] # a
            BY <1>10, <3>1 DEF Range
        <3>3. \A i, k \in DOMAIN begun'[r] : begun'[r][i] = begun'[r][k] => i = k
            <4>1. \A i, k \in 1..Len(begun[r]) : begun[r][i] = begun[r][k] => i = k
                BY <1>9, <3>1 DEF Listed
            <4>2. \A i \in DOMAIN begun'[r] : i \in 1..Len(begun[r]) \/ i = Len(begun[r]) + 1
                BY <3>1
            <4>3. QED
                BY <3>1, <3>2, <4>1, <4>2
        <3>4. Range(begun'[r]) = Range(begun[r]) \cup {a}
            <4>1. Len(begun[r]) + 1 \in DOMAIN begun'[r] /\ DOMAIN begun[r] \subseteq DOMAIN begun'[r]
                BY <3>1
            <4>2. \A i \in DOMAIN begun'[r] : i \in DOMAIN begun[r] \/ i = Len(begun[r]) + 1
                BY <3>1
            <4>3. QED
                BY <3>1, <4>1, <4>2 DEF Range
        <3>5. QED
            BY <2>1, <3>3, <3>4
    <2>2. CASE work[r][1].do # "txn_begin"
        BY <1>5, <1>9, <2>2 DEF Listed
    <2>3. QED
        BY <2>1, <2>2
<1>12. Listed(r)'
    <2>1. work[r][1].do = "txn_begin" => a \in sessions[r]
        BY <1>1 DEF StepInOrder
    <2>2. Range(begun[r]) \subseteq Transactional /\ open[r] \subseteq Transactional
        BY <1>1, BegunRange DEF TypeOK
    <2>3. ASSUME NEW b \in Range(begun'[r])
          PROVE  b \in open'[r] /\ b \in sessions'[r] /\ writer'[b] = r
        BY <1>3, <1>6, <1>9, <1>11, <2>1, <2>2 DEF Listed
    <2>4. \A b \in open'[r] : writer'[b] = r
        BY <1>6, <1>9, <2>2 DEF Listed
    <2>5. QED
        BY <1>11, <2>3, <2>4 DEF Listed
<1>13. InOrder(r)'
    <2>1. /\ phase'[r] = "run" /\ sessions[r] \subseteq sessions'[r]
          /\ Range(begun[r]) \subseteq Range(begun'[r])
        BY <1>1, <1>3, <1>11
    <2>2. work[r][1].do \in Beginners => work[r][1].on \in Range(begun'[r])
        BY <1>1, <1>11 DEF Beginners
    <2>3. QED
        BY <1>1, <1>4, <2>1, <2>2, ReturnInOrder
<1>14. /\ Waits(r, a) /\ \A b \in Transactional : ~Waits(r, b)'
       /\ \A b \in Transactional : b # a => ~Waits(r, b)
    <2>1. \A b \in Transactional : ~Waits(r, b)'
        BY <1>1, <1>4, ReturnNoWait
    <2>2. QED
        BY <1>0, <2>1 DEF Waits, BeginTransaction
<1>15. ASSUME NEW b \in Transactional PROVE Counted(b)'
    <2>1. /\ Counted(b) /\ dbLock[b] \in Nat /\ Cardinality(Waiting(b)) \in Nat
          /\ staged[b] \subseteq Changes
        BY <1>1, LockInvParts, WaitingIsFinite DEF TypeOK
    <2>2. CASE b = a
        <3>1. Cardinality(Waiting(b)') = Cardinality(Waiting(b)) - 1
            BY <1>14, <2>2, WaitingShrinks
        <3>2. staged[b] = {}
            <4>1. \A c \in staged[b] : c.by \in Threads /\ c.by = NoThread
                BY <1>2, <2>1, <2>2 DEF Counted, Changes
            <4>2. QED
                BY <4>1, ThreadAssumption
        <3>3. dbLock'[b] = dbLock[b] /\ staged'[b] = {} /\ writer'[b] # NoThread
            BY <1>3, <1>6, <2>2, <3>2, ThreadAssumption
        <3>4. dbLock[b] = Cardinality(Waiting(b))
            BY <1>2, <2>1, <2>2 DEF Counted
        <3>5. QED
            BY <2>1, <3>1, <3>3, <3>4 DEF Counted
    <2>3. CASE b # a
        <3>1. Waiting(b)' = Waiting(b)
            BY <1>14, <2>3, WaitingRests
        <3>2. QED
            BY <1>3, <1>6, <2>1, <2>3, <3>1 DEF Counted
    <2>4. QED
        BY <2>2, <2>3
<1>16. ASSUME NEW t \in Threads PROVE InOrder(t)' /\ Listed(t)'
    <2>1. \A b \in Transactional : writer'[b] = writer[b] \/ writer[b] \in {r, NoThread}
        BY <1>2, <1>6
    <2>2. CASE t # r
        BY <1>1, <2>1, <2>2, OthersListed, OthersInOrder, LockInvParts DEF LockInv
    <2>3. QED
        BY <1>12, <1>13, <2>2
<1>17. QED
    BY <1>8, <1>15, <1>16, LockInvNext

-----------------------------------------------------------------------------
(* The steps that lose a lock. *)

LEMMA UnlockEffect ==
    ASSUME LockInv, NEW a \in Transactional, dbLock[a] > 0, Unlock(a)
    PROVE  /\ dbLock' \in [Transactional -> Nat] /\ dbLock'[a] = dbLock[a] - 1
           /\ \A b \in Transactional : b # a => dbLock'[b] = dbLock[b]
<1>1. dbLock \in [Transactional -> Nat] /\ dbLock[a] - 1 \in Nat
    BY DEF LockInv, TypeOK
<1>2. QED
    BY <1>1 DEF Unlock

LEMMA BeginFailsLocks ==
    ASSUME LockInv, NEW r \in Threads, BeginFails(r), OthersRest(r)
    PROVE  LockInv'
<1>0. PICK a : a = Callee(r)
    OBVIOUS
<1>1. /\ TypeOK /\ phase[r] = "run" /\ work[r] # <<>>
      /\ Head(work[r]) = work[r][1] /\ work[r][1].do \in {"txn_begin", "txn_begin_index"}
      /\ StepInOrder(work[r][1], sessions[r]) /\ a = work[r][1].on
    BY <1>0, CallingRuns DEF BeginFails
<1>2. /\ UNCHANGED <<operations, cacheVars, writer, staged, store, lost, outcomes>>
      /\ Throw(r) /\ Unlock(a) /\ a \in Transactional
    BY <1>0, <1>1 DEF BeginFails, StepInOrder
<1>3. Waits(r, a) /\ \A b \in Transactional : b # a => ~Waits(r, b)
    BY <1>0 DEF Waits, BeginFails
<1>4. /\ dbLock' \in [Transactional -> Nat] /\ dbLock'[a] = dbLock[a] - 1
      /\ \A b \in Transactional : b # a => dbLock'[b] = dbLock[b]
    BY <1>2, <1>3, HeldIsCounted, UnlockEffect
<1>5. /\ work'[r] = <<>> /\ phase'[r] # "idle"
      /\ work' \in [Threads -> Seq(Steps)] /\ caught' \in [Threads -> BOOLEAN]
      /\ phase' \in [Threads -> {"idle", "run", "commit", "abort"}]
    BY <1>1, <1>2, ThrowRests
<1>6. TypeOK'
    BY <1>1, <1>2, <1>4, <1>5 DEF TypeOK, cacheVars
<1>7. \A b \in Transactional : ~Waits(r, b)'
    BY <1>5 DEF Waits, Calling
<1>8. ASSUME NEW b \in Transactional PROVE Counted(b)'
    <2>1. Counted(b) /\ dbLock[b] \in Nat /\ Cardinality(Waiting(b)) \in Nat
        BY <1>1, LockInvParts, WaitingIsFinite DEF TypeOK
    <2>2. CASE b = a
        <3>1. Cardinality(Waiting(b)') = Cardinality(Waiting(b)) - 1
            BY <1>3, <1>7, <2>2, WaitingShrinks
        <3>2. QED
            BY <1>2, <1>4, <2>1, <2>2, <3>1 DEF Counted
    <2>3. CASE b # a
        <3>1. Waiting(b)' = Waiting(b)
            BY <1>3, <1>7, <2>3, WaitingRests
        <3>2. QED
            BY <1>2, <1>4, <2>1, <2>3, <3>1 DEF Counted
    <2>4. QED
        BY <2>2, <2>3
<1>9. UNCHANGED <<begun, open, sessions, writer>>
    BY <1>2 DEF cacheVars
<1>10. ASSUME NEW t \in Threads PROVE InOrder(t)' /\ Listed(t)'
    <2>1. CASE t # r
        BY <1>1, <1>9, <2>1, OthersListed, OthersInOrder, LockInvParts DEF LockInv
    <2>2. CASE t = r
        <3>1. Listed(r)
            BY LockInvParts
        <3>2. Listed(r)'
            BY <1>1, <1>5, <1>9, <3>1 DEF Listed, Range
        <3>3. InOrder(r)'
            BY <1>5 DEF InOrder
        <3>4. QED
            BY <2>2, <3>2, <3>3
    <2>3. QED
        BY <2>1, <2>2
<1>11. QED
    BY <1>6, <1>8, <1>10, LockInvNext

LEMMA EndingIsHeld ==
    ASSUME LockInv, NEW r \in Threads, phase[r] # "idle", begun[r] # <<>>
    PROVE  /\ Ending(r) \in Transactional /\ Ending(r) \in Range(begun[r])
           /\ writer[Ending(r)] = r /\ dbLock[Ending(r)] > 0
           /\ begun[r] \in Seq(Transactional)
           /\ Ending(r) = begun[r][Len(begun[r])]
           /\ Len(begun[r]) \in Nat \ {0} /\ Len(begun[r]) \in DOMAIN begun[r]
<1>1. /\ TypeOK /\ Listed(r)
    BY LockInvParts
<1>2. /\ begun[r] \in Seq(Transactional) /\ Len(begun[r]) \in Nat \ {0}
      /\ Len(begun[r]) \in DOMAIN begun[r]
    BY <1>1, RemoveLast DEF TypeOK
<1>3. Ending(r) = begun[r][Len(begun[r])]
    BY DEF Ending, NextToEnd
<1>4. Ending(r) \in Transactional /\ Ending(r) \in Range(begun[r])
    BY <1>1, <1>2, <1>3, BegunRange
<1>5. writer[Ending(r)] = r
    BY <1>1, <1>4 DEF Listed
<1>6. QED
    BY <1>2, <1>3, <1>4, <1>5, HeldIsCounted, ThreadAssumption

LEMMA EndTransactionEffect ==
    ASSUME LockInv, NEW a \in Transactional, dbLock[a] > 0, EndTransaction(a)
    PROVE  /\ dbLock' \in [Transactional -> Nat] /\ dbLock'[a] = dbLock[a] - 1
           /\ writer' \in [Transactional -> Threads \cup {NoThread}] /\ writer'[a] = NoThread
           /\ staged' \in [Transactional -> SUBSET Changes] /\ staged'[a] = {}
           /\ \A b \in Transactional : b # a =>
                 dbLock'[b] = dbLock[b] /\ writer'[b] = writer[b] /\ staged'[b] = staged[b]
<1>1. /\ dbLock' \in [Transactional -> Nat] /\ dbLock'[a] = dbLock[a] - 1
      /\ \A b \in Transactional : b # a => dbLock'[b] = dbLock[b]
    BY UnlockEffect DEF EndTransaction
<1>2. QED
    BY <1>1 DEF EndTransaction, LockInv, TypeOK

(* After the last transaction of the list has ended, the list is shorter, or *)
(* nobody looks at it again.                                                 *)
LEMMA EndingStep ==
    ASSUME LockInv, NEW r \in Threads, OthersRest(r), TypeOK',
           phase[r] \in {"commit", "abort"}, begun[r] # <<>>,
           EndTransaction(Ending(r)), work' = work,
           \/ phase'[r] = "idle"
           \/ /\ phase'[r] = phase[r] /\ sessions'[r] = sessions[r]
              /\ open'[r] = open[r] \ {Ending(r)}
              /\ begun'[r] = RemoveAt(begun[r], Len(begun[r]))
    PROVE  LockInv'
<1>0. PICK a \in Transactional : a = Ending(r)
    BY EndingIsHeld
<1>1. /\ writer[a] = r /\ dbLock[a] > 0 /\ TypeOK /\ Listed(r)
      /\ a = begun[r][Len(begun[r])] /\ begun[r] \in Seq(Transactional)
      /\ Len(begun[r]) \in DOMAIN begun[r]
    BY <1>0, EndingIsHeld, LockInvParts
<1>2. /\ dbLock'[a] = dbLock[a] - 1 /\ writer'[a] = NoThread /\ staged'[a] = {}
      /\ \A b \in Transactional : b # a =>
             dbLock'[b] = dbLock[b] /\ writer'[b] = writer[b] /\ staged'[b] = staged[b]
    BY <1>0, <1>1, EndTransactionEffect
<1>3. work[r] = <<>> /\ work'[r] = <<>>
    BY LockInvParts DEF InOrder
<1>4. InOrder(r)'
    BY <1>3 DEF InOrder
<1>5. \A b \in Transactional : ~Waits(r, b) /\ ~Waits(r, b)'
    BY <1>3 DEF Waits, Calling
<1>6. ASSUME NEW b \in Transactional PROVE Counted(b)'
    <2>1. Counted(b) /\ dbLock[b] \in Nat /\ Cardinality(Waiting(b)) \in Nat
        BY <1>1, LockInvParts, WaitingIsFinite DEF TypeOK
    <2>2. Waiting(b)' = Waiting(b)
        BY <1>5, WaitingRests
    <2>3. QED
        BY <1>1, <1>2, <2>1, <2>2, ThreadAssumption DEF Counted
<1>7. Listed(r)'
    <2>1. CASE phase'[r] = "idle"
        BY <2>1 DEF Listed
    <2>2. CASE /\ phase'[r] = phase[r] /\ sessions'[r] = sessions[r]
               /\ open'[r] = open[r] \ {Ending(r)}
               /\ begun'[r] = RemoveAt(begun[r], Len(begun[r]))
        <3>1. /\ DOMAIN begun'[r] = 1..(Len(begun[r]) - 1)
              /\ DOMAIN begun[r] = 1..Len(begun[r]) /\ Len(begun[r]) \in Nat
              /\ \A i \in 1..(Len(begun[r]) - 1) : begun'[r][i] = begun[r][i]
            BY <1>1, <2>2, RemoveLast
        <3>2. phase[r] # "idle"
            OBVIOUS
        <3>3. \A i, k \in DOMAIN begun'[r] : begun'[r][i] = begun'[r][k] => i = k
            BY <1>1, <3>1, <3>2 DEF Listed
        <3>4. \A i \in DOMAIN begun'[r] :
                 i \in DOMAIN begun[r] /\ begun'[r][i] = begun[r][i] /\ begun[r][i] # a
            BY <1>1, <3>1, <3>2 DEF Listed
        <3>5. \A b \in Range(begun'[r]) : b \in Range(begun[r]) /\ b # a
            BY <3>4 DEF Range
        <3>6. Range(begun[r]) \subseteq Transactional /\ open[r] \subseteq Transactional
            BY <1>1, BegunRange DEF TypeOK
        <3>7. \A b \in Range(begun'[r]) : b \in open'[r] /\ b \in sessions'[r] /\ writer'[b] = r
            BY <1>0, <1>1, <1>2, <2>2, <3>2, <3>5, <3>6 DEF Listed
        <3>8. \A b \in open'[r] : writer'[b] = r
            BY <1>0, <1>1, <1>2, <2>2, <3>2, <3>6 DEF Listed
        <3>9. QED
            BY <3>3, <3>7, <3>8 DEF Listed
    <2>3. QED
        BY <2>1, <2>2
<1>8. ASSUME NEW t \in Threads PROVE InOrder(t)' /\ Listed(t)'
    <2>1. \A b \in Transactional : writer'[b] = writer[b] \/ writer[b] \in {r, NoThread}
        BY <1>1, <1>2
    <2>2. CASE t # r
        BY <1>1, <2>1, <2>2, OthersListed, OthersInOrder, LockInvParts DEF LockInv
    <2>3. QED
        BY <1>4, <1>7, <2>2
<1>9. QED
    BY <1>6, <1>8, LockInvNext

LEMMA ShorterList ==
    ASSUME LockInv, NEW r \in Threads, begun[r] # <<>>,
           begun' = [begun EXCEPT ![r] = RemoveAt(@, NextToEnd(r))],
           open' = [open EXCEPT ![r] = @ \ {Ending(r)}]
    PROVE  /\ begun' \in [Threads -> Seq(Transactional)]
           /\ begun'[r] = RemoveAt(begun[r], Len(begun[r]))
           /\ Len(begun'[r]) = Len(begun[r]) - 1
           /\ \A i \in 1..(Len(begun[r]) - 1) : begun'[r][i] = begun[r][i]
           /\ Len(begun[r]) \in Nat \ {0}
           /\ open' \in [Threads -> SUBSET Transactional]
           /\ open'[r] = open[r] \ {Ending(r)}
<1>1. begun \in [Threads -> Seq(Transactional)] /\ open \in [Threads -> SUBSET Transactional]
    BY DEF LockInv, TypeOK
<1>2. begun[r] \in Seq(Transactional)
    BY <1>1
<1>3. begun'[r] = RemoveAt(begun[r], Len(begun[r]))
    BY <1>1 DEF NextToEnd
<1>4. RemoveAt(begun[r], Len(begun[r])) \in Seq(Transactional)
    BY <1>2, RemoveLast
<1>5. begun' \in [Threads -> Seq(Transactional)]
    BY <1>1, <1>4 DEF NextToEnd
<1>6. /\ Len(begun'[r]) = Len(begun[r]) - 1
      /\ \A i \in 1..(Len(begun[r]) - 1) : begun'[r][i] = begun[r][i]
      /\ Len(begun[r]) \in Nat \ {0}
    BY <1>2, <1>3, RemoveLast
<1>7. QED
    BY <1>1, <1>3, <1>5, <1>6

LEMMA CommitLocks ==
    ASSUME LockInv, NEW r \in Threads, Commit(r), OthersRest(r)
    PROVE  LockInv'
<1>0. PICK a \in Transactional : a = Ending(r)
    BY EndingIsHeld DEF Commit
<1>1. /\ phase[r] = "commit" /\ begun[r] # <<>> /\ TypeOK
      /\ store' = [store EXCEPT ![a] = @ \cup staged[a]]
      /\ EndTransaction(Ending(r))
      /\ open' = [open EXCEPT ![r] = @ \ {Ending(r)}]
      /\ begun' = [begun EXCEPT ![r] = RemoveAt(@, NextToEnd(r))]
      /\ UNCHANGED <<requestVars, sessions, lost, outcomes>>
    BY <1>0 DEF Commit, LockInv
<1>2. /\ dbLock' \in [Transactional -> Nat]
      /\ writer' \in [Transactional -> Threads \cup {NoThread}]
      /\ staged' \in [Transactional -> SUBSET Changes]
    BY <1>1, EndingIsHeld, EndTransactionEffect
<1>3. store' \in [Adaptors -> SUBSET Changes]
    BY <1>1, AdaptorAssumption DEF TypeOK
<1>4. TypeOK'
    BY <1>1, <1>2, <1>3, ShorterList DEF TypeOK, requestVars
<1>5. QED
    BY <1>1, <1>4, ShorterList, EndingStep DEF requestVars

LEMMA AbortLocks ==
    ASSUME LockInv, NEW r \in Threads, Abort(r), OthersRest(r)
    PROVE  LockInv'
<1>0. PICK a \in Transactional : a = Ending(r)
    BY EndingIsHeld DEF Abort
<1>1. /\ phase[r] = "abort" /\ begun[r] # <<>> /\ TypeOK
      /\ lost' = lost \cup staged[a]
      /\ EndTransaction(Ending(r))
      /\ open' = [open EXCEPT ![r] = @ \ {Ending(r)}]
      /\ begun' = [begun EXCEPT ![r] = RemoveAt(@, NextToEnd(r))]
      /\ UNCHANGED <<requestVars, sessions, store, outcomes>>
    BY <1>0 DEF Abort, LockInv
<1>2. /\ dbLock' \in [Transactional -> Nat]
      /\ writer' \in [Transactional -> Threads \cup {NoThread}]
      /\ staged' \in [Transactional -> SUBSET Changes]
    BY <1>1, EndingIsHeld, EndTransactionEffect
<1>3. lost' \subseteq Changes
    BY <1>1 DEF TypeOK
<1>4. TypeOK'
    BY <1>1, <1>2, <1>3, ShorterList DEF TypeOK, requestVars
<1>5. QED
    BY <1>1, <1>4, ShorterList, EndingStep DEF requestVars

LEMMA CommitFailsLocks ==
    ASSUME LockInv, NEW r \in Threads, CommitFails(r), OthersRest(r)
    PROVE  LockInv'
<1>0. PICK a \in Transactional : a = Ending(r)
    BY EndingIsHeld DEF CommitFails
<1>1. /\ phase[r] = "commit" /\ begun[r] # <<>> /\ TypeOK
      /\ lost' = lost \cup staged[a]
      /\ EndTransaction(Ending(r)) /\ End(r, "failed")
      /\ UNCHANGED <<work, cacheVars, store>>
    BY <1>0 DEF CommitFails, LockInv
<1>2. /\ dbLock' \in [Transactional -> Nat]
      /\ writer' \in [Transactional -> Threads \cup {NoThread}]
      /\ staged' \in [Transactional -> SUBSET Changes]
    BY <1>1, EndingIsHeld, EndTransactionEffect
<1>3. lost' \subseteq Changes
    BY <1>1 DEF TypeOK
<1>4. /\ phase'[r] = "idle" /\ phase' \in [Threads -> {"idle", "run", "commit", "abort"}]
      /\ operations' \in [Threads -> Nat] /\ caught' \in [Threads -> BOOLEAN]
      /\ outcomes' \in [Threads -> Seq(Outcomes)]
    BY <1>1, EndRests DEF Outcomes
<1>5. TypeOK'
    BY <1>1, <1>2, <1>3, <1>4 DEF TypeOK, cacheVars
<1>6. QED
    BY <1>1, <1>4, <1>5, EndingStep

LEMMA NobodyWaits ==
    ASSUME \A t \in Threads : phase'[t] = "idle", NEW a
    PROVE  (Waiting(a))' = {} /\ Cardinality((Waiting(a))') = 0
<1>1. (Waiting(a))' = {}
    BY DEF Waiting, Waits, Calling
<1>2. QED
    BY <1>1, FS_EmptySet

LEMMA CrashLocks ==
    ASSUME LockInv, Crash
    PROVE  LockInv'
<1>1. TypeOK'
    <2>1. TypeOK
        BY DEF LockInv
    <2>2. outcomes' \in [Threads -> Seq(Outcomes)]
        <3>1. \A t \in Threads : Append(outcomes[t], "crashed") \in Seq(Outcomes)
            BY <2>1 DEF TypeOK, Outcomes
        <3>2. QED
            BY <2>1, <3>1 DEF TypeOK, Crash
    <2>3. lost' \subseteq Changes
        BY <2>1 DEF TypeOK, Crash
    <2>4. /\ work' \in [Threads -> Seq(Steps)] /\ begun' \in [Threads -> Seq(Transactional)]
          /\ phase' \in [Threads -> {"idle", "run", "commit", "abort"}]
        BY EmptySeq DEF Crash
    <2>5. /\ operations' \in [Threads -> Nat] /\ caught' \in [Threads -> BOOLEAN]
          /\ sessions' \in [Threads -> SUBSET Adaptors]
          /\ open' \in [Threads -> SUBSET Transactional]
        BY DEF Crash
    <2>6. /\ writer' \in [Transactional -> Threads \cup {NoThread}]
          /\ dbLock' \in [Transactional -> Nat]
          /\ staged' \in [Transactional -> SUBSET Changes]
          /\ store' \in [Adaptors -> SUBSET Changes]
        BY <2>1 DEF Crash, TypeOK
    <2>7. QED
        BY <2>2, <2>3, <2>4, <2>5, <2>6 DEF TypeOK
<1>2. ASSUME NEW t \in Threads PROVE InOrder(t)' /\ Listed(t)'
    <2>1. work'[t] = <<>> /\ phase'[t] = "idle"
        BY DEF Crash
    <2>2. QED
        BY <2>1 DEF InOrder, Listed
<1>3. ASSUME NEW a \in Transactional PROVE Counted(a)'
    <2>1. dbLock'[a] = 0 /\ writer'[a] = NoThread /\ staged'[a] = {}
        BY DEF Crash
    <2>2. Cardinality(Waiting(a)') = 0
        BY NobodyWaits DEF Crash
    <2>3. QED
        BY <2>1, <2>2 DEF Counted
<1>4. QED
    BY <1>1, <1>2, <1>3, LockInvNext

LEMMA InitLocks ==
    ASSUME Init
    PROVE  LockInv
<1>1. TypeOK
    <2>1. <<>> \in Seq(Steps) /\ <<>> \in Seq(Transactional) /\ <<>> \in Seq(Outcomes)
        OBVIOUS
    <2>2. /\ work \in [Threads -> Seq(Steps)] /\ begun \in [Threads -> Seq(Transactional)]
          /\ outcomes \in [Threads -> Seq(Outcomes)]
        BY <2>1 DEF Init
    <2>3. QED
        BY <2>2 DEF Init, TypeOK
<1>2. ASSUME NEW t \in Threads PROVE InOrder(t) /\ Listed(t)
    <2>1. work[t] = <<>> /\ phase[t] = "idle"
        BY DEF Init
    <2>2. QED
        BY <2>1 DEF InOrder, Listed
<1>3. ASSUME NEW a \in Transactional PROVE Counted(a)
    <2>1. dbLock[a] = 0 /\ writer[a] = NoThread /\ staged[a] = {}
        BY DEF Init
    <2>2. Waiting(a) = {}
        BY DEF Init, Waiting, Waits, Calling
    <2>3. QED
        BY <2>1, <2>2, FS_EmptySet DEF Counted
<1>4. QED
    BY <1>1, <1>2, <1>3, LockInvParts

LEMMA NextLocks ==
    ASSUME LockInv, [Next]_vars
    PROVE  LockInv'
<1>1. CASE UNCHANGED vars
    <2>1. /\ phase' = phase /\ work' = work /\ operations' = operations /\ caught' = caught
          /\ sessions' = sessions /\ begun' = begun /\ open' = open /\ writer' = writer
          /\ dbLock' = dbLock /\ staged' = staged /\ store' = store /\ lost' = lost
          /\ outcomes' = outcomes
        BY <1>1 DEF vars, requestVars, cacheVars, lmdbVars
    <2>2. TypeOK'
        BY <2>1 DEF LockInv, TypeOK
    <2>3. ASSUME NEW t \in Threads PROVE InOrder(t)' /\ Listed(t)'
        <3>1. InOrder(t) /\ Listed(t)
            BY LockInvParts
        <3>2. QED
            BY <2>1, <3>1 DEF InOrder, CallInOrder, Listed, Range
    <2>4. ASSUME NEW a \in Transactional PROVE Counted(a)'
        <3>1. Counted(a)
            BY LockInvParts
        <3>2. Waiting(a)' = Waiting(a)
            BY <2>1 DEF Waiting, Waits, Calling, Callee
        <3>3. QED
            BY <2>1, <3>1, <3>2 DEF Counted
    <2>5. QED
        BY <2>2, <2>3, <2>4, LockInvNext
<1>2. CASE Crash
    BY <1>2, CrashLocks
<1>3. ASSUME NEW r \in Threads, Start(r) \/ Proceed(r) \/ Fail(r)
      PROVE  LockInv'
    <2>1. OthersRest(r)
        BY <1>3, OthersRestStep DEF LockInv
    <2>2. QED
        BY <1>3, <2>1, StartLocks, AskLocks, FinishLocks, GetCachedLocks, BeginElsewhereLocks,
            LockDatabaseLocks, BeginTransactionLocks, ReadObjectLocks, UpdateObjectLocks,
            JournalEpilogueLocks, OpenIndexLocks, ThrowLocks, BeginFailsLocks, CommitLocks,
            AbortLocks, CommitFailsLocks, CloseSessionsLocks
        DEF Proceed, Fail
<1>4. QED
    BY <1>1, <1>2, <1>3 DEF Next

(* The list of a request has its own open transactions in it, each once,     *)
(* and dbLock counts those who hold it: nothing is ended or unlocked twice.  *)
THEOREM ListOpen == Spec => []ListIsOpen
<1>1. LockInv => ListIsOpen
    BY DEF LockInv
<1>2. QED
    BY <1>1, InitLocks, NextLocks, PTL DEF Spec

-----------------------------------------------------------------------------
(* The order in which the first operation of a request begins transactions. *)

(* A request that goes on with the calls of q, which reach no more than the   *)
(* call before them did, stays in turn.                                      *)
LEMMA TurnsContinued ==
    ASSUME TypeOK, NEW r \in Threads, work[r] # <<>>, InOrder(r), BeginsInTurn(r),
           NEW q \in Seq(Steps), Continued(r, q),
           \A i \in 1..Len(q) : \A b \in Adaptors :
               Reaches(q[i], b) => Reaches(work[r][1], b),
           \A i \in 1..Len(q) : \A k \in 1..(i - 1) : \A a, b \in Adaptors :
               Reaches(q[k], a) /\ Reaches(q[i], b) => InTurn(a, b),
           \A i \in 1..Len(q) : q[i].do \in {"begin", "txn_begin"} =>
               q[i].on \notin Range(begun[r]),
           work[r][1].do \in IndexCalls =>
               begun'[r] = begun[r] /\ \A i \in 1..Len(q) : q[i].do \in IndexCalls,
           \A i \in 1..Len(q) : q[i].do \in IndexWaits =>
               work[r][1].do \in IndexWaits /\ q[i].on = work[r][1].on,
           \/ begun'[r] = begun[r]
           \/ /\ Len(q) = 0
              /\ \A a \in Range(begun'[r]) :
                    a \in Range(begun[r]) \/ (a \in Adaptors /\ Reaches(work[r][1], a))
    PROVE  BeginsInTurn(r)'
<1>1. /\ Len(q) \in Nat /\ Len(work[r]) \in Nat \ {0}
      /\ DOMAIN work[r] = 1..Len(work[r]) /\ 1 \in DOMAIN work[r]
      /\ DOMAIN work'[r] = 1..Len(work'[r]) /\ Len(work'[r]) \in Nat
    BY NextCall DEF Continued, TypeOK
<1>2. ASSUME NEW i \in DOMAIN work'[r]
      PROVE  \/ i \in 1..Len(q) /\ work'[r][i] = q[i]
             \/ /\ i > Len(q) /\ i - Len(q) + 1 \in 2..Len(work[r])
                /\ i - Len(q) + 1 \in DOMAIN work[r]
                /\ work'[r][i] = work[r][i - Len(q) + 1]
    <2>1. i \in 1..Len(work'[r]) /\ i \in Nat /\ i > 0
        BY <1>1
    <2>2. CASE i > Len(q)
        <3>1. /\ i - Len(q) + 1 \in 2..Len(work[r])
              /\ work'[r][i] = work[r][i - Len(q) + 1]
            BY <2>1, <2>2 DEF Continued
        <3>2. QED
            BY <1>1, <2>2, <3>1
    <2>3. CASE ~(i > Len(q))
        <3>1. i \in 1..Len(q)
            BY <1>1, <2>1, <2>3
        <3>2. QED
            BY <3>1 DEF Continued
    <2>4. QED
        BY <2>2, <2>3
<1>3. ASSUME NEW i \in DOMAIN work'[r], NEW b \in Adaptors, Reaches(work'[r][i], b)
      PROVE  /\ \A a \in Range(begun'[r]) : InTurn(a, b)
             /\ \A k \in 1..(i - 1) : \A a \in Adaptors :
                   Reaches(work'[r][k], a) => InTurn(a, b)
    <2>1. CASE i \in 1..Len(q) /\ work'[r][i] = q[i]
        <3>1. Reaches(work[r][1], b) /\ begun'[r] = begun[r]
            BY <1>1, <1>3, <2>1
        <3>2. \A a \in Range(begun'[r]) : InTurn(a, b)
            BY <1>1, <3>1 DEF BeginsInTurn
        <3>3. \A k \in 1..(i - 1) : work'[r][k] = q[k]
            BY <1>1, <2>1 DEF Continued
        <3>4. QED
            BY <1>3, <2>1, <3>2, <3>3
    <2>2. CASE /\ i > Len(q) /\ i - Len(q) + 1 \in 2..Len(work[r])
               /\ work'[r][i] = work[r][i - Len(q) + 1]
        <3> DEFINE j == i - Len(q) + 1
        <3>1. /\ j \in DOMAIN work[r] /\ j > 1 /\ Reaches(work[r][j], b)
              /\ j = i - Len(q) + 1 /\ i \in Nat
            BY <1>1, <1>3, <2>2
        <3> HIDE DEF j
        <3>2. /\ \A a \in Range(begun[r]) : InTurn(a, b)
              /\ \A k \in 1..(j - 1) : \A a \in Adaptors :
                    Reaches(work[r][k], a) => InTurn(a, b)
            BY <3>1 DEF BeginsInTurn
        <3>3. 1 \in 1..(j - 1)
            BY <1>1, <3>1
        <3>4. \A a \in Range(begun'[r]) : InTurn(a, b)
            BY <3>2, <3>3
        <3>5. ASSUME NEW k \in 1..(i - 1), NEW a \in Adaptors, Reaches(work'[r][k], a)
              PROVE  InTurn(a, b)
            <4>0. k \in DOMAIN work'[r] /\ k \in Nat
                BY <1>1, <3>1
            <4>1. CASE k \in 1..Len(q) /\ work'[r][k] = q[k]
                BY <3>2, <3>3, <3>5, <4>1
            <4>2. CASE /\ k > Len(q)
                       /\ work'[r][k] = work[r][k - Len(q) + 1]
                <5>1. k - Len(q) + 1 \in 1..(j - 1)
                    BY <1>1, <3>1, <4>0, <4>2
                <5>2. QED
                    BY <3>2, <3>5, <4>2, <5>1
            <4>3. QED
                BY <1>2, <4>0, <4>1, <4>2
        <3>6. QED
            BY <3>4, <3>5
    <2>3. QED
        BY <1>2, <2>1, <2>2
<1>4. ASSUME NEW i \in DOMAIN work'[r], work'[r][i].do \in {"begin", "txn_begin"}
      PROVE  work'[r][i].on \notin Range(begun'[r])
    <2>1. CASE i \in 1..Len(q) /\ work'[r][i] = q[i]
        BY <1>1, <1>4, <2>1
    <2>2. CASE /\ i > Len(q) /\ i - Len(q) + 1 \in 2..Len(work[r])
               /\ work'[r][i] = work[r][i - Len(q) + 1]
        BY <1>1, <1>4, <2>2 DEF InOrder, CallInOrder, Openers
    <2>3. QED
        BY <1>2, <2>1, <2>2
<1>5. ASSUME NEW i \in DOMAIN work'[r], work'[r][i].do \in IndexWaits
      PROVE  /\ work'[r][i].on \in Transactional /\ begun'[r] = <<>>
             /\ \A k \in DOMAIN work'[r] : work'[r][k].do \in IndexCalls
    <2>1. \E k \in DOMAIN work[r] :
              work[r][k].do \in IndexWaits /\ work[r][k].on = work'[r][i].on
        BY <1>1, <1>2, <1>5
    <2>2. /\ work'[r][i].on \in Transactional /\ begun[r] = <<>>
          /\ \A k \in DOMAIN work[r] : work[r][k].do \in IndexCalls
        BY <2>1 DEF BeginsInTurn
    <2>3. QED
        BY <1>1, <1>2, <2>2
<1>6. QED
    BY <1>3, <1>4, <1>5 DEF BeginsInTurn

(* The adaptor whose transaction an adaptor's is. *)
LEMMA BegunIs ==
    /\ \A a \in Adaptors : BegunFor(a) \in Adaptors /\ BegunFor(a) \notin Models
                           /\ BegunFor(BegunFor(a)) = BegunFor(a)
    /\ \A a \in Transactional : a \in Adaptors /\ a \notin Models /\ BegunFor(a) = a
    /\ \A a \in DOMAIN JournalOf : /\ a \in Adaptors /\ JournalOf[a] \in Adaptors
                                   /\ JournalOf[a] \notin Models
                                   /\ BegunFor(JournalOf[a]) = JournalOf[a]
    /\ \A a \in Models : a \in Adaptors /\ a \notin Transactional /\ BegunFor(a) = MappedTo[a]
BY AdaptorAssumption DEF BegunFor, Models

LEMMA TurnsReturn ==
    ASSUME TypeOK, NEW r \in Threads, work[r] # <<>>, InOrder(r), BeginsInTurn(r),
           Return(r),
           \/ begun'[r] = begun[r]
           \/ /\ work[r][1].do \notin IndexCalls
              /\ \A a \in Range(begun'[r]) :
                    a \in Range(begun[r]) \/ (a \in Adaptors /\ Reaches(work[r][1], a))
    PROVE  BeginsInTurn(r)'
<1>1. PICK q \in Seq(Steps) : q = <<>>
    BY NoCalls
<1>2. Continued(r, q) /\ Len(q) = 0
    BY <1>1, NoCalls, ReturnContinues
<1>3. \A i \in 1..Len(q) : FALSE
    BY <1>2
<1>4. QED
    BY <1>2, <1>3, TurnsContinued

LEMMA TurnsOneCall ==
    ASSUME TypeOK, NEW r \in Threads, work[r] # <<>>, InOrder(r), BeginsInTurn(r),
           NEW s \in Steps, Call(r, <<s>>), begun'[r] = begun[r],
           \A b \in Adaptors : Reaches(s, b) => Reaches(work[r][1], b),
           s.do \in {"begin", "txn_begin"} => s.on \notin Range(begun[r]),
           work[r][1].do \in IndexCalls => s.do \in IndexCalls,
           s.do \in IndexWaits => work[r][1].do \in IndexWaits /\ s.on = work[r][1].on
    PROVE  BeginsInTurn(r)'
<1>1. PICK q \in Seq(Steps) : q = <<s>>
    BY OneCall
<1>2. Continued(r, q) /\ Len(q) = 1 /\ q[1] = s
    BY <1>1, OneCall, CallContinues
<1>3. \A i \in 1..Len(q) : i = 1 /\ q[i] = s
    BY <1>2
<1>4. \A i \in 1..Len(q) : \A k \in 1..(i - 1) : FALSE
    BY <1>2
<1>5. QED
    BY <1>2, <1>3, <1>4, TurnsContinued

(* A call that waits for an index is not one that begins a transaction.       *)
LEMMA NoIndexWait ==
    ASSUME NEW r \in Threads, BeginsInTurn(r), begun[r] # <<>>
    PROVE  \A i \in DOMAIN work[r] : work[r][i].do \notin IndexWaits
BY DEF BeginsInTurn

-----------------------------------------------------------------------------
(* The steps of a request in its first operation. *)

LEMMA GetCachedTurns ==
    ASSUME LockInv, NEW r \in Threads, GetCached(r), BeginsInTurn(r)
    PROVE  BeginsInTurn(r)'
<1>1. /\ TypeOK /\ phase[r] = "run" /\ work[r] # <<>> /\ InOrder(r)
      /\ Head(work[r]) = work[r][1] /\ Callee(r) = work[r][1].on /\ Callee(r) \in Adaptors
      /\ work[r][1].do \in {"get_cached", "get_cached_begin"}
    BY CallingRuns DEF GetCached
<1>2. begun'[r] = begun[r]
    BY DEF GetCached
<1>3. CASE ~Begins(r)
    BY <1>1, <1>2, <1>3, TurnsReturn DEF GetCached
<1>4. CASE Begins(r)
    <2> DEFINE s == Step("begin", Callee(r))
    <2>1. s \in Steps /\ s.do = "begin" /\ s.on = Callee(r)
        BY <1>1, StepType
    <2>2. Call(r, <<s>>)
        BY <1>4 DEF GetCached
    <2> HIDE DEF s
    <2>3. work[r][1].do = "get_cached_begin" /\ Callee(r) \notin Range(begun[r])
        BY <1>1, <1>4 DEF Begins
    <2>4. \A b \in Adaptors : Reaches(s, b) => Reaches(work[r][1], b)
        BY <1>1, <2>1, <2>3 DEF Reaches, Beginners
    <2>5. /\ work[r][1].do \notin IndexCalls /\ s.do \notin IndexWaits
        BY <2>1, <2>3 DEF IndexCalls, IndexWaits
    <2>6. QED
        BY <1>1, <1>2, <2>1, <2>2, <2>3, <2>4, <2>5, TurnsOneCall
<1>5. QED
    BY <1>3, <1>4

LEMMA BeginElsewhereTurns ==
    ASSUME LockInv, NEW r \in Threads, BeginElsewhere(r), BeginsInTurn(r)
    PROVE  BeginsInTurn(r)'
<1>1. /\ TypeOK /\ phase[r] = "run" /\ work[r] # <<>> /\ InOrder(r)
      /\ Callee(r) = work[r][1].on /\ Callee(r) \in Adaptors
      /\ work[r][1].do \in {"begin"}
    BY CallingRuns DEF BeginElsewhere
<1>2. begun'[r] = begun[r]
    BY DEF BeginElsewhere, cacheVars
<1>3. CASE Callee(r) \notin Models
    BY <1>1, <1>2, <1>3, TurnsReturn DEF BeginElsewhere
<1>4. CASE Callee(r) \in Models
    <2> DEFINE s == Step("get_cached_begin", MappedTo[Callee(r)])
    <2>1. /\ s \in Steps /\ s.do = "get_cached_begin" /\ s.on = BegunFor(Callee(r))
          /\ BegunFor(s.on) = BegunFor(Callee(r))
        BY <1>4, BegunIs, StepType
    <2>2. Call(r, <<s>>)
        BY <1>4 DEF BeginElsewhere
    <2> HIDE DEF s
    <2>3. \A b \in Adaptors : Reaches(s, b) => Reaches(work[r][1], b)
        BY <1>1, <2>1 DEF Reaches, Beginners
    <2>4. /\ work[r][1].do \notin IndexCalls /\ s.do \notin IndexWaits
        BY <1>1, <2>1 DEF IndexCalls, IndexWaits
    <2>5. QED
        BY <1>1, <1>2, <2>1, <2>2, <2>3, <2>4, TurnsOneCall
<1>5. QED
    BY <1>3, <1>4

LEMMA LockDatabaseTurns ==
    ASSUME LockInv, NEW r \in Threads, LockDatabase(r), BeginsInTurn(r)
    PROVE  BeginsInTurn(r)'
<1>1. /\ TypeOK /\ phase[r] = "run" /\ work[r] # <<>> /\ InOrder(r)
      /\ Callee(r) = work[r][1].on /\ Callee(r) \in Adaptors
      /\ Head(work[r]) = work[r][1]
      /\ work[r][1].do \in {"begin", "begin_index"} /\ 1 \in DOMAIN work[r]
    BY CallingRuns DEF LockDatabase
<1>2. begun'[r] = begun[r]
    BY DEF LockDatabase, cacheVars
<1>3. PICK do \in {"txn_begin", "txn_begin_index"} :
        /\ Call(r, <<Step(do, Callee(r))>>)
        /\ do = IF work[r][1].do = "begin" THEN "txn_begin" ELSE "txn_begin_index"
    BY <1>1 DEF LockDatabase
<1> DEFINE s == Step(do, Callee(r))
<1>4. s \in Steps /\ s.do = do /\ s.on = Callee(r)
    BY <1>1, StepType
<1> HIDE DEF s
<1>5. \A b \in Adaptors : Reaches(s, b) => Reaches(work[r][1], b)
    BY <1>1, <1>3, <1>4 DEF Reaches, Beginners
<1>6. s.do \in {"begin", "txn_begin"} => s.on \notin Range(begun[r])
    BY <1>1, <1>3, <1>4 DEF BeginsInTurn
<1>7. /\ work[r][1].do \in IndexCalls => s.do \in IndexCalls
      /\ s.do \in IndexWaits => work[r][1].do \in IndexWaits /\ s.on = work[r][1].on
    BY <1>1, <1>3, <1>4 DEF IndexCalls, IndexWaits
<1>8. Call(r, <<s>>)
    BY <1>3 DEF s
<1>9. QED
    BY <1>1, <1>2, <1>4, <1>5, <1>6, <1>7, <1>8, TurnsOneCall

LEMMA BeginTransactionTurns ==
    ASSUME LockInv, NEW r \in Threads, BeginTransaction(r), BeginsInTurn(r)
    PROVE  BeginsInTurn(r)'
<1>1. /\ TypeOK /\ phase[r] = "run" /\ work[r] # <<>> /\ InOrder(r)
      /\ Callee(r) = work[r][1].on /\ Callee(r) \in Adaptors
      /\ Head(work[r]) = work[r][1]
      /\ work[r][1].do \in {"txn_begin", "txn_begin_index"}
      /\ StepInOrder(work[r][1], sessions[r])
    BY CallingRuns DEF BeginTransaction
<1>2. /\ Callee(r) \in Transactional /\ BegunFor(Callee(r)) = Callee(r)
      /\ Return(r) /\ begun[r] \in Seq(Transactional)
    BY <1>1, BegunIs DEF BeginTransaction, StepInOrder, TypeOK
<1>3. CASE work[r][1].do = "txn_begin_index"
    BY <1>1, <1>2, <1>3, TurnsReturn DEF BeginTransaction, TypeOK
<1>4. CASE work[r][1].do = "txn_begin"
    <2>1. begun'[r] = Append(begun[r], Callee(r))
        BY <1>1, <1>4 DEF BeginTransaction, TypeOK
    <2>2. \A i \in DOMAIN begun'[r] :
              \/ begun'[r][i] = Callee(r)
              \/ i \in DOMAIN begun[r] /\ begun'[r][i] = begun[r][i]
        BY <1>2, <2>1
    <2>3. \A a \in Range(begun'[r]) : a \in Range(begun[r]) \/ a = Callee(r)
        BY <2>2 DEF Range
    <2>4. Reaches(work[r][1], Callee(r)) /\ work[r][1].do \notin IndexCalls
        BY <1>1, <1>2, <1>4 DEF Reaches, Beginners, IndexCalls, IndexWaits
    <2>5. \A a \in Range(begun'[r]) :
              a \in Range(begun[r]) \/ (a \in Adaptors /\ Reaches(work[r][1], a))
        BY <1>1, <2>3, <2>4
    <2>6. QED
        BY <1>1, <1>2, <2>4, <2>5, TurnsReturn
<1>5. QED
    BY <1>1, <1>3, <1>4

LEMMA ReadObjectTurns ==
    ASSUME LockInv, NEW r \in Threads, ReadObject(r), BeginsInTurn(r)
    PROVE  BeginsInTurn(r)'
<1>1. /\ TypeOK /\ phase[r] = "run" /\ work[r] # <<>> /\ InOrder(r)
      /\ work[r][1].do \in {"read_object"} /\ Callee(r) \in Adaptors
    BY CallingRuns DEF ReadObject
<1>2. begun'[r] = begun[r]
    BY DEF ReadObject, cacheVars
<1>3. CASE Callee(r) \notin Models
    BY <1>1, <1>2, <1>3, TurnsReturn DEF ReadObject
<1>4. CASE Callee(r) \in Models
    <2> DEFINE a == MappedTo[Callee(r)]
    <2>1. PICK q : q = Read(a)
        OBVIOUS
    <2>2. a \in Adaptors
        BY <1>4, BegunIs
    <2>3. /\ q \in Seq(Steps) /\ Len(q) = 2 /\ Call(r, q)
          /\ q[1] = Step("get_cached", a) /\ q[2] = Step("read_object", a)
        BY <1>4, <2>1, <2>2, StepType, TwoCalls DEF Read, ReadObject
    <2>4. Continued(r, q)
        BY <1>1, <2>3, CallContinues
    <2>5. \A i \in 1..Len(q) : q[i].do \in {"get_cached", "read_object"}
        BY <2>2, <2>3, StepType
    <2>6. \A i \in 1..Len(q) : \A b \in Adaptors : ~Reaches(q[i], b)
        BY <2>5 DEF Reaches, Beginners
    <2>7. \A i \in 1..Len(q) : \A k \in 1..(i - 1) : k \in 1..Len(q)
        BY <2>3
    <2>8. work[r][1].do \notin IndexCalls /\ \A i \in 1..Len(q) : q[i].do \notin IndexWaits
        BY <1>1, <2>5 DEF IndexCalls, IndexWaits
    <2>9. QED
        BY <1>1, <1>2, <2>3, <2>4, <2>5, <2>6, <2>7, <2>8, TurnsContinued
<1>5. QED
    BY <1>3, <1>4

LEMMA UpdateObjectTurns ==
    ASSUME LockInv, NEW r \in Threads, UpdateObject(r), BeginsInTurn(r)
    PROVE  BeginsInTurn(r)'
<1>1. /\ TypeOK /\ phase[r] = "run" /\ work[r] # <<>> /\ InOrder(r)
      /\ work[r][1].do \in {"update_object", "add_entry"} /\ Callee(r) \in Adaptors
      /\ Callee(r) = work[r][1].on /\ StepInOrder(work[r][1], sessions[r])
    BY CallingRuns DEF UpdateObject
<1>2. begun'[r] = begun[r]
    BY DEF UpdateObject, cacheVars
<1>3. CASE Callee(r) \notin Models
    BY <1>1, <1>2, <1>3, TurnsReturn DEF UpdateObject
<1>4. CASE Callee(r) \in Models
    <2> DEFINE a == MappedTo[Callee(r)]
    <2>1. PICK q : q = Update(a)
        OBVIOUS
    <2>2. /\ a \in Adaptors /\ a \notin Models /\ a = BegunFor(Callee(r)) /\ BegunFor(a) = a
          /\ work[r][1].do = "update_object"
        BY <1>1, <1>4, BegunIs DEF StepInOrder
    <2>3. /\ q \in Seq(Steps) /\ Len(q) = 3 /\ Call(r, q)
          /\ q[1] = Step("get_cached_begin", a) /\ q[2] = Step("update_object", a)
          /\ q[3] = Step("journal_epilogue", a)
        BY <1>4, <2>1, <2>2, StepType, ThreeCalls DEF Update, UpdateObject, Mapped
    <2> HIDE DEF a
    <2>4. Continued(r, q)
        BY <1>1, <2>3, CallContinues
    <2>5. /\ q[1].do = "get_cached_begin" /\ q[2].do = "update_object"
          /\ q[3].do = "journal_epilogue" /\ q[1].on = a /\ q[2].on = a /\ q[3].on = a
        BY <2>2, <2>3, StepType
    <2>6. \A i \in 1..Len(q) : i \in {1, 2, 3}
        BY <2>3
    <2>7. /\ \A b \in Adaptors : Reaches(q[1], b) <=> b = a
          /\ \A b \in Adaptors : ~Reaches(q[2], b)
          /\ \A b \in Adaptors : Reaches(q[3], b) <=> (a \in DOMAIN JournalOf /\ b = JournalOf[a])
        BY <2>2, <2>5 DEF Reaches, Beginners
    <2>8. \A b \in Adaptors : Reaches(work[r][1], b) <=>
              b = a \/ (a \in DOMAIN JournalOf /\ b = JournalOf[a])
        <3>1. work[r][1].on \in Models /\ BegunFor(work[r][1].on) = a
            BY <1>1, <1>4, <2>2
        <3>2. work[r][1].do = "update_object"
            BY <2>2
        <3>3. QED
            BY <3>1, <3>2 DEF Reaches, Beginners
    <2>9. ASSUME NEW i \in 1..Len(q), NEW b \in Adaptors, Reaches(q[i], b)
          PROVE  Reaches(work[r][1], b)
        <3>1. i = 1 \/ i = 2 \/ i = 3
            BY <2>6
        <3>2. b = a \/ (a \in DOMAIN JournalOf /\ b = JournalOf[a])
            BY <2>7, <2>9, <3>1
        <3>3. QED
            BY <2>8, <3>2
    <2>10. ASSUME NEW i \in 1..Len(q), NEW k \in 1..(i - 1), NEW b \in Adaptors,
                  NEW c \in Adaptors, Reaches(q[k], b), Reaches(q[i], c)
           PROVE  InTurn(b, c)
        <3>1. i \in {1, 2, 3} /\ k \in {1, 2}
            BY <2>6
        <3>2. b = a /\ (c = a \/ (a \in DOMAIN JournalOf /\ c = JournalOf[a]))
            BY <2>7, <2>10, <3>1
        <3>3. QED
            BY <2>2, <3>2 DEF InTurn
    <2>11. /\ work[r][1].do \notin IndexCalls
           /\ \A i \in 1..Len(q) : q[i].do \notin IndexWaits \cup {"begin", "txn_begin"}
        BY <2>2, <2>5, <2>6 DEF IndexCalls, IndexWaits
    <2>12. QED
        BY <1>1, <1>2, <2>3, <2>4, <2>9, <2>10, <2>11, TurnsContinued
<1>5. QED
    BY <1>3, <1>4

LEMMA JournalEpilogueTurns ==
    ASSUME LockInv, NEW r \in Threads, JournalEpilogue(r), BeginsInTurn(r)
    PROVE  BeginsInTurn(r)'
<1>1. /\ TypeOK /\ phase[r] = "run" /\ work[r] # <<>> /\ InOrder(r)
      /\ work[r][1].do \in {"journal_epilogue"} /\ Callee(r) \in Adaptors
      /\ Callee(r) = work[r][1].on
    BY CallingRuns DEF JournalEpilogue
<1>2. begun'[r] = begun[r]
    BY DEF JournalEpilogue, cacheVars
<1>3. CASE Callee(r) \notin DOMAIN JournalOf
    BY <1>1, <1>2, <1>3, TurnsReturn DEF JournalEpilogue
<1>4. CASE Callee(r) \in DOMAIN JournalOf
    <2> DEFINE j == JournalOf[Callee(r)]
    <2>1. PICK q : q = <<Step("get_cached_begin", j), EntryStep(j, Callee(r))>>
        OBVIOUS
    <2>2. j \in Adaptors /\ BegunFor(j) = j
        BY <1>4, BegunIs
    <2>3. /\ q \in Seq(Steps) /\ Len(q) = 2 /\ Call(r, q)
          /\ q[1] = Step("get_cached_begin", j) /\ q[2] = EntryStep(j, Callee(r))
        BY <1>1, <1>4, <2>1, <2>2, StepType, EntryStepType, TwoCalls DEF JournalEpilogue
    <2>4. Continued(r, q)
        BY <1>1, <2>3, CallContinues
    <2>5. q[1].do = "get_cached_begin" /\ q[1].on = j /\ q[2].do = "add_entry"
        BY <1>1, <2>2, <2>3, StepType, EntryStepType
    <2>6. \A i \in 1..Len(q) : i \in {1, 2}
        BY <2>3
    <2>7. /\ \A b \in Adaptors : Reaches(q[1], b) <=> b = j
          /\ \A b \in Adaptors : ~Reaches(q[2], b)
        BY <2>2, <2>5 DEF Reaches, Beginners
    <2>8. Reaches(work[r][1], j)
        BY <1>1, <1>4 DEF Reaches
    <2>9. ASSUME NEW i \in 1..Len(q), NEW b \in Adaptors, Reaches(q[i], b)
          PROVE  i = 1 /\ Reaches(work[r][1], b)
        BY <2>6, <2>7, <2>8, <2>9
    <2>10. \A k \in 1..(1 - 1) : FALSE
        OBVIOUS
    <2>11. /\ work[r][1].do \notin IndexCalls
           /\ \A i \in 1..Len(q) : q[i].do \notin IndexWaits \cup {"begin", "txn_begin"}
        BY <1>1, <2>5, <2>6 DEF IndexCalls, IndexWaits
    <2>12. QED
        BY <1>1, <1>2, <2>3, <2>4, <2>9, <2>10, <2>11, TurnsContinued
<1>5. QED
    BY <1>3, <1>4

LEMMA OpenIndexTurns ==
    ASSUME LockInv, NEW r \in Threads, OpenIndex(r), BeginsInTurn(r)
    PROVE  BeginsInTurn(r)'
<1>1. TypeOK /\ work[r] # <<>> /\ InOrder(r)
    BY CallingRuns DEF OpenIndex
<1>2. begun'[r] = begun[r] /\ Return(r)
    BY DEF OpenIndex, cacheVars
<1>3. QED
    BY <1>1, <1>2, TurnsReturn

LEMMA AskTurns ==
    ASSUME LockInv, NEW r \in Threads, Ask(r), begun[r] = <<>>
    PROVE  BeginsInTurn(r)'
<1>1. PICK o \in Workload[r] : work' = [work EXCEPT ![r] = Calls(o)]
    BY DEF Ask
<1>2. PICK a \in Adaptors : a = o.on
    BY AdaptorAssumption DEF Operations
<1>3. o.do \in {"update", "read", "consume", "index"}
    BY AdaptorAssumption DEF Operations
<1>4. PICK q : q = Calls(o)
    OBVIOUS
<1>5. work'[r] = q /\ begun'[r] = <<>>
    BY <1>1, <1>4 DEF Ask, LockInv, TypeOK, cacheVars
<1>6. Range(begun'[r]) = {}
    BY <1>5 DEF Range
<1>7. CASE o.do = "update"
    <2>1. q = Update(a)
        BY <1>2, <1>4, <1>7 DEF Calls
    <2>2. /\ q \in Seq(Steps) /\ Len(q) = 3
          /\ q[1] = Step("get_cached_begin", a) /\ q[2] = Step("update_object", a)
          /\ q[3] = Step("journal_epilogue", a)
        BY <2>1, StepType, ThreeCalls DEF Update
    <2>3. /\ q[1].do = "get_cached_begin" /\ q[2].do = "update_object"
          /\ q[3].do = "journal_epilogue" /\ q[1].on = a /\ q[2].on = a /\ q[3].on = a
        BY <2>2, StepType
    <2>4. \A i \in DOMAIN q : i = 1 \/ i = 2 \/ i = 3
        BY <2>2
    <2>5. \A i \in DOMAIN q : q[i].do \notin IndexWaits \cup {"begin", "txn_begin"}
        BY <2>3, <2>4 DEF IndexWaits
    <2>6. /\ \A b \in Adaptors : Reaches(q[1], b) => b = BegunFor(a)
          /\ \A b \in Adaptors : Reaches(q[2], b) =>
                \/ b = BegunFor(a)
                \/ BegunFor(a) \in DOMAIN JournalOf /\ b = JournalOf[BegunFor(a)]
          /\ \A b \in Adaptors : Reaches(q[3], b) => (a \in DOMAIN JournalOf /\ b = JournalOf[a])
        BY <2>3 DEF Reaches, Beginners
    <2>7. ASSUME NEW i \in DOMAIN q, NEW k \in 1..(i - 1), NEW b \in Adaptors,
                 NEW c \in Adaptors, Reaches(q[k], b), Reaches(q[i], c)
          PROVE  InTurn(b, c)
        <3>1. (i = 2 /\ k = 1) \/ (i = 3 /\ (k = 1 \/ k = 2))
            BY <2>4
        <3>2. CASE i = 2 /\ k = 1
            <4>1. b = BegunFor(a)
                BY <2>6, <2>7, <3>2
            <4>2. c = b \/ (b \in DOMAIN JournalOf /\ c = JournalOf[b])
                BY <2>6, <2>7, <3>2, <4>1
            <4>3. BegunFor(b) = b
                BY <4>1, BegunIs
            <4>4. QED
                BY <4>2, <4>3 DEF InTurn
        <3>3. CASE i = 3 /\ (k = 1 \/ k = 2)
            <4>1. a \in DOMAIN JournalOf /\ c = JournalOf[a]
                BY <2>6, <2>7, <3>3
            <4>2. \/ b = BegunFor(a)
                  \/ BegunFor(a) \in DOMAIN JournalOf /\ b = JournalOf[BegunFor(a)]
                BY <2>6, <2>7, <3>3
            <4>3. QED
                BY <4>1, <4>2 DEF InTurn
        <3>4. QED
            BY <3>1, <3>2, <3>3
    <2>8. QED
        BY <1>5, <1>6, <2>5, <2>7 DEF BeginsInTurn
<1>8. CASE o.do \in {"read", "consume"}
    <2>1. \E do \in {"get_cached", "get_cached_begin"} :
              q = <<Step(do, a), Step("read_object", a)>>
        BY <1>2, <1>4, <1>8 DEF Calls, Read, Consume
    <2>2. PICK do \in {"get_cached", "get_cached_begin"} :
              /\ q \in Seq(Steps) /\ Len(q) = 2
              /\ q[1] = Step(do, a) /\ q[2] = Step("read_object", a)
        BY <2>1, StepType, TwoCalls
    <2>3. q[1].do \in {"get_cached", "get_cached_begin"} /\ q[2].do = "read_object"
        BY <2>2, StepType
    <2>4. \A i \in DOMAIN q : i = 1 \/ i = 2
        BY <2>2
    <2>5. \A i \in DOMAIN q : q[i].do \notin IndexWaits \cup {"begin", "txn_begin"}
        BY <2>3, <2>4 DEF IndexWaits
    <2>6. \A b \in Adaptors : ~Reaches(q[2], b)
        BY <2>3 DEF Reaches, Beginners
    <2>7. \A i \in DOMAIN q : \A b \in Adaptors : Reaches(q[i], b) => i = 1
        BY <2>4, <2>6
    <2>8. \A k \in 1..(1 - 1) : FALSE
        OBVIOUS
    <2>9. QED
        BY <1>5, <1>6, <2>5, <2>7, <2>8 DEF BeginsInTurn
<1>9. CASE o.do = "index"
    <2>1. q = CreateIndex(a)
        BY <1>2, <1>4, <1>9 DEF Calls
    <2>2. \A i \in DOMAIN q : q[i].do \in {"get_cached", "open_index", "begin_index", "update_index"}
        BY <2>1 DEF CreateIndex, Step
    <2>3. \A i \in DOMAIN q : q[i].do \in IndexCalls /\ q[i].do \notin {"begin", "txn_begin"}
        BY <2>2 DEF IndexCalls, IndexWaits
    <2>4. \A i \in DOMAIN q : \A b \in Adaptors : ~Reaches(q[i], b)
        BY <2>2 DEF Reaches, Beginners
    <2>5. \A i \in DOMAIN q : q[i].on \in Transactional
        BY <1>2, <1>9, <2>1, AdaptorAssumption DEF CreateIndex, Step
    <2>6. QED
        BY <1>5, <1>6, <2>3, <2>4, <2>5 DEF BeginsInTurn
<1>10. QED
    BY <1>3, <1>7, <1>8, <1>9

LEMMA NothingInTurn ==
    ASSUME NEW r \in Threads, work'[r] = <<>>
    PROVE  BeginsInTurn(r)'
BY DEF BeginsInTurn

(* A step that begins no operation and ends no request. *)
LEMMA CallTurns ==
    ASSUME LockInv, NEW r \in Threads, BeginsInTurn(r),
           \/ GetCached(r) \/ BeginElsewhere(r) \/ LockDatabase(r) \/ BeginTransaction(r)
           \/ ReadObject(r) \/ UpdateObject(r) \/ JournalEpilogue(r) \/ OpenIndex(r)
    PROVE  BeginsInTurn(r)'
BY GetCachedTurns, BeginElsewhereTurns, LockDatabaseTurns, BeginTransactionTurns,
   ReadObjectTurns, UpdateObjectTurns, JournalEpilogueTurns, OpenIndexTurns

LEMMA OwnTurns ==
    ASSUME LockInv, NEW r \in Threads, FirstOperation(r), Start(r) \/ Proceed(r) \/ Fail(r)
    PROVE  FirstOperation(r)'
<1>0. TypeOK /\ InOrder(r)
    BY LockInvParts
<1>1. CASE Start(r)
    <2>1. /\ phase'[r] = "run" /\ work'[r] = <<>> /\ begun'[r] = <<>>
        BY <1>0, <1>1 DEF Start, TypeOK, InOrder
    <2>2. QED
        BY <2>1, NothingInTurn DEF FirstOperation
<1>2. CASE Ask(r)
    <2>1. /\ phase[r] = "run" /\ phase'[r] = "run" /\ operations[r] \in Nat
          /\ operations'[r] = operations[r] + 1
        BY <1>0, <1>2 DEF Ask, TypeOK
    <2>2. operations'[r] <= 1 => begun[r] = <<>>
        BY <2>1 DEF FirstOperation
    <2>3. QED
        BY <1>2, <2>1, <2>2, AskTurns DEF FirstOperation
<1>3. CASE Finish(r)
    BY <1>0, <1>3 DEF Finish, FirstOperation, TypeOK
<1>4. CASE \/ GetCached(r) \/ BeginElsewhere(r) \/ LockDatabase(r) \/ BeginTransaction(r)
           \/ ReadObject(r) \/ UpdateObject(r) \/ JournalEpilogue(r) \/ OpenIndex(r)
    <2>1. phase[r] = "run" /\ work[r] # <<>>
        BY <1>4 DEF GetCached, BeginElsewhere, LockDatabase, BeginTransaction, ReadObject,
                    UpdateObject, JournalEpilogue, OpenIndex, Calling
    <2>2. UNCHANGED <<phase, operations>>
        BY <1>4 DEF GetCached, BeginElsewhere, LockDatabase, BeginTransaction, ReadObject,
                    UpdateObject, JournalEpilogue, OpenIndex
    <2>3. operations[r] # 0 /\ (operations[r] <= 1 => BeginsInTurn(r))
        BY <2>1 DEF FirstOperation
    <2>4. QED
        BY <1>4, <2>1, <2>2, <2>3, CallTurns DEF FirstOperation
<1>5. CASE UpdateIndexThrows(r) \/ CallThrows(r) \/ BeginFails(r)
    <2>1. Throw(r) /\ operations' = operations /\ phase[r] = "run" /\ work[r] # <<>>
        BY <1>5 DEF UpdateIndexThrows, CallThrows, BeginFails, Calling
    <2>2. work'[r] = <<>> /\ phase'[r] \in {"abort", "run"} /\ operations[r] # 0
        BY <1>0, <2>1, ThrowRests DEF FirstOperation
    <2>3. QED
        BY <2>1, <2>2, NothingInTurn DEF FirstOperation
<1>6. CASE Commit(r) \/ Abort(r)
    BY <1>6 DEF Commit, Abort, requestVars, FirstOperation
<1>7. CASE CommitFails(r) \/ CloseSessions(r)
    <2>1. PICK o : End(r, o)
        BY <1>7 DEF CommitFails, CloseSessions
    <2>2. phase'[r] = "idle" /\ operations'[r] = 0
        BY <1>0, <2>1 DEF End, TypeOK
    <2>3. QED
        BY <2>2 DEF FirstOperation
<1>8. QED
    BY <1>1, <1>2, <1>3, <1>4, <1>5, <1>6, <1>7 DEF Proceed, Fail

LEMMA SameTurns ==
    ASSUME NEW t \in Threads, FirstOperation(t),
           phase'[t] = phase[t], work'[t] = work[t], begun'[t] = begun[t],
           operations'[t] = operations[t]
    PROVE  FirstOperation(t)'
<1>1. Range(begun'[t]) = Range(begun[t])
    BY DEF Range
<1>2. BeginsInTurn(t) => BeginsInTurn(t)'
    BY <1>1 DEF BeginsInTurn
<1>3. QED
    BY <1>2 DEF FirstOperation

LEMMA NextTurns ==
    ASSUME TurnsInv, [Next]_vars
    PROVE  TurnsInv'
<1>1. LockInv /\ LockInv' /\ TypeOK /\ \A t \in Threads : FirstOperation(t)
    BY NextLocks DEF TurnsInv, LockInv
<1>2. CASE UNCHANGED vars
    <2>1. UNCHANGED <<phase, work, begun, operations>>
        BY <1>2 DEF vars, requestVars, cacheVars
    <2>2. QED
        BY <1>1, <2>1, SameTurns DEF TurnsInv
<1>3. CASE Crash
    <2>1. \A t \in Threads : phase'[t] = "idle" /\ operations'[t] = 0
        BY <1>3 DEF Crash
    <2>2. QED
        BY <1>1, <2>1 DEF TurnsInv, FirstOperation
<1>4. ASSUME NEW r \in Threads, Start(r) \/ Proceed(r) \/ Fail(r)
      PROVE  TurnsInv'
    <2>1. FirstOperation(r)'
        BY <1>1, <1>4, OwnTurns
    <2>2. OthersRest(r)
        BY <1>1, <1>4, OthersRestStep
    <2>3. \A t \in Threads : t # r => FirstOperation(t)'
        BY <1>1, <2>2, SameTurns DEF OthersRest
    <2>4. QED
        BY <1>1, <2>1, <2>3 DEF TurnsInv
<1>5. QED
    BY <1>2, <1>3, <1>4 DEF Next

LEMMA InitTurns ==
    ASSUME Init
    PROVE  TurnsInv
<1>1. \A t \in Threads : phase[t] = "idle" /\ operations[t] = 0
    BY DEF Init
<1>2. QED
    BY <1>1, InitLocks DEF TurnsInv, FirstOperation

-----------------------------------------------------------------------------
(* No circle. *)

LEMMA LeastNat ==
    ASSUME NEW T \in SUBSET Nat, T # {}
    PROVE  \E n \in T : \A m \in T : n <= m
<1>1. PICK R : R = OpToRel(<, Nat)
    OBVIOUS
<1>2. IsWellFoundedOn(R, Nat)
    BY <1>1, NatLessThanWellFounded
<1>3. PICK n \in T : \A m \in T : <<m, n>> \notin R
    BY <1>2, WFMin
<1>4. \A m \in T : ~(m < n)
    BY <1>1, <1>3 DEF OpToRel
<1>5. QED
    BY <1>4

(* Among requests that wait for each other, one waits for the transaction of  *)
(* a journal behind which no other's journal is: the one it waits for has     *)
(* begun that transaction and waits for one behind it.                       *)
LEMMA NoCircle ==
    ASSUME NoCircleOfJournals, TurnsInv, NEW S \in SUBSET Threads, Deadlocked(S),
           \A r \in S : operations[r] <= 1,
           \A r \in S : \A t \in WaitsFor(r) : ~Abandoned(t)
    PROVE  FALSE
<1>1. TypeOK /\ LockInv /\ \A r \in Threads : FirstOperation(r)
    BY DEF TurnsInv, LockInv
<1>2. PICK rank \in [Transactional -> 0..Cardinality(Transactional)] :
        \A a, b \in Transactional : InTurn(a, b) => a = b \/ rank[b] < rank[a]
    BY DEF NoCircleOfJournals
<1>3. \A r \in S : \E t \in WaitsFor(r) : t \in S
    BY DEF Deadlocked
<1> DEFINE AtBegin == {r \in S : Calling(r, {"txn_begin"})}
<1>4. ASSUME NEW r \in S
      PROVE  /\ r \in Threads /\ phase[r] = "run" /\ work[r] # <<>> /\ BeginsInTurn(r)
             /\ Head(work[r]).do \in {"txn_begin", "txn_begin_index", "open_index"}
             /\ Head(work[r]) = work[r][1] /\ 1 \in DOMAIN work[r]
             /\ Callee(r) = work[r][1].on
             /\ Head(work[r]).do \in {"txn_begin", "txn_begin_index"} =>
                   /\ Callee(r) \in Transactional
                   /\ writer[Callee(r)] \in S /\ writer[Callee(r)] \in WaitsFor(r)
    <2>1. WaitsFor(r) # {}
        BY <1>3
    <2>2. /\ phase[r] = "run" /\ work[r] # <<>>
          /\ Head(work[r]).do \in {"txn_begin", "txn_begin_index", "open_index"}
        BY <2>1 DEF WaitsFor, Calling
    <2>3. /\ Head(work[r]) = work[r][1] /\ 1 \in DOMAIN work[r]
          /\ Callee(r) = work[r][1].on
        BY <1>1, <2>2, NextCall DEF Callee
    <2>4. BeginsInTurn(r)
        BY <1>1, <2>2 DEF FirstOperation
    <2>5. ASSUME Head(work[r]).do \in {"txn_begin", "txn_begin_index"}
          PROVE  /\ Callee(r) \in Transactional
                 /\ writer[Callee(r)] \in S /\ writer[Callee(r)] \in WaitsFor(r)
        <3>1. StepInOrder(work[r][1], sessions[r])
            BY <1>1, <2>3, LockInvParts DEF InOrder, CallInOrder
        <3>2. Callee(r) \in Transactional
            BY <2>3, <2>5, <3>1 DEF StepInOrder
        <3>3. WaitsFor(r) = {writer[Callee(r)]} \ {NoThread}
            BY <2>2, <2>5 DEF WaitsFor, Calling
        <3>4. QED
            BY <1>3, <3>2, <3>3
    <2>6. QED
        BY <2>2, <2>3, <2>4, <2>5
(* Who holds what a member of S waits for has begun it, and begins another.   *)
<1>5. ASSUME NEW r \in S, Head(work[r]).do \in {"txn_begin", "txn_begin_index"}
      PROVE  \E t \in S : Calling(t, {"txn_begin"}) /\ Callee(r) \in Range(begun[t])
    <2>1. PICK t \in S : t = writer[Callee(r)]
        BY <1>4, <1>5
    <2>2. ~Abandoned(t) /\ Callee(r) \in Transactional
        BY <1>4, <1>5, <2>1
    <2>3. Callee(r) \in Range(begun[t])
        BY <2>1, <2>2 DEF Abandoned
    <2>4. begun[t] # <<>>
        BY <2>3 DEF Range
    <2>5. Head(work[t]).do \notin IndexWaits
        BY <1>4, <2>4 DEF BeginsInTurn
    <2>6. Calling(t, {"txn_begin"})
        BY <1>4, <2>5 DEF IndexWaits, Calling
    <2>7. QED
        BY <2>3, <2>6
<1>6. AtBegin # {}
    <2>1. PICK r \in S : TRUE
        BY DEF Deadlocked
    <2>2. CASE Head(work[r]).do \in {"txn_begin", "txn_begin_index"}
        BY <1>5, <2>2
    <2>3. CASE Head(work[r]).do = "open_index"
        <3>1. WaitsFor(r) = Waiting(Callee(r)) \cup ({writer[Callee(r)]} \ {NoThread})
            BY <1>4, <2>3 DEF WaitsFor, Calling
        <3>2. PICK t \in S : t \in WaitsFor(r)
            BY <1>3
        <3>3. CASE t \in Waiting(Callee(r))
            <4>1. Head(work[t]).do \in {"txn_begin", "txn_begin_index"}
                BY <3>3 DEF Waiting, Waits, Calling
            <4>2. QED
                BY <1>5, <4>1
        <3>4. CASE t = writer[Callee(r)]
            <4>1. Callee(r) \in Transactional
                BY <1>4, <2>3 DEF BeginsInTurn, IndexWaits
            <4>2. ~Abandoned(t)
                BY <3>2
            <4>3. Callee(r) \in Range(begun[t])
                BY <3>4, <4>1, <4>2 DEF Abandoned
            <4>4. begun[t] # <<>>
                BY <4>3 DEF Range
            <4>5. Head(work[t]).do \notin IndexWaits
                BY <1>4, <4>4 DEF BeginsInTurn
            <4>6. Calling(t, {"txn_begin"})
                BY <1>4, <4>5 DEF IndexWaits, Calling
            <4>7. QED
                BY <4>6
        <3>5. QED
            BY <3>1, <3>2, <3>3, <3>4
    <2>4. QED
        BY <1>4, <2>2, <2>3
<1>7. \A r \in AtBegin : Callee(r) \in Transactional /\ rank[Callee(r)] \in Nat
    <2>1. \A n \in 0..Cardinality(Transactional) : n \in Nat
        OBVIOUS
    <2>2. \A r \in AtBegin : Callee(r) \in Transactional
        BY <1>4 DEF Calling
    <2>3. QED
        BY <1>2, <2>1, <2>2
<1> DEFINE Ranks == {rank[Callee(r)] : r \in AtBegin}
<1>8. PICK n \in Ranks : \A m \in Ranks : n <= m
    <2>1. Ranks \in SUBSET Nat /\ Ranks # {}
        BY <1>6, <1>7
    <2> HIDE DEF Ranks
    <2>2. QED
        BY <2>1, LeastNat
<1>9. PICK r \in AtBegin : n = rank[Callee(r)]
    BY <1>8
<1>10. PICK t \in S : Calling(t, {"txn_begin"}) /\ Callee(r) \in Range(begun[t])
    BY <1>5, <1>9 DEF Calling
<1>11. t \in AtBegin /\ Callee(t) \in Transactional
    BY <1>7, <1>10
<1>12. Callee(t) \notin Range(begun[t]) /\ InTurn(Callee(r), Callee(t))
    <2>1. work[t][1].do = "txn_begin" /\ 1 \in DOMAIN work[t] /\ BeginsInTurn(t)
          /\ work[t][1].on = Callee(t)
        BY <1>4, <1>10 DEF Calling
    <2>2. Reaches(work[t][1], Callee(t)) /\ Callee(t) \in Adaptors
        BY <1>11, <2>1, BegunIs DEF Reaches, Beginners
    <2>3. QED
        BY <1>10, <2>1, <2>2 DEF BeginsInTurn
<1>13. rank[Callee(t)] < rank[Callee(r)]
    BY <1>2, <1>7, <1>9, <1>10, <1>11, <1>12
<1>14. rank[Callee(t)] \in Ranks /\ rank[Callee(t)] \in Nat /\ n \in Nat
    BY <1>7, <1>9, <1>11
<1>15. QED
    BY <1>8, <1>9, <1>13, <1>14

(* Requests of one operation each never wait for each other in a circle, when *)
(* the adaptors are not journals of each other in a circle: what they begin,  *)
(* they begin in the order of the journals (afw_adaptor.c:347).               *)
THEOREM OneOperationGoesOn == NoCircleOfJournals => (Spec => []OneOperationNeverDeadlocks)
<1> SUFFICES ASSUME NoCircleOfJournals
             PROVE  Spec => []OneOperationNeverDeadlocks
    OBVIOUS
<1>1. TurnsInv => OneOperationNeverDeadlocks
    <2>1. SUFFICES ASSUME TurnsInv, NEW S \in SUBSET Threads, Deadlocked(S),
                          \A r \in S : ~(operations[r] > 1),
                          \A r \in S : \A t \in WaitsFor(r) : ~Abandoned(t)
                   PROVE  FALSE
        BY DEF OneOperationNeverDeadlocks
    <2>2. \A r \in S : operations[r] <= 1
        BY <2>1 DEF TurnsInv, LockInv, TypeOK
    <2>3. QED
        BY <2>1, <2>2, NoCircle
<1>2. QED
    BY <1>1, InitTurns, NextTurns, PTL DEF Spec
=============================================================================
