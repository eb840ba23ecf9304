----------------------- MODULE TransactionsHistoryProofs -----------------------
(***************************************************************************)
(* What TLAPS proves about the changes that requests make: what is durable *)
(* of a request that has ended, in which order, and with which entries.    *)
(***************************************************************************)
EXTENDS AdaptorTransactionsProofs

-----------------------------------------------------------------------------
(* The invariant of the changes, in parts: one change at a time. *)

StagedSound(a, c) ==
    IF HasEnded(c)
    THEN /\ phase[c.by] # "idle" => a \notin Range(begun[c.by])
         /\ RequestOf(c) \notin {"committed", "recovered"}
    ELSE /\ phase[c.by] # "idle" /\ c.request = Current(c.by)
         /\ c.position \in DOMAIN begun[c.by] /\ begun[c.by][c.position] = a

LostSound(c) ==
    IF HasEnded(c) THEN RequestOf(c) \notin {"committed", "recovered"}
    ELSE phase[c.by] = "abort" /\ c.request = Current(c.by)

DurableSound(c) ==
    IF HasEnded(c) THEN c.position > 0 => RequestOf(c) # "aborted"
    ELSE /\ phase[c.by] # "idle" /\ c.request = Current(c.by)
         /\ c.position > 0 => c.position > Len(begun[c.by]) /\ phase[c.by] = "commit"

Unhindered(c) ==
    /\ ~c.entry /\ c.on \in DOMAIN JournalOf
    /\ ~HasEnded(c) /\ phase[c.by] \in {"run", "commit"} /\ ~caught[c.by]

Comes(c) == Unhindered(c) => EntryIsThere(c) \/ EntryToCome(c)

HasEntry(c) ==
    (~c.entry /\ c.on \in DOMAIN JournalOf /\ HasEnded(c)) =>
        (RequestOf(c) = "committed" => EntryFor(c))

Reversed(c, d) ==
    c.position > 0 => ~(d.by = c.by /\ d.request = c.request /\ d.position > c.position)

ChangesInv ==
    /\ \A a \in Transactional : \A c \in staged[a] : StagedSound(a, c) /\ Comes(c)
    /\ \A a \in Adaptors : \A c \in store[a] : DurableSound(c) /\ Comes(c) /\ HasEntry(c)
    /\ \A c \in lost : LostSound(c)
    /\ \A a \in Adaptors : \A c \in store[a] :
        /\ \A d \in lost : Reversed(c, d)
        /\ \A b \in Transactional : \A d \in staged[b] : Reversed(c, d)

LEMMA DurableIs == \A c : c \in Durable <=> \E a \in Adaptors : c \in store[a]
BY DEF Durable

LEMMA StagedNowIs == \A c : c \in StagedNow <=> \E a \in Transactional : c \in staged[a]
BY DEF StagedNow

LEMMA TransactionsInvParts == TransactionsInv <=> TurnsInv /\ ChangesInv
<1>1. ASSUME TransactionsInv PROVE TurnsInv /\ ChangesInv
    <2>1. ASSUME NEW a \in Transactional, NEW c \in staged[a]
          PROVE  StagedSound(a, c) /\ Comes(c)
        BY <1>1, <2>1, StagedNowIs
        DEF TransactionsInv, StagedSound, StagedIsListed, AllOrNothing, EntryComes, Comes, Unhindered
    <2>2. ASSUME NEW a \in Adaptors, NEW c \in store[a]
          PROVE  DurableSound(c)
        BY <1>1, <2>2, DurableIs DEF TransactionsInv, DurableSound, DurableIsPast, AllOrNothing
    <2>3. ASSUME NEW a \in Adaptors, NEW c \in store[a]
          PROVE  Comes(c) /\ HasEntry(c)
        BY <1>1, <2>3, DurableIs
        DEF TransactionsInv, EntryComes, Comes, Unhindered, CommittedIsJournaled, HasEntry
    <2>4. ASSUME NEW c \in lost PROVE LostSound(c)
        BY <1>1, <2>4 DEF TransactionsInv, LostIsAborted, AllOrNothing, LostSound
    <2>5. ASSUME NEW a \in Adaptors, NEW c \in store[a], NEW d \in lost \cup StagedNow
          PROVE  Reversed(c, d)
        BY <1>1, <2>5, DurableIs DEF TransactionsInv, DurableInReverse, Reversed
    <2>6. QED
        BY <1>1, <2>1, <2>2, <2>3, <2>4, <2>5, StagedNowIs DEF ChangesInv, TransactionsInv
<1>2. ASSUME TurnsInv, ChangesInv PROVE TransactionsInv
    <2>1. StagedIsListed /\ LostIsAborted
        BY <1>2 DEF ChangesInv, StagedSound, LostSound, StagedIsListed, LostIsAborted
    <2>2. DurableIsPast
        BY <1>2, DurableIs DEF ChangesInv, DurableSound, DurableIsPast
    <2>3. AllOrNothing
        BY <1>2, DurableIs, StagedNowIs
        DEF ChangesInv, DurableSound, StagedSound, LostSound, AllOrNothing
    <2>4. DurableInReverse
        BY <1>2, DurableIs, StagedNowIs DEF ChangesInv, Reversed, DurableInReverse
    <2>5. EntryComes
        BY <1>2, DurableIs, StagedNowIs DEF ChangesInv, Comes, Unhindered, EntryComes
    <2>6. CommittedIsJournaled
        BY <1>2, DurableIs DEF ChangesInv, HasEntry, CommittedIsJournaled
    <2>7. QED
        BY <1>2, <2>1, <2>2, <2>3, <2>4, <2>5, <2>6 DEF TransactionsInv
<1>3. QED
    BY <1>1, <1>2

LEMMA ChangesInvNext ==
    ASSUME \A a \in Transactional : \A c \in staged'[a] : StagedSound(a, c)' /\ Comes(c)',
           \A a \in Adaptors : \A c \in store'[a] : DurableSound(c)' /\ Comes(c)' /\ HasEntry(c)',
           \A c \in lost' : LostSound(c)',
           \A a \in Adaptors : \A c \in store'[a] :
              /\ \A d \in lost' : Reversed(c, d)
              /\ \A b \in Transactional : \A d \in staged'[b] : Reversed(c, d)
    PROVE  ChangesInv'
BY DEF ChangesInv, Reversed

LEMMA ChangeFields ==
    ASSUME NEW c \in Changes
    PROVE  /\ c.by \in Threads /\ c.request \in Nat \ {0} /\ c.operation \in Nat
           /\ c.on \in Adaptors /\ c.of \in Adaptors /\ c.entry \in BOOLEAN /\ c.position \in Nat
BY DEF Changes

-----------------------------------------------------------------------------
(* Requests that have ended. *)

LEMMA SameEnding ==
    ASSUME NEW c, outcomes'[c.by] = outcomes[c.by]
    PROVE  /\ HasEnded(c)' <=> HasEnded(c)
           /\ RequestOf(c)' = RequestOf(c) /\ Current(c.by)' = Current(c.by)
BY DEF HasEnded, RequestOf, Current

LEMMA EndingNow ==
    ASSUME TypeOK, NEW c \in Changes, NEW o \in Outcomes,
           outcomes'[c.by] = Append(outcomes[c.by], o)
    PROVE  /\ HasEnded(c) => HasEnded(c)' /\ RequestOf(c)' = RequestOf(c)
           /\ (~HasEnded(c) /\ c.request = Current(c.by)) => HasEnded(c)' /\ RequestOf(c)' = o
<1>1. /\ outcomes[c.by] \in Seq(Outcomes) /\ Len(outcomes[c.by]) \in Nat
      /\ c.request \in Nat \ {0}
    BY ChangeFields DEF TypeOK
<1>2. /\ Len(outcomes'[c.by]) = Len(outcomes[c.by]) + 1
      /\ \A i \in 1..Len(outcomes[c.by]) : outcomes'[c.by][i] = outcomes[c.by][i]
      /\ outcomes'[c.by][Len(outcomes[c.by]) + 1] = o
    BY <1>1, AppendProperties
<1>3. QED
    BY <1>1, <1>2 DEF HasEnded, RequestOf, Current

-----------------------------------------------------------------------------
(* What a step of one thread leaves of the changes of the others. *)

LEMMA OthersSound ==
    ASSUME NEW r \in Threads, OthersRest(r), NEW c \in Changes, c.by # r, NEW a
    PROVE  /\ StagedSound(a, c) => StagedSound(a, c)'
           /\ DurableSound(c) => DurableSound(c)'
           /\ LostSound(c) => LostSound(c)'
           /\ Unhindered(c)' <=> Unhindered(c)
           /\ EntryToCome(c)' <=> EntryToCome(c)
           /\ HasEnded(c)' <=> HasEnded(c)
           /\ RequestOf(c)' = RequestOf(c)
<1>1. c.by \in Threads
    BY ChangeFields
<1>2. /\ phase'[c.by] = phase[c.by] /\ work'[c.by] = work[c.by] /\ begun'[c.by] = begun[c.by]
      /\ operations'[c.by] = operations[c.by] /\ caught'[c.by] = caught[c.by]
      /\ outcomes'[c.by] = outcomes[c.by]
    BY <1>1 DEF OthersRest
<1>3. /\ HasEnded(c)' <=> HasEnded(c)
      /\ RequestOf(c)' = RequestOf(c) /\ Current(c.by)' = Current(c.by)
    BY <1>2, SameEnding
<1>4. (Range(begun[c.by]))' = Range(begun[c.by])
    BY <1>2 DEF Range
<1>5. StagedSound(a, c) => StagedSound(a, c)'
    BY <1>2, <1>3, <1>4 DEF StagedSound
<1>6. /\ DurableSound(c) => DurableSound(c)'
      /\ LostSound(c) => LostSound(c)'
      /\ Unhindered(c)' <=> Unhindered(c)
    BY <1>2, <1>3 DEF DurableSound, LostSound, Unhindered
<1>7. EntryToCome(c)' <=> EntryToCome(c)
    BY <1>2 DEF EntryToCome
<1>8. QED
    BY <1>3, <1>5, <1>6, <1>7

LEMMA EntryKept ==
    ASSUME UNCHANGED <<store, staged>>, NEW c
    PROVE  (EntryFor(c)' <=> EntryFor(c)) /\ (EntryIsThere(c)' <=> EntryIsThere(c))
BY DEF EntryFor, EntryIsThere

(* A step of a request that makes and ends no change.                        *)
LEMMA StableStep ==
    ASSUME LockInv, ChangesInv, NEW r \in Threads, OthersRest(r),
           UNCHANGED <<store, staged, lost>>, outcomes'[r] = outcomes[r],
           phase'[r] # "idle",
           phase[r] = "run" \/ phase[r] = "idle",
           phase[r] = "run" =>
              /\ \A i \in DOMAIN begun[r] : i \in DOMAIN begun'[r] /\ begun'[r][i] = begun[r][i]
              /\ \A a \in Range(begun'[r]) : a \in Range(begun[r]) \/ staged[a] = {},
           phase[r] = "idle" => begun'[r] = <<>>,
           \A c \in Changes :
              (c.by = r /\ phase[r] = "run" /\ Unhindered(c)') =>
                 Unhindered(c) /\ (EntryToCome(c) => EntryIsThere(c) \/ EntryToCome(c)')
    PROVE  ChangesInv'
<1>1. /\ \A a \in Transactional : staged'[a] = staged[a] /\ staged[a] \subseteq Changes
      /\ \A a \in Adaptors : store'[a] = store[a] /\ store[a] \subseteq Changes
      /\ lost' = lost /\ lost \subseteq Changes
    BY DEF LockInv, TypeOK
<1>2. ASSUME NEW c \in Changes, c.by = r, Comes(c), ~HasEnded(c) => phase[r] = "run"
      PROVE  Comes(c)'
    <2>1. Unhindered(c)' => ~HasEnded(c)
        BY <1>2, SameEnding DEF Unhindered
    <2>2. Unhindered(c)' => Unhindered(c) /\ (EntryToCome(c) => EntryIsThere(c) \/ EntryToCome(c)')
        BY <1>2, <2>1
    <2>3. QED
        BY <1>2, <2>2, EntryKept DEF Comes
<1>3. ASSUME NEW c \in Changes, c.by # r, Comes(c)
      PROVE  Comes(c)'
    BY <1>3, OthersSound, EntryKept DEF Comes
<1>4. ASSUME NEW a \in Transactional, NEW c \in staged[a]
      PROVE  StagedSound(a, c)' /\ Comes(c)'
    <2>1. c \in Changes /\ StagedSound(a, c) /\ Comes(c)
        BY <1>1 DEF ChangesInv
    <2>2. CASE c.by # r
        BY <1>3, <2>1, <2>2, OthersSound
    <2>3. CASE c.by = r
        <3>1. /\ HasEnded(c)' <=> HasEnded(c)
              /\ RequestOf(c)' = RequestOf(c) /\ Current(c.by)' = Current(c.by)
            BY <2>3, SameEnding
        <3>2. ~HasEnded(c) => phase[r] = "run"
            BY <2>1, <2>3 DEF StagedSound
        <3>3. CASE HasEnded(c)
            <4>1. a \notin Range(begun'[r])
                <5>1. CASE phase[r] = "run"
                    BY <1>4, <2>1, <2>3, <3>3, <5>1 DEF StagedSound
                <5>2. CASE phase[r] = "idle"
                    BY <5>2 DEF Range
                <5>3. QED
                    BY <5>1, <5>2
            <4>2. QED
                BY <2>1, <2>3, <3>1, <3>3, <4>1, <3>2, <1>2 DEF StagedSound
        <3>4. CASE ~HasEnded(c)
            <4>1. StagedSound(a, c)'
                BY <2>1, <2>3, <3>1, <3>2, <3>4 DEF StagedSound
            <4>2. QED
                BY <2>1, <2>3, <3>2, <4>1, <1>2
        <3>5. QED
            BY <3>3, <3>4
    <2>4. QED
        BY <2>2, <2>3
<1>5. ASSUME NEW a \in Adaptors, NEW c \in store[a]
      PROVE  DurableSound(c)' /\ Comes(c)' /\ HasEntry(c)'
    <2>1. c \in Changes /\ DurableSound(c) /\ Comes(c) /\ HasEntry(c)
        BY <1>1 DEF ChangesInv
    <2>2. (HasEnded(c)' <=> HasEnded(c)) /\ RequestOf(c)' = RequestOf(c)
        BY <2>1, OthersSound, SameEnding
    <2>3. HasEntry(c)'
        BY <2>1, <2>2, EntryKept DEF HasEntry
    <2>4. CASE c.by # r
        BY <1>3, <2>1, <2>3, <2>4, OthersSound
    <2>5. CASE c.by = r
        <3>1. Current(c.by)' = Current(c.by)
            BY <2>5, SameEnding
        <3>2. ~HasEnded(c) => phase[r] = "run" /\ ~(c.position > 0)
            BY <2>1, <2>5 DEF DurableSound
        <3>3. DurableSound(c)'
            BY <2>1, <2>2, <2>5, <3>1, <3>2 DEF DurableSound
        <3>4. Comes(c)'
            BY <1>2, <2>1, <2>5, <3>2
        <3>5. QED
            BY <2>3, <3>3, <3>4
    <2>6. QED
        BY <2>4, <2>5
<1>6. ASSUME NEW c \in lost PROVE LostSound(c)'
    <2>1. c \in Changes /\ LostSound(c)
        BY <1>1 DEF ChangesInv
    <2>2. CASE c.by # r
        BY <2>1, <2>2, OthersSound
    <2>3. CASE c.by = r
        <3>1. HasEnded(c) /\ HasEnded(c)' /\ RequestOf(c)' = RequestOf(c)
            BY <2>1, <2>3, SameEnding DEF LostSound
        <3>2. QED
            BY <2>1, <3>1 DEF LostSound
    <2>4. QED
        BY <2>2, <2>3
<1>7. \A a \in Adaptors : \A c \in store[a] :
        /\ \A d \in lost : Reversed(c, d)
        /\ \A b \in Transactional : \A d \in staged[b] : Reversed(c, d)
    BY DEF ChangesInv
<1>8. QED
    BY <1>1, <1>4, <1>5, <1>6, <1>7, ChangesInvNext

-----------------------------------------------------------------------------
(* The steps that make and end no change. *)

(* A call that is behind the next one is still to be made.                   *)
LEMMA CallsBehindStay ==
    ASSUME TypeOK, NEW r \in Threads, work[r] # <<>>, NEW q \in Seq(Steps), Continued(r, q),
           NEW i \in DOMAIN work[r], i > 1
    PROVE  \E k \in DOMAIN work'[r] : work'[r][k] = work[r][i]
<1> DEFINE k == Len(q) + i - 1
<1>1. /\ Len(q) \in Nat /\ i \in 2..Len(work[r]) /\ Len(work[r]) \in Nat
      /\ Len(work'[r]) = Len(q) + Len(work[r]) - 1
      /\ DOMAIN work'[r] = 1..Len(work'[r])
    BY NextCall DEF Continued, TypeOK
<1>2. k \in 1..Len(work'[r]) /\ k > Len(q) /\ k - Len(q) + 1 = i
    BY <1>1
<1> HIDE DEF k
<1>3. work'[r][k] = work[r][k - Len(q) + 1]
    BY <1>2 DEF Continued
<1>4. QED
    BY <1>1, <1>2, <1>3

LEMMA EntryStillComes ==
    ASSUME TypeOK, NEW r \in Threads, work[r] # <<>>, NEW q \in Seq(Steps), Continued(r, q),
           operations'[r] = operations[r],
           Head(work[r]).do \notin {"journal_epilogue", "add_entry"},
           NEW c, c.by = r, EntryToCome(c)
    PROVE  EntryToCome(c)'
<1>1. PICK i \in DOMAIN work[r] :
        \/ work[r][i].do = "journal_epilogue" /\ work[r][i].on = c.on
        \/ work[r][i].do = "add_entry" /\ work[r][i].of = c.on
    BY DEF EntryToCome
<1>2. i > 1
    <2>1. Head(work[r]) = work[r][1] /\ i \in 1..Len(work[r]) /\ Len(work[r]) \in Nat
        BY NextCall DEF TypeOK
    <2>2. i # 1
        BY <1>1, <2>1
    <2>3. QED
        BY <2>1, <2>2
<1>3. PICK k \in DOMAIN work'[r] : work'[r][k] = work[r][i]
    BY <1>2, CallsBehindStay
<1>4. QED
    BY <1>1, <1>3 DEF EntryToCome

(* A call that changes no list and leaves the entries that are to come.      *)
LEMMA StableCall ==
    ASSUME LockInv, ChangesInv, NEW r \in Threads, OthersRest(r), phase[r] = "run",
           UNCHANGED <<store, staged, lost, outcomes, phase, caught, operations>>,
           \A i \in DOMAIN begun[r] : i \in DOMAIN begun'[r] /\ begun'[r][i] = begun[r][i],
           \A a \in Range(begun'[r]) : a \in Range(begun[r]) \/ staged[a] = {},
           work[r] # <<>>, Head(work[r]).do \notin {"journal_epilogue", "add_entry"},
           \E q \in Seq(Steps) : Continued(r, q)
    PROVE  ChangesInv'
<1>1. ASSUME NEW c \in Changes, c.by = r, Unhindered(c)'
      PROVE  Unhindered(c) /\ (EntryToCome(c) => EntryIsThere(c) \/ EntryToCome(c)')
    <2>1. HasEnded(c)' <=> HasEnded(c)
        BY SameEnding
    <2>2. Unhindered(c)
        BY <1>1, <2>1 DEF Unhindered
    <2>3. QED
        BY <1>1, <2>2, EntryStillComes DEF LockInv
<1>2. UNCHANGED <<store, staged, lost>> /\ outcomes'[r] = outcomes[r]
      /\ phase'[r] # "idle" /\ phase[r] # "idle"
    OBVIOUS
<1>3. QED
    BY <1>1, <1>2, StableStep

LEMMA QuietCallChanges ==
    ASSUME LockInv, ChangesInv, NEW r \in Threads, OthersRest(r),
           GetCached(r) \/ BeginElsewhere(r) \/ LockDatabase(r) \/ ReadObject(r) \/ OpenIndex(r)
    PROVE  ChangesInv'
<1>1. /\ UNCHANGED <<store, staged, lost, outcomes, phase, caught, operations, begun>>
      /\ Calling(r, {"get_cached", "get_cached_begin", "begin", "begin_index", "read_object",
                     "open_index"})
    BY DEF GetCached, BeginElsewhere, LockDatabase, ReadObject, OpenIndex, cacheVars, lmdbVars,
        Calling
<1>2. /\ TypeOK /\ phase[r] = "run" /\ work[r] # <<>> /\ Callee(r) \in Adaptors
      /\ Head(work[r]).do \notin {"journal_epilogue", "add_entry"}
    BY <1>1, CallingRuns
<1>3. \E q \in Seq(Steps) : (Return(r) /\ q = <<>>) \/ Call(r, q)
    <2>1. CASE GetCached(r)
        <3>1. <<Step("begin", Callee(r))>> \in Seq(Steps)
            BY <1>2, StepType
        <3>2. QED
            BY <2>1, <3>1, NoCalls DEF GetCached
    <2>2. CASE BeginElsewhere(r)
        <3>1. Callee(r) \in Models =>
                  <<Step("get_cached_begin", MappedTo[Callee(r)])>> \in Seq(Steps)
            BY AdaptorAssumption, StepType
        <3>2. QED
            BY <2>2, <3>1, NoCalls DEF BeginElsewhere
    <2>3. CASE LockDatabase(r)
        <3>1. <<Step(IF Head(work[r]).do = "begin" THEN "txn_begin"
                     ELSE "txn_begin_index", Callee(r))>> \in Seq(Steps)
            BY <1>2, StepType
        <3>2. QED
            BY <2>3, <3>1 DEF LockDatabase
    <2>4. CASE ReadObject(r)
        <3>1. Callee(r) \in Models => Read(MappedTo[Callee(r)]) \in Seq(Steps)
            BY AdaptorAssumption, StepType, TwoCalls DEF Read
        <3>2. QED
            BY <2>4, <3>1, NoCalls DEF ReadObject
    <2>5. CASE OpenIndex(r)
        BY <2>5, NoCalls DEF OpenIndex
    <2>6. QED
        BY <2>1, <2>2, <2>3, <2>4, <2>5
<1>4. \E q \in Seq(Steps) : Continued(r, q)
    BY <1>2, <1>3, ReturnContinues, CallContinues
<1>5. /\ \A i \in DOMAIN begun[r] : i \in DOMAIN begun'[r] /\ begun'[r][i] = begun[r][i]
      /\ \A a \in Range(begun'[r]) : a \in Range(begun[r]) \/ staged[a] = {}
    BY <1>1
<1>6. UNCHANGED <<store, staged, lost, outcomes, phase, caught, operations>>
    BY <1>1
<1>7. QED
    BY <1>2, <1>4, <1>5, <1>6, StableCall

LEMMA BeginTransactionChanges ==
    ASSUME LockInv, ChangesInv, NEW r \in Threads, OthersRest(r), BeginTransaction(r)
    PROVE  ChangesInv'
<1>0. PICK a : a = Callee(r)
    OBVIOUS
<1>1. /\ TypeOK /\ phase[r] = "run" /\ work[r] # <<>> /\ a \in Transactional
      /\ Head(work[r]).do \notin {"journal_epilogue", "add_entry"}
    BY <1>0, CallingRuns DEF BeginTransaction, StepInOrder
<1>2. /\ UNCHANGED <<store, staged, lost, outcomes, phase, caught, operations>>
      /\ writer[a] = NoThread /\ Return(r)
      /\ begun'[r] = IF Head(work[r]).do = "txn_begin" THEN Append(begun[r], a) ELSE begun[r]
    BY <1>0, <1>1 DEF BeginTransaction, TypeOK
<1>3. \E q \in Seq(Steps) : Continued(r, q)
    BY <1>1, <1>2, NoCalls, ReturnContinues
<1>4. staged[a] = {}
    <2>1. \A c \in staged[a] : c.by \in Threads /\ c.by = NoThread
        BY <1>1, <1>2, LockInvParts, ChangeFields DEF Counted, TypeOK
    <2>2. QED
        BY <2>1, ThreadAssumption
<1>5. /\ \A i \in DOMAIN begun[r] : i \in DOMAIN begun'[r] /\ begun'[r][i] = begun[r][i]
      /\ \A b \in Range(begun'[r]) : b \in Range(begun[r]) \/ staged[b] = {}
    <2>1. CASE Head(work[r]).do = "txn_begin"
        <3>1. /\ begun[r] \in Seq(Transactional) /\ Len(begun[r]) \in Nat
              /\ DOMAIN begun[r] = 1..Len(begun[r])
            BY <1>1, BegunRange
        <3>2. begun'[r] = Append(begun[r], a)
            BY <1>2, <2>1
        <3>3. /\ DOMAIN begun'[r] = 1..(Len(begun[r]) + 1)
              /\ \A i \in 1..Len(begun[r]) : begun'[r][i] = begun[r][i]
              /\ begun'[r][Len(begun[r]) + 1] = a
            BY <1>1, <3>1, <3>2, AppendProperties
        <3>4. \A i \in DOMAIN begun'[r] : i \in DOMAIN begun[r] \/ i = Len(begun[r]) + 1
            BY <3>1, <3>3
        <3>5. \A b \in Range(begun'[r]) : b \in Range(begun[r]) \/ b = a
            BY <3>1, <3>3, <3>4 DEF Range
        <3>6. QED
            BY <1>4, <3>1, <3>3, <3>5
    <2>2. CASE Head(work[r]).do # "txn_begin"
        BY <1>2, <2>2
    <2>3. QED
        BY <2>1, <2>2
<1>6. UNCHANGED <<store, staged, lost, outcomes, phase, caught, operations>>
    BY <1>2
<1>7. QED
    BY <1>1, <1>3, <1>5, <1>6, StableCall

LEMMA JournalEpilogueChanges ==
    ASSUME LockInv, ChangesInv, NEW r \in Threads, OthersRest(r), JournalEpilogue(r)
    PROVE  ChangesInv'
<1>0. PICK a : a = Callee(r)
    OBVIOUS
<1>1. /\ TypeOK /\ phase[r] = "run" /\ work[r] # <<>> /\ a \in Adaptors /\ a = work[r][1].on
      /\ work[r][1].do = "journal_epilogue" /\ 1 \in DOMAIN work[r]
    BY <1>0, CallingRuns DEF JournalEpilogue
<1>2. /\ UNCHANGED <<phase, operations, caught, store, staged, lost, outcomes, begun>>
      /\ IF a \in DOMAIN JournalOf
         THEN Call(r, <<Step("get_cached_begin", JournalOf[a]), EntryStep(JournalOf[a], a)>>)
         ELSE Return(r)
    BY <1>0 DEF JournalEpilogue, cacheVars, lmdbVars
<1>3. PICK q \in Seq(Steps) :
        /\ Continued(r, q)
        /\ a \in DOMAIN JournalOf => Len(q) = 2 /\ q[2] = EntryStep(JournalOf[a], a)
    <2>1. CASE a \in DOMAIN JournalOf
        <3>1. JournalOf[a] \in Adaptors
            BY <2>1, AdaptorAssumption
        <3> DEFINE q == <<Step("get_cached_begin", JournalOf[a]), EntryStep(JournalOf[a], a)>>
        <3>2. /\ Step("get_cached_begin", JournalOf[a]) \in Steps
              /\ EntryStep(JournalOf[a], a) \in Steps
            BY <1>1, <3>1, StepType, EntryStepType
        <3>3. q \in Seq(Steps) /\ Len(q) = 2 /\ q[2] = EntryStep(JournalOf[a], a)
            BY <3>2, TwoCalls
        <3>4. Call(r, q)
            BY <1>2, <2>1
        <3> HIDE DEF q
        <3>5. Continued(r, q)
            BY <1>1, <3>3, <3>4, CallContinues
        <3>6. QED
            BY <3>3, <3>5
    <2>2. CASE a \notin DOMAIN JournalOf
        BY <1>1, <1>2, <2>2, NoCalls, ReturnContinues
    <2>3. QED
        BY <2>1, <2>2
<1>4. ASSUME NEW c \in Changes, c.by = r, Unhindered(c)'
      PROVE  Unhindered(c) /\ (EntryToCome(c) => EntryIsThere(c) \/ EntryToCome(c)')
    <2>1. HasEnded(c)' <=> HasEnded(c)
        BY <1>2, SameEnding
    <2>2. Unhindered(c)
        BY <1>2, <1>4, <2>1 DEF Unhindered
    <2>3. ASSUME EntryToCome(c) PROVE EntryToCome(c)'
        <3>1. PICK i \in DOMAIN work[r] :
                \/ work[r][i].do = "journal_epilogue" /\ work[r][i].on = c.on
                \/ work[r][i].do = "add_entry" /\ work[r][i].of = c.on
            BY <1>4, <2>3 DEF EntryToCome
        <3>2. \E k \in DOMAIN work'[r] :
                \/ work'[r][k].do = "journal_epilogue" /\ work'[r][k].on = c.on
                \/ work'[r][k].do = "add_entry" /\ work'[r][k].of = c.on
            <4>1. CASE i > 1
                BY <1>1, <1>3, <3>1, <4>1, CallsBehindStay
            <4>2. CASE i = 1
                <5>1. a \in DOMAIN JournalOf /\ c.on = a
                    BY <1>1, <2>2, <3>1, <4>2 DEF Unhindered
                <5>2. JournalOf[a] \in Adaptors
                    BY <5>1, AdaptorAssumption
                <5>3. /\ q[2] = EntryStep(JournalOf[a], a) /\ Len(q) = 2
                      /\ q[2].do = "add_entry" /\ q[2].of = a
                    BY <1>1, <1>3, <5>1, <5>2, EntryStepType
                <5>4. work'[r][2] = q[2]
                    BY <1>3, <5>3 DEF Continued
                <5>5. 2 \in DOMAIN work'[r]
                    <6>1. work'[r] \in Seq(Steps) /\ Len(work'[r]) = 2 + Len(work[r]) - 1
                        BY <1>3, <5>3 DEF Continued
                    <6>2. Len(work[r]) \in Nat \ {0}
                        BY <1>1, NextCall
                    <6>3. QED
                        BY <6>1, <6>2
                <5>6. QED
                    BY <5>1, <5>3, <5>4, <5>5
            <4>3. i \in Nat /\ i > 0
                BY <1>1, <3>1, NextCall DEF TypeOK
            <4>4. QED
                BY <4>1, <4>2, <4>3
        <3>3. QED
            BY <1>2, <1>4, <2>3, <3>2 DEF EntryToCome
    <2>4. QED
        BY <2>2, <2>3
<1>5. /\ UNCHANGED <<store, staged, lost>> /\ outcomes'[r] = outcomes[r]
      /\ phase'[r] # "idle" /\ phase[r] # "idle" /\ begun'[r] = begun[r]
    BY <1>1, <1>2
<1>6. /\ \A i \in DOMAIN begun[r] : i \in DOMAIN begun'[r] /\ begun'[r][i] = begun[r][i]
      /\ \A b \in Range(begun'[r]) : b \in Range(begun[r]) \/ staged[b] = {}
    BY <1>5
<1>7. QED
    BY <1>1, <1>4, <1>5, <1>6, StableStep

LEMMA UpdateModelChanges ==
    ASSUME LockInv, ChangesInv, NEW r \in Threads, OthersRest(r), UpdateObject(r),
           Callee(r) \in Models
    PROVE  ChangesInv'
<1>1. /\ TypeOK /\ phase[r] = "run" /\ work[r] # <<>> /\ Callee(r) = work[r][1].on
      /\ StepInOrder(work[r][1], sessions[r]) /\ Head(work[r]) = work[r][1]
      /\ work[r][1].do \in {"update_object", "add_entry"}
    BY CallingRuns DEF UpdateObject
<1>2. work[r][1].do # "add_entry"
    BY <1>1, AdaptorAssumption DEF StepInOrder
<1>3. /\ UNCHANGED <<phase, operations, caught, cacheVars, lost, outcomes, staged, store>>
      /\ Call(r, Update(MappedTo[Callee(r)]))
    BY DEF UpdateObject, Mapped
<1>4. MappedTo[Callee(r)] \in Adaptors
    BY AdaptorAssumption
<1>5. Update(MappedTo[Callee(r)]) \in Seq(Steps)
    BY <1>4, StepType, ThreeCalls DEF Update
<1>6. \E q \in Seq(Steps) : Continued(r, q)
    BY <1>1, <1>3, <1>5, CallContinues
<1>7. /\ UNCHANGED <<store, staged, lost, outcomes, phase, caught, operations>>
      /\ begun' = begun /\ Head(work[r]).do \notin {"journal_epilogue", "add_entry"}
    BY <1>1, <1>2, <1>3 DEF cacheVars
<1>8. /\ \A i \in DOMAIN begun[r] : i \in DOMAIN begun'[r] /\ begun'[r][i] = begun[r][i]
      /\ \A b \in Range(begun'[r]) : b \in Range(begun[r]) \/ staged[b] = {}
    BY <1>7
<1>9. QED
    BY <1>1, <1>6, <1>7, <1>8, StableCall

LEMMA ThrowChanges ==
    ASSUME LockInv, ChangesInv, NEW r \in Threads, OthersRest(r),
           CallThrows(r) \/ UpdateIndexThrows(r) \/ BeginFails(r)
    PROVE  ChangesInv'
<1>1. /\ Throw(r) /\ TypeOK /\ phase[r] = "run"
      /\ UNCHANGED <<store, staged, lost, outcomes, begun>>
    BY DEF CallThrows, UpdateIndexThrows, BeginFails, Calling, cacheVars, lmdbVars, LockInv
<1>2. phase'[r] = "abort" \/ (phase'[r] = "run" /\ caught'[r])
    BY <1>1, ThrowRests
<1>3. ASSUME NEW c \in Changes, c.by = r PROVE ~Unhindered(c)'
    BY <1>2, <1>3 DEF Unhindered
<1>4. /\ \A i \in DOMAIN begun[r] : i \in DOMAIN begun'[r] /\ begun'[r][i] = begun[r][i]
      /\ \A b \in Range(begun'[r]) : b \in Range(begun[r]) \/ staged[b] = {}
      /\ UNCHANGED <<store, staged, lost>> /\ outcomes'[r] = outcomes[r]
      /\ phase'[r] # "idle" /\ phase[r] # "idle"
    BY <1>1, <1>2
<1>5. QED
    BY <1>1, <1>3, <1>4, StableStep

LEMMA StartChanges ==
    ASSUME LockInv, ChangesInv, NEW r \in Threads, OthersRest(r), Start(r)
    PROVE  ChangesInv'
<1>1. /\ TypeOK /\ phase[r] = "idle" /\ phase'[r] = "run" /\ begun'[r] = <<>>
      /\ UNCHANGED <<store, staged, lost>> /\ outcomes'[r] = outcomes[r]
    BY DEF LockInv, TypeOK, Start, lmdbVars
<1>2. phase'[r] # "idle" /\ phase[r] # "run"
    BY <1>1
<1>3. QED
    BY <1>1, <1>2, StableStep

LEMMA AskFinishChanges ==
    ASSUME LockInv, ChangesInv, NEW r \in Threads, OthersRest(r), Ask(r) \/ Finish(r)
    PROVE  ChangesInv'
<1>1. /\ TypeOK /\ phase[r] = "run" /\ phase'[r] \in {"run", "commit"} /\ work[r] = <<>>
      /\ UNCHANGED <<store, staged, lost, outcomes, begun, caught>>
    BY DEF Ask, Finish, LockInv, TypeOK, cacheVars, lmdbVars
<1>2. ASSUME NEW c \in Changes, c.by = r, Unhindered(c)'
      PROVE  Unhindered(c) /\ ~EntryToCome(c)
    <2>1. HasEnded(c)' <=> HasEnded(c)
        BY <1>1, SameEnding
    <2>2. Unhindered(c)
        BY <1>1, <1>2, <2>1 DEF Unhindered
    <2>3. ~EntryToCome(c)
        BY <1>1, <1>2 DEF EntryToCome
    <2>4. QED
        BY <2>2, <2>3
<1>3. /\ \A i \in DOMAIN begun[r] : i \in DOMAIN begun'[r] /\ begun'[r][i] = begun[r][i]
      /\ \A b \in Range(begun'[r]) : b \in Range(begun[r]) \/ staged[b] = {}
      /\ UNCHANGED <<store, staged, lost>> /\ outcomes'[r] = outcomes[r]
      /\ phase'[r] # "idle" /\ phase[r] # "idle"
    BY <1>1
<1>4. QED
    BY <1>1, <1>2, <1>3, StableStep

-----------------------------------------------------------------------------
(* A change is made. *)

LEMMA EntryGrows ==
    ASSUME \A a \in Transactional : staged[a] \subseteq staged'[a],
           \A a \in Adaptors : store[a] \subseteq store'[a],
           NEW c, c.on \in DOMAIN JournalOf
    PROVE  /\ EntryFor(c) => EntryFor(c)'
           /\ EntryIsThere(c) => EntryIsThere(c)'
<1>1. JournalOf[c.on] \in Adaptors
    BY AdaptorAssumption
<1>2. EntryFor(c) => EntryFor(c)'
    BY <1>1 DEF EntryFor
<1>3. QED
    BY <1>2 DEF EntryIsThere

LEMMA WriteChanges ==
    ASSUME LockInv, ChangesInv, NEW r \in Threads, OthersRest(r), UpdateObject(r),
           Callee(r) \notin Models
    PROVE  ChangesInv'
<1>0. PICK a, n : a = Callee(r) /\ n = Change(r, Head(work[r]))
    OBVIOUS
<1>1. /\ TypeOK /\ phase[r] = "run" /\ work[r] # <<>> /\ a = work[r][1].on /\ a \in Adaptors
      /\ StepInOrder(work[r][1], sessions[r]) /\ Head(work[r]) = work[r][1]
      /\ work[r][1].do \in {"update_object", "add_entry"} /\ work[r][1] \in Steps
      /\ 1 \in DOMAIN work[r] /\ InOrder(r) /\ Listed(r)
      /\ Calling(r, {"update_object", "add_entry"})
    BY <1>0, CallingRuns, LockInvParts DEF UpdateObject
<1>2. /\ UNCHANGED <<phase, operations, caught, begun, open, lost, outcomes>>
      /\ Write(r) /\ Return(r)
    BY DEF UpdateObject, cacheVars
<1>3. /\ n \in Changes /\ n.by = r /\ n.request = Current(r) /\ n.operation = operations[r]
      /\ n.on = a /\ n.of = work[r][1].of /\ n.entry = (work[r][1].do = "add_entry")
      /\ n.position = Position(r, a)
    BY <1>0, <1>1, ChangeType
<1>4. ~HasEnded(n)
    <2>1. Len(outcomes[r]) \in Nat
        BY <1>1 DEF TypeOK
    <2>2. QED
        BY <1>3, <2>1 DEF HasEnded, Current
<1>5. /\ a \in open[r] => /\ a \in Transactional
                          /\ n.position \in DOMAIN begun[r] /\ begun[r][n.position] = a
      /\ a \notin open[r] => n.position = 0
    <2>1. a \in open[r] => a \in Transactional
        BY <1>1 DEF TypeOK
    <2>2. a \in Transactional => a \in Range(begun[r])
        BY <1>1 DEF InOrder, CallInOrder
    <2>3. a \in Range(begun[r]) => a \in open[r]
        BY <1>1 DEF Listed
    <2>4. QED
        BY <1>1, <1>3, <2>1, <2>2, <2>3, PositionIs
<1>6. /\ \A b \in Transactional :
            \/ staged'[b] = staged[b]
            \/ b = a /\ a \in open[r] /\ staged'[b] = staged[b] \cup {n}
      /\ \A b \in Adaptors :
            \/ store'[b] = store[b]
            \/ b = a /\ a \notin open[r] /\ store'[b] = store[b] \cup {n}
    <2>1. /\ \A b \in Transactional :
               \/ staged'[b] = staged[b]
               \/ /\ b = Callee(r) /\ b \in open[r]
                  /\ staged'[b] = staged[b] \cup {Change(r, Head(work[r]))}
          /\ \A b \in Adaptors :
               \/ store'[b] = store[b]
               \/ /\ b = Callee(r) /\ b \notin open[r]
                  /\ store'[b] = store[b] \cup {Change(r, Head(work[r]))}
        BY <1>1, <1>2, WriteEffect
    <2>2. QED
        BY <1>0, <2>1
<1>7. (a \in open[r] /\ n \in staged'[a]) \/ (a \notin open[r] /\ n \in store'[a])
    BY <1>0, <1>1, <1>2, <1>5 DEF Write, TypeOK
<1>8. /\ \A b \in Transactional : staged[b] \subseteq Changes /\ staged[b] \subseteq staged'[b]
      /\ \A b \in Adaptors : store[b] \subseteq Changes /\ store[b] \subseteq store'[b]
    BY <1>1, <1>6 DEF TypeOK
<1>9. \A c : /\ HasEnded(c)' <=> HasEnded(c)
             /\ RequestOf(c)' = RequestOf(c) /\ Current(c.by)' = Current(c.by)
    BY <1>2, SameEnding
<1>10. \A c, b : /\ StagedSound(b, c) => StagedSound(b, c)'
                 /\ DurableSound(c) => DurableSound(c)'
                 /\ LostSound(c) => LostSound(c)'
                 /\ Unhindered(c)' <=> Unhindered(c)
    BY <1>2, <1>9 DEF StagedSound, DurableSound, LostSound, Unhindered
<1>11. Continued(r, <<>>)
    BY <1>1, <1>2, ReturnContinues
<1>12. ASSUME NEW c \in Changes, Comes(c),
              (c.by = r /\ ~HasEnded(c)) => c.request = Current(c.by)
       PROVE  Comes(c)'
    <2>1. SUFFICES ASSUME Unhindered(c) PROVE (EntryIsThere(c) \/ EntryToCome(c))'
        BY <1>10 DEF Comes
    <2>2. CASE EntryIsThere(c)
        BY <1>8, <2>1, <2>2, EntryGrows DEF Unhindered
    <2>3. CASE EntryToCome(c) /\ c.by # r
        BY <2>3, OthersSound
    <2>4. CASE EntryToCome(c) /\ c.by = r
        <3>1. PICK i \in DOMAIN work[r] :
                \/ work[r][i].do = "journal_epilogue" /\ work[r][i].on = c.on
                \/ work[r][i].do = "add_entry" /\ work[r][i].of = c.on
            BY <2>4 DEF EntryToCome
        <3>2. CASE i > 1
            <4>1. PICK k \in DOMAIN work'[r] : work'[r][k] = work[r][i]
                BY <1>1, <1>11, <3>2, NoCalls, CallsBehindStay
            <4>2. EntryToCome(c)'
                BY <1>2, <2>4, <3>1, <4>1 DEF EntryToCome
            <4>3. QED
                BY <4>2
        <3>3. CASE i = 1
            <4>1. work[r][1].do = "add_entry" /\ work[r][1].of = c.on
                BY <1>1, <3>1, <3>3
            <4>2. a = JournalOf[c.on]
                BY <1>1, <4>1 DEF StepInOrder
            <4>3. c.request = Current(r) /\ c.operation = operations[r]
                BY <1>12, <2>1, <2>4 DEF Unhindered, EntryToCome
            <4>4. IsEntryFor(n, c)
                BY <1>3, <2>4, <4>1, <4>3 DEF IsEntryFor
            <4>5. EntryIsThere(c)'
                <5>1. CASE a \in open[r] /\ n \in staged'[a]
                    BY <1>5, <4>2, <4>4, <5>1 DEF EntryIsThere
                <5>2. CASE n \in store'[a]
                    BY <4>2, <4>4, <5>2 DEF EntryIsThere, EntryFor
                <5>3. QED
                    BY <1>7, <5>1, <5>2
            <4>6. QED
                BY <4>5
        <3>4. i \in Nat /\ i > 0
            BY <1>1, <3>1, NextCall DEF TypeOK
        <3>5. QED
            BY <3>2, <3>3, <3>4
    <2>5. QED
        BY <1>12, <2>1, <2>2, <2>3, <2>4 DEF Comes
<1>13. Comes(n)'
    <2>1. SUFFICES ASSUME ~n.entry PROVE EntryToCome(n)'
        BY DEF Comes, Unhindered
    <2>2. work[r][1].do = "update_object"
        BY <1>1, <1>3, <2>1
    <2>3. /\ 1 < Len(work[r]) /\ work[r][2].on = a /\ work[r][2].do = "journal_epilogue"
        BY <1>1, <2>2 DEF InOrder, CallInOrder
    <2>4. 2 \in DOMAIN work[r] /\ 2 > 1
        BY <1>1, <2>3, NextCall DEF TypeOK
    <2>5. PICK k \in DOMAIN work'[r] : work'[r][k] = work[r][2]
        BY <1>1, <1>11, <2>4, NoCalls, CallsBehindStay
    <2>6. QED
        BY <1>2, <1>3, <2>3, <2>5 DEF EntryToCome
<1>14. ASSUME NEW b \in Transactional, NEW c \in staged'[b]
       PROVE  StagedSound(b, c)' /\ Comes(c)'
    <2>1. CASE c \in staged[b]
        <3>1. c \in Changes /\ StagedSound(b, c) /\ Comes(c)
            BY <1>8, <2>1 DEF ChangesInv
        <3>2. ~HasEnded(c) => c.request = Current(c.by)
            BY <3>1 DEF StagedSound
        <3>3. QED
            BY <1>10, <1>12, <3>1, <3>2
    <2>2. CASE c = n /\ b = a /\ a \in open[r]
        <3>1. StagedSound(a, n)
            BY <1>1, <1>3, <1>4, <1>5, <2>2 DEF StagedSound
        <3>2. QED
            BY <1>10, <1>13, <2>2, <3>1
    <2>3. QED
        BY <1>6, <2>1, <2>2
<1>15. ASSUME NEW b \in Adaptors, NEW c \in store'[b]
       PROVE  DurableSound(c)' /\ Comes(c)' /\ HasEntry(c)'
    <2>1. CASE c \in store[b]
        <3>1. c \in Changes /\ DurableSound(c) /\ Comes(c) /\ HasEntry(c)
            BY <1>8, <2>1 DEF ChangesInv
        <3>2. ~HasEnded(c) => c.request = Current(c.by)
            BY <3>1 DEF DurableSound
        <3>3. HasEntry(c)'
            BY <1>8, <1>9, <3>1, EntryGrows DEF HasEntry
        <3>4. QED
            BY <1>10, <1>12, <3>1, <3>2, <3>3
    <2>2. CASE c = n /\ a \notin open[r]
        <3>1. DurableSound(n)
            BY <1>1, <1>3, <1>4, <1>5, <2>2 DEF DurableSound
        <3>2. HasEntry(n)'
            BY <1>4, <1>9 DEF HasEntry
        <3>3. QED
            BY <1>10, <1>13, <2>2, <3>1, <3>2
    <2>3. QED
        BY <1>6, <2>1, <2>2
<1>16. \A c \in lost' : LostSound(c)'
    BY <1>2, <1>10 DEF ChangesInv
<1>17. ASSUME NEW b \in Adaptors, NEW c \in store'[b]
       PROVE  /\ \A d \in lost' : Reversed(c, d)
              /\ \A e \in Transactional : \A d \in staged'[e] : Reversed(c, d)
    <2>1. CASE c \in store[b]
        <3>1. /\ \A d \in lost : Reversed(c, d)
              /\ \A e \in Transactional : \A d \in staged[e] : Reversed(c, d)
              /\ DurableSound(c)
            BY <2>1 DEF ChangesInv
        <3>2. Reversed(c, n)
            <4>1. ASSUME n.by = c.by, n.request = c.request, c.position > 0 PROVE FALSE
                <5>1. ~HasEnded(c)
                    BY <1>4, <4>1 DEF HasEnded
                <5>2. phase[r] = "commit"
                    BY <1>3, <3>1, <4>1, <5>1 DEF DurableSound
                <5>3. QED
                    BY <1>1, <5>2
            <4>2. QED
                BY <4>1 DEF Reversed
        <3>3. QED
            BY <1>2, <1>6, <3>1, <3>2
    <2>2. CASE c = n /\ a \notin open[r]
        BY <1>5, <2>2 DEF Reversed
    <2>3. QED
        BY <1>6, <2>1, <2>2
<1>18. QED
    BY <1>14, <1>15, <1>16, <1>17, ChangesInvNext

-----------------------------------------------------------------------------
(* A transaction ends. *)

(* The changes in the last transaction of the list are the request's own and *)
(* are at the end of the list.                                               *)
LEMMA LastStaged ==
    ASSUME LockInv, ChangesInv, NEW r \in Threads, phase[r] # "idle", begun[r] # <<>>,
           NEW c \in staged[Ending(r)]
    PROVE  /\ c \in Changes /\ c.by = r /\ ~HasEnded(c) /\ c.request = Current(r)
           /\ c.position = Len(begun[r])
<1> DEFINE a == Ending(r)
<1>1. /\ a \in Transactional /\ a \in Range(begun[r]) /\ writer[a] = r
      /\ a = begun[r][Len(begun[r])] /\ Len(begun[r]) \in DOMAIN begun[r]
    BY EndingIsHeld
<1>2. /\ StagedSound(a, c) /\ c.by = writer[a] /\ c \in Changes
    BY <1>1, LockInvParts DEF ChangesInv, Counted, LockInv, TypeOK
<1>3. ~HasEnded(c)
    BY <1>1, <1>2 DEF StagedSound
<1>4. c.position \in DOMAIN begun[r] /\ begun[r][c.position] = a /\ c.request = Current(r)
    BY <1>1, <1>2, <1>3 DEF StagedSound
<1>5. c.position = Len(begun[r])
    BY <1>1, <1>4, LockInvParts DEF Listed
<1>6. QED
    BY <1>1, <1>2, <1>3, <1>4, <1>5

(* What else is staged stays where it is in the list when the last one goes. *)
LEMMA ShorterStaged ==
    ASSUME LockInv, NEW r \in Threads, phase[r] # "idle", begun[r] # <<>>, phase'[r] # "idle",
           outcomes'[r] = outcomes[r],
           begun'[r] = RemoveAt(begun[r], Len(begun[r])),
           NEW b, b # Ending(r), NEW c, c.by = r, StagedSound(b, c)
    PROVE  StagedSound(b, c)'
<1>1. /\ begun[r] \in Seq(Transactional) /\ Len(begun[r]) \in Nat \ {0}
      /\ Ending(r) = begun[r][Len(begun[r])] /\ DOMAIN begun[r] = 1..Len(begun[r])
    BY EndingIsHeld
<1>2. /\ Len(begun'[r]) = Len(begun[r]) - 1 /\ begun'[r] \in Seq(Transactional)
      /\ \A i \in 1..(Len(begun[r]) - 1) : begun'[r][i] = begun[r][i]
    BY <1>1, RemoveLast
<1>3. DOMAIN begun'[r] = 1..(Len(begun[r]) - 1)
    BY <1>2
<1>4. /\ HasEnded(c)' <=> HasEnded(c)
      /\ RequestOf(c)' = RequestOf(c) /\ Current(c.by)' = Current(c.by)
    BY SameEnding
<1>5. CASE HasEnded(c)
    <2>1. b \notin Range(begun[r])
        BY <1>5 DEF StagedSound
    <2>2. \A i \in DOMAIN begun'[r] : i \in DOMAIN begun[r] /\ begun'[r][i] = begun[r][i]
        BY <1>1, <1>2, <1>3
    <2>3. b \notin Range(begun'[r])
        BY <2>1, <2>2 DEF Range
    <2>4. QED
        BY <1>4, <1>5, <2>3 DEF StagedSound
<1>6. CASE ~HasEnded(c)
    <2>1. c.position \in DOMAIN begun[r] /\ begun[r][c.position] = b /\ c.request = Current(r)
        BY <1>6 DEF StagedSound
    <2>2. c.position # Len(begun[r])
        BY <1>1, <2>1
    <2>3. c.position \in DOMAIN begun'[r] /\ begun'[r][c.position] = b
        BY <1>1, <1>2, <1>3, <2>1, <2>2
    <2>4. QED
        BY <1>4, <1>6, <2>1, <2>3 DEF StagedSound
<1>7. QED
    BY <1>5, <1>6

LEMMA CommitChanges ==
    ASSUME LockInv, ChangesInv, NEW r \in Threads, OthersRest(r), Commit(r)
    PROVE  ChangesInv'
<1>0. PICK a \in Transactional : a = Ending(r)
    BY EndingIsHeld DEF Commit
<1>1. /\ phase[r] = "commit" /\ begun[r] # <<>> /\ TypeOK
      /\ store' = [store EXCEPT ![a] = @ \cup staged[a]]
      /\ EndTransaction(a)
      /\ begun' = [begun EXCEPT ![r] = RemoveAt(@, NextToEnd(r))]
      /\ open' = [open EXCEPT ![r] = @ \ {Ending(r)}]
      /\ UNCHANGED <<phase, work, operations, caught, lost, outcomes>>
    BY <1>0 DEF Commit, LockInv, requestVars
<1>2. /\ staged'[a] = {}
      /\ \A b \in Transactional : b # a => staged'[b] = staged[b]
    BY <1>0, <1>1, EndingIsHeld, EndTransactionEffect
<1>3. /\ store'[a] = store[a] \cup staged[a]
      /\ \A b \in Adaptors : b # a => store'[b] = store[b]
      /\ a \in Adaptors
    BY <1>1, AdaptorAssumption DEF TypeOK
<1>4. /\ begun'[r] = RemoveAt(begun[r], Len(begun[r]))
      /\ Len(begun'[r]) = Len(begun[r]) - 1 /\ Len(begun[r]) \in Nat \ {0}
    BY <1>1, ShorterList
<1>5. /\ \A b \in Transactional : staged[b] \subseteq Changes
      /\ \A b \in Adaptors : store[b] \subseteq Changes
    BY <1>1 DEF TypeOK
<1>6. \A c : /\ HasEnded(c)' <=> HasEnded(c)
             /\ RequestOf(c)' = RequestOf(c) /\ Current(c.by)' = Current(c.by)
    BY <1>1, SameEnding
<1>7. \A c : /\ Unhindered(c)' <=> Unhindered(c)
             /\ EntryToCome(c)' <=> EntryToCome(c)
    BY <1>1, <1>6 DEF Unhindered, EntryToCome
<1>8. ASSUME NEW c, c.on \in DOMAIN JournalOf
      PROVE  /\ EntryFor(c) => EntryFor(c)'
             /\ EntryIsThere(c) => EntryIsThere(c)'
    <2>1. JournalOf[c.on] \in Adaptors
        BY <1>8, AdaptorAssumption
    <2>2. EntryFor(c) => EntryFor(c)'
        BY <1>3, <2>1 DEF EntryFor
    <2>3. ASSUME JournalOf[c.on] \in Transactional, NEW e \in staged[JournalOf[c.on]],
                 IsEntryFor(e, c)
          PROVE  EntryIsThere(c)'
        <3>1. CASE JournalOf[c.on] = a
            BY <1>3, <2>3, <3>1 DEF EntryIsThere, EntryFor
        <3>2. CASE JournalOf[c.on] # a
            BY <1>2, <2>3, <3>2 DEF EntryIsThere
        <3>3. QED
            BY <3>1, <3>2
    <2>4. QED
        BY <2>2, <2>3 DEF EntryIsThere
<1>9. ASSUME NEW c, Comes(c) PROVE Comes(c)'
    BY <1>7, <1>8, <1>9 DEF Comes, Unhindered
<1>10. ASSUME NEW b \in Transactional, NEW c \in staged'[b]
       PROVE  StagedSound(b, c)' /\ Comes(c)'
    <2>1. b # a /\ c \in staged[b] /\ c \in Changes
        BY <1>2, <1>5
    <2>2. StagedSound(b, c) /\ Comes(c)
        BY <2>1 DEF ChangesInv
    <2>3. CASE c.by # r
        BY <1>9, <2>1, <2>2, <2>3, OthersSound
    <2>4. CASE c.by = r
        BY <1>0, <1>1, <1>4, <1>9, <2>1, <2>2, <2>4, ShorterStaged
    <2>5. QED
        BY <2>3, <2>4
<1>11. ASSUME NEW b \in Adaptors, NEW c \in store'[b]
       PROVE  DurableSound(c)' /\ Comes(c)' /\ HasEntry(c)'
    <2>1. CASE c \in store[b]
        <3>1. c \in Changes /\ DurableSound(c) /\ Comes(c) /\ HasEntry(c)
            BY <1>5, <2>1 DEF ChangesInv
        <3>2. DurableSound(c)'
            <4>1. CASE c.by # r
                BY <3>1, <4>1, OthersSound
            <4>2. CASE c.by = r
                <5>1. c.position \in Nat
                    BY <3>1, ChangeFields
                <5>2. QED
                    BY <1>1, <1>4, <1>6, <3>1, <4>2, <5>1 DEF DurableSound
            <4>3. QED
                BY <4>1, <4>2
        <3>3. HasEntry(c)'
            BY <1>6, <1>8, <3>1 DEF HasEntry
        <3>4. QED
            BY <1>9, <3>1, <3>2, <3>3
    <2>2. CASE c \in staged[a]
        <3>1. /\ c \in Changes /\ c.by = r /\ ~HasEnded(c) /\ c.request = Current(r)
              /\ c.position = Len(begun[r])
            BY <1>0, <1>1, <2>2, LastStaged
        <3>2. Comes(c)'
            BY <1>9, <2>2 DEF ChangesInv
        <3>3. DurableSound(c)'
            BY <1>1, <1>4, <1>6, <3>1 DEF DurableSound
        <3>4. HasEntry(c)'
            BY <1>6, <3>1 DEF HasEntry
        <3>5. QED
            BY <3>2, <3>3, <3>4
    <2>3. QED
        BY <1>3, <2>1, <2>2
<1>12. \A c \in lost' : LostSound(c)'
    BY <1>1, <1>6 DEF ChangesInv, LostSound
<1>13. ASSUME NEW b \in Adaptors, NEW c \in store'[b]
       PROVE  /\ \A d \in lost' : Reversed(c, d)
              /\ \A e \in Transactional : \A d \in staged'[e] : Reversed(c, d)
    <2>1. CASE c \in store[b]
        BY <1>1, <1>2, <2>1 DEF ChangesInv
    <2>2. CASE c \in staged[a]
        <3>1. /\ c \in Changes /\ c.by = r /\ ~HasEnded(c) /\ c.request = Current(r)
              /\ c.position = Len(begun[r])
            BY <1>0, <1>1, <2>2, LastStaged
        <3>2. ASSUME NEW d, d.by = c.by, d.request = c.request
              PROVE  ~HasEnded(d)
            BY <3>1, <3>2 DEF HasEnded
        <3>3. ASSUME NEW d \in lost' PROVE Reversed(c, d)
            <4>1. LostSound(d)
                BY <1>1 DEF ChangesInv
            <4>2. QED
                BY <1>1, <3>1, <3>2, <4>1 DEF LostSound, Reversed
        <3>4. ASSUME NEW e \in Transactional, NEW d \in staged'[e] PROVE Reversed(c, d)
            <4>1. d \in staged[e]
                BY <1>2
            <4>2. StagedSound(e, d)
                BY <4>1 DEF ChangesInv
            <4>3. ASSUME d.by = c.by, d.request = c.request PROVE ~(d.position > c.position)
                <5>1. d.position \in DOMAIN begun[r]
                    BY <3>1, <3>2, <4>2, <4>3 DEF StagedSound
                <5>2. DOMAIN begun[r] = 1..Len(begun[r])
                    BY <1>1, BegunRange
                <5>3. QED
                    BY <1>4, <3>1, <5>1, <5>2
            <4>4. QED
                BY <4>3 DEF Reversed
        <3>5. QED
            BY <3>3, <3>4
    <2>3. QED
        BY <1>3, <2>1, <2>2
<1>14. QED
    BY <1>10, <1>11, <1>12, <1>13, ChangesInvNext

LEMMA AbortChanges ==
    ASSUME LockInv, ChangesInv, NEW r \in Threads, OthersRest(r), Abort(r)
    PROVE  ChangesInv'
<1>0. PICK a \in Transactional : a = Ending(r)
    BY EndingIsHeld DEF Abort
<1>1. /\ phase[r] = "abort" /\ begun[r] # <<>> /\ TypeOK
      /\ lost' = lost \cup staged[a] /\ EndTransaction(a)
      /\ begun' = [begun EXCEPT ![r] = RemoveAt(@, NextToEnd(r))]
      /\ open' = [open EXCEPT ![r] = @ \ {Ending(r)}]
      /\ UNCHANGED <<phase, work, operations, caught, store, outcomes>>
    BY <1>0 DEF Abort, LockInv, requestVars
<1>2. /\ staged'[a] = {}
      /\ \A b \in Transactional : b # a => staged'[b] = staged[b]
    BY <1>0, <1>1, EndingIsHeld, EndTransactionEffect
<1>3. /\ begun'[r] = RemoveAt(begun[r], Len(begun[r]))
      /\ Len(begun'[r]) = Len(begun[r]) - 1 /\ Len(begun[r]) \in Nat \ {0}
    BY <1>1, ShorterList
<1>4. /\ \A b \in Transactional : staged[b] \subseteq Changes
      /\ \A b \in Adaptors : store[b] \subseteq Changes
    BY <1>1 DEF TypeOK
<1>5. \A c : /\ HasEnded(c)' <=> HasEnded(c)
             /\ RequestOf(c)' = RequestOf(c) /\ Current(c.by)' = Current(c.by)
    BY <1>1, SameEnding
<1>6. \A c : /\ Unhindered(c)' <=> Unhindered(c)
             /\ EntryToCome(c)' <=> EntryToCome(c)
    BY <1>1, <1>5 DEF Unhindered, EntryToCome
<1>7. \A c : EntryFor(c)' <=> EntryFor(c)
    BY <1>1 DEF EntryFor
<1>8. ASSUME NEW c, Comes(c) PROVE Comes(c)'
    <2>1. SUFFICES ASSUME Unhindered(c) PROVE (EntryIsThere(c) \/ EntryToCome(c))'
        BY <1>6 DEF Comes
    <2>2. c.by # r
        BY <1>1, <2>1 DEF Unhindered
    <2>3. ASSUME JournalOf[c.on] \in Transactional, NEW e \in staged[JournalOf[c.on]],
                 IsEntryFor(e, c)
          PROVE  EntryIsThere(c)'
        <3>1. JournalOf[c.on] # a
            BY <1>0, <1>1, <2>2, <2>3, LastStaged DEF IsEntryFor
        <3>2. QED
            BY <1>2, <2>3, <3>1 DEF EntryIsThere
    <2>4. QED
        BY <1>6, <1>7, <1>8, <2>1, <2>3 DEF Comes, EntryIsThere
<1>9. ASSUME NEW b \in Transactional, NEW c \in staged'[b]
      PROVE  StagedSound(b, c)' /\ Comes(c)'
    <2>1. b # a /\ c \in staged[b] /\ c \in Changes
        BY <1>2, <1>4
    <2>2. StagedSound(b, c) /\ Comes(c)
        BY <2>1 DEF ChangesInv
    <2>3. CASE c.by # r
        BY <1>8, <2>1, <2>2, <2>3, OthersSound
    <2>4. CASE c.by = r
        BY <1>0, <1>1, <1>3, <1>8, <2>1, <2>2, <2>4, ShorterStaged
    <2>5. QED
        BY <2>3, <2>4
<1>10. ASSUME NEW b \in Adaptors, NEW c \in store'[b]
       PROVE  DurableSound(c)' /\ Comes(c)' /\ HasEntry(c)'
    <2>1. c \in store[b] /\ c \in Changes
        BY <1>1, <1>4
    <2>2. DurableSound(c) /\ Comes(c) /\ HasEntry(c)
        BY <2>1 DEF ChangesInv
    <2>3. DurableSound(c)'
        <3>1. CASE c.by # r
            BY <2>1, <2>2, <3>1, OthersSound
        <3>2. CASE c.by = r
            <4>1. c.position \in Nat
                BY <2>1, ChangeFields
            <4>2. QED
                BY <1>1, <1>3, <1>5, <2>2, <3>2, <4>1 DEF DurableSound
        <3>3. QED
            BY <3>1, <3>2
    <2>4. HasEntry(c)'
        BY <1>5, <1>7, <2>2 DEF HasEntry
    <2>5. QED
        BY <1>8, <2>2, <2>3, <2>4
<1>11. ASSUME NEW c \in lost' PROVE LostSound(c)'
    <2>1. CASE c \in lost
        BY <1>1, <1>5, <2>1 DEF ChangesInv, LostSound
    <2>2. CASE c \in staged[a]
        BY <1>0, <1>1, <1>5, <2>2, LastStaged DEF LostSound
    <2>3. QED
        BY <1>1, <2>1, <2>2
<1>12. ASSUME NEW b \in Adaptors, NEW c \in store'[b]
       PROVE  /\ \A d \in lost' : Reversed(c, d)
              /\ \A e \in Transactional : \A d \in staged'[e] : Reversed(c, d)
    <2>1. /\ \A d \in lost : Reversed(c, d)
          /\ \A e \in Transactional : \A d \in staged[e] : Reversed(c, d)
        BY <1>1 DEF ChangesInv
    <2>2. QED
        BY <1>1, <1>2, <2>1
<1>13. QED
    BY <1>9, <1>10, <1>11, <1>12, ChangesInvNext

LEMMA CommitFailsChanges ==
    ASSUME LockInv, ChangesInv, NEW r \in Threads, OthersRest(r), CommitFails(r)
    PROVE  ChangesInv'
<1>0. PICK a \in Transactional : a = Ending(r)
    BY EndingIsHeld DEF CommitFails
<1>1. /\ phase[r] = "commit" /\ begun[r] # <<>> /\ TypeOK
      /\ lost' = lost \cup staged[a] /\ EndTransaction(a) /\ End(r, "failed")
      /\ UNCHANGED <<work, store>>
    BY <1>0 DEF CommitFails, LockInv
<1>2. /\ staged'[a] = {}
      /\ \A b \in Transactional : b # a => staged'[b] = staged[b]
    BY <1>0, <1>1, EndingIsHeld, EndTransactionEffect
<1>3. phase'[r] = "idle" /\ outcomes'[r] = Append(outcomes[r], "failed") /\ "failed" \in Outcomes
    BY <1>1, EndRests DEF Outcomes
<1>4. /\ \A b \in Transactional : staged[b] \subseteq Changes
      /\ \A b \in Adaptors : store[b] \subseteq Changes
      /\ lost \subseteq Changes
    BY <1>1 DEF TypeOK
<1>5. ASSUME NEW c \in Changes, c.by = r
      PROVE  /\ HasEnded(c) => HasEnded(c)' /\ RequestOf(c)' = RequestOf(c)
             /\ (~HasEnded(c) /\ c.request = Current(r)) => HasEnded(c)' /\ RequestOf(c)' = "failed"
    BY <1>1, <1>3, <1>5, EndingNow
<1>6. \A c : EntryFor(c)' <=> EntryFor(c)
    BY <1>1 DEF EntryFor
<1>7. ASSUME NEW c \in Changes, Comes(c) PROVE Comes(c)'
    <2>1. CASE c.by = r
        BY <1>3, <2>1 DEF Comes, Unhindered
    <2>2. CASE c.by # r
        <3>1. SUFFICES ASSUME Unhindered(c) PROVE (EntryIsThere(c) \/ EntryToCome(c))'
            BY <2>2, OthersSound DEF Comes
        <3>2. ASSUME JournalOf[c.on] \in Transactional, NEW e \in staged[JournalOf[c.on]],
                     IsEntryFor(e, c)
              PROVE  EntryIsThere(c)'
            <4>1. JournalOf[c.on] # a
                BY <1>0, <1>1, <2>2, <3>2, LastStaged DEF IsEntryFor
            <4>2. QED
                BY <1>2, <3>2, <4>1 DEF EntryIsThere
        <3>3. EntryToCome(c) => EntryToCome(c)'
            BY <2>2, OthersSound
        <3>4. QED
            BY <1>6, <1>7, <3>1, <3>2, <3>3 DEF Comes, EntryIsThere
    <2>3. QED
        BY <2>1, <2>2
<1>8. ASSUME NEW b \in Transactional, NEW c \in staged'[b]
      PROVE  StagedSound(b, c)' /\ Comes(c)'
    <2>1. b # a /\ c \in staged[b] /\ c \in Changes
        BY <1>2, <1>4
    <2>2. StagedSound(b, c) /\ Comes(c)
        BY <2>1 DEF ChangesInv
    <2>3. CASE c.by # r
        BY <1>7, <2>1, <2>2, <2>3, OthersSound
    <2>4. CASE c.by = r
        BY <1>3, <1>5, <1>7, <2>1, <2>2, <2>4 DEF StagedSound
    <2>5. QED
        BY <2>3, <2>4
<1>9. ASSUME NEW b \in Adaptors, NEW c \in store'[b]
      PROVE  DurableSound(c)' /\ Comes(c)' /\ HasEntry(c)'
    <2>1. c \in store[b] /\ c \in Changes
        BY <1>1, <1>4
    <2>2. DurableSound(c) /\ Comes(c) /\ HasEntry(c)
        BY <2>1 DEF ChangesInv
    <2>3. CASE c.by # r
        <3>1. HasEntry(c)'
            BY <1>6, <2>1, <2>2, <2>3, OthersSound DEF HasEntry
        <3>2. QED
            BY <1>7, <2>1, <2>2, <2>3, <3>1, OthersSound
    <2>4. CASE c.by = r
        <3>1. DurableSound(c)'
            BY <1>5, <2>1, <2>2, <2>4 DEF DurableSound
        <3>2. HasEntry(c)'
            BY <1>5, <1>6, <2>1, <2>2, <2>4 DEF HasEntry, DurableSound
        <3>3. QED
            BY <1>7, <2>1, <2>2, <3>1, <3>2
    <2>5. QED
        BY <2>3, <2>4
<1>10. ASSUME NEW c \in lost' PROVE LostSound(c)'
    <2>1. CASE c \in lost
        <3>1. c \in Changes /\ LostSound(c)
            BY <1>4, <2>1 DEF ChangesInv
        <3>2. CASE c.by # r
            BY <3>1, <3>2, OthersSound
        <3>3. CASE c.by = r
            BY <1>1, <1>5, <3>1, <3>3 DEF LostSound
        <3>4. QED
            BY <3>2, <3>3
    <2>2. CASE c \in staged[a]
        BY <1>0, <1>1, <1>5, <2>2, LastStaged DEF LostSound
    <2>3. QED
        BY <1>1, <2>1, <2>2
<1>11. ASSUME NEW b \in Adaptors, NEW c \in store'[b]
       PROVE  /\ \A d \in lost' : Reversed(c, d)
              /\ \A e \in Transactional : \A d \in staged'[e] : Reversed(c, d)
    <2>1. /\ \A d \in lost : Reversed(c, d)
          /\ \A e \in Transactional : \A d \in staged[e] : Reversed(c, d)
        BY <1>1 DEF ChangesInv
    <2>2. QED
        BY <1>1, <1>2, <2>1
<1>12. QED
    BY <1>8, <1>9, <1>10, <1>11, ChangesInvNext

-----------------------------------------------------------------------------
(* A request ends, or all of them do. *)

LEMMA CloseSessionsChanges ==
    ASSUME LockInv, ChangesInv, NEW r \in Threads, OthersRest(r), CloseSessions(r)
    PROVE  ChangesInv'
<1>1. PICK o \in Outcomes :
        /\ End(r, o)
        /\ phase[r] = "abort" <=> o = "aborted"
        /\ o = "committed" => phase[r] = "commit" /\ ~caught[r]
        /\ o \in {"aborted", "recovered", "committed"}
    BY DEF CloseSessions, Outcomes
<1>2. /\ phase[r] \in {"commit", "abort"} /\ begun[r] = <<>> /\ TypeOK /\ InOrder(r)
      /\ UNCHANGED <<work, begun, staged, store, lost>>
    BY LockInvParts DEF CloseSessions, lmdbVars
<1>3. phase'[r] = "idle" /\ outcomes'[r] = Append(outcomes[r], o)
    BY <1>1, <1>2, EndRests
<1>4. /\ \A b \in Transactional : staged[b] \subseteq Changes
      /\ \A b \in Adaptors : store[b] \subseteq Changes
      /\ lost \subseteq Changes
    BY <1>2 DEF TypeOK
<1>5. ASSUME NEW c \in Changes, c.by = r
      PROVE  /\ HasEnded(c) => HasEnded(c)' /\ RequestOf(c)' = RequestOf(c)
             /\ (~HasEnded(c) /\ c.request = Current(r)) => HasEnded(c)' /\ RequestOf(c)' = o
    BY <1>2, <1>3, <1>5, EndingNow
<1>6. \A c : (EntryFor(c)' <=> EntryFor(c)) /\ (EntryIsThere(c)' <=> EntryIsThere(c))
    BY <1>2, EntryKept
<1>7. ASSUME NEW c \in Changes, Comes(c) PROVE Comes(c)'
    <2>1. CASE c.by = r
        BY <1>3, <2>1 DEF Comes, Unhindered
    <2>2. CASE c.by # r
        BY <1>6, <1>7, <2>2, OthersSound DEF Comes
    <2>3. QED
        BY <2>1, <2>2
(* Nothing of the request is staged any more. *)
<1>8. ASSUME NEW b \in Transactional, NEW c \in staged[b], c.by = r
      PROVE  HasEnded(c)
    BY <1>2, <1>8 DEF ChangesInv, StagedSound
<1>9. ASSUME NEW b \in Transactional, NEW c \in staged'[b]
      PROVE  StagedSound(b, c)' /\ Comes(c)'
    <2>1. c \in staged[b] /\ c \in Changes
        BY <1>2, <1>4
    <2>2. StagedSound(b, c) /\ Comes(c)
        BY <2>1 DEF ChangesInv
    <2>3. CASE c.by # r
        BY <1>7, <2>1, <2>2, <2>3, OthersSound
    <2>4. CASE c.by = r
        BY <1>3, <1>5, <1>7, <1>8, <2>1, <2>2, <2>4 DEF StagedSound
    <2>5. QED
        BY <2>3, <2>4
<1>10. ASSUME NEW b \in Adaptors, NEW c \in store'[b]
       PROVE  DurableSound(c)' /\ Comes(c)' /\ HasEntry(c)'
    <2>1. c \in store[b] /\ c \in Changes
        BY <1>2, <1>4
    <2>2. DurableSound(c) /\ Comes(c) /\ HasEntry(c)
        BY <2>1 DEF ChangesInv
    <2>3. CASE c.by # r
        <3>1. HasEntry(c)'
            BY <1>6, <2>1, <2>2, <2>3, OthersSound DEF HasEntry
        <3>2. QED
            BY <1>7, <2>1, <2>2, <2>3, <3>1, OthersSound
    <2>4. CASE c.by = r
        <3>1. DurableSound(c)'
            BY <1>1, <1>5, <2>1, <2>2, <2>4 DEF DurableSound
        <3>2. HasEntry(c)'
            <4>1. CASE HasEnded(c)
                BY <1>5, <1>6, <2>1, <2>2, <2>4, <4>1 DEF HasEntry
            <4>2. CASE ~HasEnded(c)
                <5>1. RequestOf(c)' = o
                    BY <1>5, <2>1, <2>2, <2>4, <4>2 DEF DurableSound
                <5>2. SUFFICES ASSUME ~c.entry, c.on \in DOMAIN JournalOf, o = "committed"
                               PROVE  EntryFor(c)
                    BY <1>6, <5>1 DEF HasEntry
                <5>3. ~EntryToCome(c)
                    BY <1>1, <1>2, <2>4, <5>2 DEF InOrder, EntryToCome
                <5>4. Unhindered(c)
                    BY <1>1, <2>4, <4>2, <5>2 DEF Unhindered
                <5>5. EntryIsThere(c)
                    BY <2>2, <5>3, <5>4 DEF Comes
                <5>6. ASSUME JournalOf[c.on] \in Transactional,
                             NEW e \in staged[JournalOf[c.on]], IsEntryFor(e, c)
                      PROVE  FALSE
                    <6>1. e.by = r /\ e.request = c.request
                        BY <2>4, <5>6 DEF IsEntryFor
                    <6>2. ~HasEnded(e)
                        BY <2>4, <4>2, <6>1 DEF HasEnded
                    <6>3. QED
                        BY <1>8, <5>6, <6>1, <6>2
                <5>7. QED
                    BY <5>5, <5>6 DEF EntryIsThere
            <4>3. QED
                BY <4>1, <4>2
        <3>3. QED
            BY <1>7, <2>1, <2>2, <3>1, <3>2
    <2>5. QED
        BY <2>3, <2>4
<1>11. ASSUME NEW c \in lost' PROVE LostSound(c)'
    <2>1. c \in Changes /\ LostSound(c)
        BY <1>2, <1>4 DEF ChangesInv
    <2>2. CASE c.by # r
        BY <2>1, <2>2, OthersSound
    <2>3. CASE c.by = r
        BY <1>1, <1>5, <2>1, <2>3 DEF LostSound
    <2>4. QED
        BY <2>2, <2>3
<1>12. \A b \in Adaptors : \A c \in store'[b] :
        /\ \A d \in lost' : Reversed(c, d)
        /\ \A e \in Transactional : \A d \in staged'[e] : Reversed(c, d)
    BY <1>2 DEF ChangesInv
<1>13. QED
    BY <1>9, <1>10, <1>11, <1>12, ChangesInvNext

LEMMA CrashChanges ==
    ASSUME LockInv, ChangesInv, Crash
    PROVE  ChangesInv'
<1>1. /\ TypeOK /\ store' = store /\ lost' = lost \cup UNION {staged[a] : a \in Transactional}
      /\ \A b \in Transactional : staged'[b] = {}
      /\ \A t \in Threads : /\ phase'[t] = "idle"
                            /\ outcomes'[t] = IF phase[t] = "idle" THEN outcomes[t]
                                             ELSE Append(outcomes[t], "crashed")
    BY DEF Crash, LockInv
<1>2. /\ \A b \in Transactional : staged[b] \subseteq Changes
      /\ \A b \in Adaptors : store[b] \subseteq Changes
      /\ lost \subseteq Changes
    BY <1>1 DEF TypeOK
<1>3. ASSUME NEW c \in Changes
      PROVE  /\ HasEnded(c) => HasEnded(c)' /\ RequestOf(c)' = RequestOf(c)
             /\ (~HasEnded(c) /\ c.request = Current(c.by) /\ phase[c.by] # "idle")
                   => HasEnded(c)' /\ RequestOf(c)' = "crashed"
    <2>1. c.by \in Threads /\ "crashed" \in Outcomes
        BY ChangeFields DEF Outcomes
    <2>2. CASE phase[c.by] = "idle"
        BY <1>1, <2>1, <2>2, SameEnding
    <2>3. CASE phase[c.by] # "idle"
        BY <1>1, <2>1, <2>3, EndingNow
    <2>4. QED
        BY <2>2, <2>3
<1>4. \A c : EntryFor(c)' <=> EntryFor(c)
    BY <1>1 DEF EntryFor
<1>5. ASSUME NEW b \in Adaptors, NEW c \in store'[b]
      PROVE  DurableSound(c)' /\ Comes(c)' /\ HasEntry(c)'
    <2>1. c \in store[b] /\ c \in Changes /\ c.by \in Threads
        BY <1>1, <1>2, ChangeFields
    <2>2. DurableSound(c) /\ HasEntry(c)
        BY <2>1 DEF ChangesInv
    <2>3. Comes(c)'
        BY <1>1, <2>1 DEF Comes, Unhindered
    <2>4. DurableSound(c)'
        BY <1>3, <2>1, <2>2 DEF DurableSound
    <2>5. HasEntry(c)'
        BY <1>3, <1>4, <2>1, <2>2 DEF HasEntry, DurableSound
    <2>6. QED
        BY <2>3, <2>4, <2>5
<1>6. ASSUME NEW c \in lost' PROVE LostSound(c)'
    <2>1. CASE c \in lost
        <3>1. c \in Changes /\ LostSound(c)
            BY <1>2, <2>1 DEF ChangesInv
        <3>2. QED
            BY <1>3, <3>1 DEF LostSound
    <2>2. ASSUME NEW a \in Transactional, c \in staged[a]
          PROVE  LostSound(c)'
        <3>1. c \in Changes /\ StagedSound(a, c)
            BY <1>2, <2>2 DEF ChangesInv
        <3>2. QED
            BY <1>3, <3>1 DEF LostSound, StagedSound
    <2>3. QED
        BY <1>1, <2>1, <2>2
<1>7. ASSUME NEW b \in Adaptors, NEW c \in store'[b]
      PROVE  /\ \A d \in lost' : Reversed(c, d)
             /\ \A e \in Transactional : \A d \in staged'[e] : Reversed(c, d)
    <2>1. /\ \A d \in lost : Reversed(c, d)
          /\ \A e \in Transactional : \A d \in staged[e] : Reversed(c, d)
        BY <1>1 DEF ChangesInv
    <2>2. QED
        BY <1>1, <2>1
<1>8. QED
    BY <1>1, <1>5, <1>6, <1>7, ChangesInvNext

-----------------------------------------------------------------------------
(* The theorems. *)

LEMMA InitChanges ==
    ASSUME Init
    PROVE  ChangesInv
BY DEF Init, ChangesInv

LEMMA NextChanges ==
    ASSUME LockInv, ChangesInv, [Next]_vars
    PROVE  ChangesInv'
<1>1. CASE UNCHANGED vars
    <2>1. /\ phase' = phase /\ work' = work /\ operations' = operations /\ caught' = caught
          /\ begun' = begun /\ staged' = staged /\ store' = store /\ lost' = lost
          /\ outcomes' = outcomes
        BY <1>1 DEF vars, requestVars, cacheVars, lmdbVars
    <2>2. ASSUME NEW c, NEW b
          PROVE  /\ StagedSound(b, c) => StagedSound(b, c)'
                 /\ DurableSound(c) => DurableSound(c)'
                 /\ LostSound(c) => LostSound(c)'
        BY <2>1
        DEF StagedSound, DurableSound, LostSound, HasEnded, RequestOf, Current
    <2>3. ASSUME NEW c
          PROVE  /\ Comes(c) => Comes(c)'
                 /\ HasEntry(c) => HasEntry(c)'
        BY <2>1
        DEF Comes, HasEntry, Unhindered, EntryIsThere, EntryFor, EntryToCome, HasEnded, RequestOf
    <2>4. ASSUME NEW a \in Transactional, NEW c \in staged'[a]
          PROVE  StagedSound(a, c)' /\ Comes(c)'
        <3>1. StagedSound(a, c) /\ Comes(c)
            BY <2>1 DEF ChangesInv
        <3>2. QED
            BY <2>2, <2>3, <3>1
    <2>5. ASSUME NEW a \in Adaptors, NEW c \in store'[a]
          PROVE  DurableSound(c)' /\ Comes(c)' /\ HasEntry(c)'
        <3>1. DurableSound(c) /\ Comes(c) /\ HasEntry(c)
            BY <2>1 DEF ChangesInv
        <3>2. QED
            BY <2>2, <2>3, <3>1
    <2>6. ASSUME NEW c \in lost' PROVE LostSound(c)'
        <3>1. LostSound(c)
            BY <2>1 DEF ChangesInv
        <3>2. QED
            BY <2>2, <3>1
    <2>7. \A a \in Adaptors : \A c \in store'[a] :
              /\ \A d \in lost' : Reversed(c, d)
              /\ \A b \in Transactional : \A d \in staged'[b] : Reversed(c, d)
        BY <2>1 DEF ChangesInv
    <2>8. QED
        BY <2>4, <2>5, <2>6, <2>7, ChangesInvNext
<1>2. CASE Crash
    BY <1>2, CrashChanges
<1>3. ASSUME NEW r \in Threads, Start(r) \/ Proceed(r) \/ Fail(r)
      PROVE  ChangesInv'
    <2>1. OthersRest(r)
        BY <1>3, OthersRestStep DEF LockInv
    <2>2. QED
        BY <1>3, <2>1, StartChanges, AskFinishChanges, QuietCallChanges, BeginTransactionChanges,
            JournalEpilogueChanges, UpdateModelChanges, WriteChanges, ThrowChanges,
            CommitChanges, AbortChanges, CommitFailsChanges, CloseSessionsChanges
        DEF Proceed, Fail
<1>4. QED
    BY <1>1, <1>2, <1>3 DEF Next

(* The locks and the changes of the requests keep the invariant below the    *)
(* properties of the session cache.                                          *)
THEOREM TransactionsInvariant == Spec => []TransactionsInv
<1>1. Init => TurnsInv /\ ChangesInv
    BY InitTurns, InitChanges
<1>2. TurnsInv /\ ChangesInv /\ [Next]_vars => (TurnsInv /\ ChangesInv)'
    BY NextTurns, NextChanges DEF TurnsInv
<1>3. TurnsInv /\ ChangesInv => TransactionsInv
    BY TransactionsInvParts
<1>4. QED
    BY <1>1, <1>2, <1>3, PTL DEF Spec

(* Of a request that has ended without a fault, every change in a            *)
(* transaction is durable or none is; of one that still runs, none is.       *)
THEOREM NothingByHalves == Spec => []AllOrNothing
<1>1. TransactionsInv => AllOrNothing
    BY DEF TransactionsInv
<1>2. QED
    BY <1>1, TransactionsInvariant, PTL

(* Transactions become durable in the reverse of the order in which they     *)
(* began, whatever fails between two commits.                                *)
THEOREM LastBegunFirstDurable == Spec => []DurableInReverse
<1>1. TransactionsInv => DurableInReverse
    BY DEF TransactionsInv
<1>2. QED
    BY <1>1, TransactionsInvariant, PTL

(* A request that has committed without an error has journaled its changes.  *)
THEOREM EveryChangeIsJournaled == Spec => []CommittedIsJournaled
<1>1. TransactionsInv => CommittedIsJournaled
    BY DEF TransactionsInv
<1>2. QED
    BY <1>1, TransactionsInvariant, PTL
=============================================================================
