------------------------ MODULE AdaptorTransactions ------------------------
(***************************************************************************)
(* The session cache of a request and the transactions of its adaptors     *)
(* (afw/adaptor/afw_adaptor.c), as the request handler for adaptors uses   *)
(* them in the threads of the fcgi server (afw_request_handler_adaptor.c): *)
(* the first use of an adaptor opens a session, the first change begins a  *)
(* transaction, a change is followed by an entry in the journal of the     *)
(* adaptor, and at its end the request commits all transactions, or aborts *)
(* them all if an error gets as far as the handler.                        *)
(*                                                                         *)
(* An adaptor with transactions is an lmdb adaptor: its write transaction  *)
(* is alone in the environment (lmdb's writer mutex, external) and holds   *)
(* the read side of dbLock until it ends.  A model adaptor passes what it  *)
(* is asked to the adaptor it is mapped to.  The others apply a change at  *)
(* once.                                                                   *)
(***************************************************************************)
EXTENDS Naturals, FiniteSets, SequencesExt

CONSTANTS
    Threads,        (* the request threads of the server                   *)
    NoThread,
    Adaptors,
    Transactional,  (* the lmdb adaptors                                   *)
    JournalOf,      (* journalAdaptorId of the adaptors that specify one   *)
    MappedTo,       (* mappedAdaptorId of the model adaptors               *)
    Workload,       (* per thread: what its requests may ask for           *)
    Faults,         (* what may fail besides an operation                  *)
    MaxOperations,  (* bound: operations of a request                      *)
    MaxRequests     (* bound: requests of a thread                         *)

Models == DOMAIN MappedTo

Operations == [do : {"update", "read", "consume", "index"}, on : Adaptors]

ASSUME ThreadAssumption == IsFiniteSet(Threads) /\ NoThread \notin Threads

ASSUME AdaptorAssumption ==
    /\ Transactional \subseteq Adaptors
    /\ Models \subseteq Adaptors \ Transactional
    /\ MappedTo \in [Models -> Adaptors \ Models]
    /\ DOMAIN JournalOf \subseteq Adaptors
    /\ JournalOf \in [DOMAIN JournalOf -> Adaptors \ Models]
    /\ Workload \in [Threads -> SUBSET Operations]
    /\ \A r \in Threads : \A o \in Workload[r] : o.do = "index" => o.on \in Transactional
    /\ Faults \subseteq {"begin", "commit", "crash"}
    /\ MaxOperations \in Nat /\ MaxRequests \in Nat

VARIABLES
    phase,      (* what a thread does: "idle", "run", "commit" or "abort"  *)
    work,       (* the calls a request still has to make, innermost first  *)
    operations, (* how many operations the request has asked for           *)
    caught,     (* whether a script or an action list has caught an error  *)
    sessions,   (* cache->session_cache of the request                     *)
    begun,      (* cache->transactions, in the order they began            *)
    open,       (* the sessions whose session->transaction is set          *)
    writer,     (* per lmdb adaptor: who has the write transaction         *)
    dbLock,     (* per lmdb adaptor: how many hold dbLock for reading      *)
    staged,     (* per lmdb adaptor: the changes in the write transaction  *)
    store,      (* per adaptor: the changes that are durable               *)
    lost,       (* history: the staged changes that were thrown away       *)
    outcomes    (* history: how the requests of a thread have ended        *)

requestVars == <<phase, work, operations, caught>>
cacheVars == <<sessions, begun, open>>
lmdbVars == <<writer, dbLock, staged>>
vars == <<requestVars, cacheVars, lmdbVars, store, lost, outcomes>>

(* A call that is still to be made; for an entry, of whose change it is.   *)
Step(do, on) == [do |-> do, on |-> on, of |-> on]
EntryStep(j, a) == [do |-> "add_entry", on |-> j, of |-> a]

Current(r) == Len(outcomes[r]) + 1

(* Where a transaction stands in the order of begin; 0 if there is none.   *)
Position(r, a) ==
    IF a \in Range(begun[r]) THEN CHOOSE i \in DOMAIN begun[r] : begun[r][i] = a
    ELSE 0

(* A change the request makes on an adaptor: an object that is added,      *)
(* modified, replaced or deleted, or an entry that records such a change.  *)
Change(r, s) ==
    [by |-> r, request |-> Current(r), operation |-> operations[r],
     on |-> s.on, of |-> s.of, entry |-> s.do = "add_entry",
     position |-> Position(r, s.on)]

Init ==
    /\ phase = [r \in Threads |-> "idle"]
    /\ work = [r \in Threads |-> <<>>]
    /\ operations = [r \in Threads |-> 0]
    /\ caught = [r \in Threads |-> FALSE]
    /\ sessions = [r \in Threads |-> {}]
    /\ begun = [r \in Threads |-> <<>>]
    /\ open = [r \in Threads |-> {}]
    /\ writer = [a \in Transactional |-> NoThread]
    /\ dbLock = [a \in Transactional |-> 0]
    /\ staged = [a \in Transactional |-> {}]
    /\ store = [a \in Adaptors |-> {}]
    /\ lost = {}
    /\ outcomes = [r \in Threads |-> <<>>]

(***************************************************************************)
(* The calls of the operations.                                            *)
(***************************************************************************)
(* add, modify, replace and delete of an object                            *)
Update(a) ==
    <<Step("get_cached_begin", a), Step("update_object", a),
      Step("journal_epilogue", a)>>

(* get and retrieve                                                        *)
Read(a) == <<Step("get_cached", a), Step("read_object", a)>>

(* the next entry for a consumer, and marking it                           *)
Consume(j) == <<Step("get_cached_begin", j), Step("read_object", j)>>

(* index_create                                                            *)
CreateIndex(a) ==
    <<Step("get_cached", a), Step("open_index", a), Step("begin_index", a),
      Step("update_index", a)>>

Calls(o) ==
    CASE o.do = "update"  -> Update(o.on)
      [] o.do = "read"    -> Read(o.on)
      [] o.do = "consume" -> Consume(o.on)
      [] o.do = "index"   -> CreateIndex(o.on)

(* The next call of a request that runs is one of these.                   *)
Calling(r, dos) ==
    /\ phase[r] = "run"
    /\ work[r] # <<>>
    /\ Head(work[r]).do \in dos

Callee(r) == Head(work[r]).on
Return(r) == work' = [work EXCEPT ![r] = Tail(@)]
Call(r, steps) == work' = [work EXCEPT ![r] = steps \o Tail(@)]

(***************************************************************************)
(* The session cache.                                                      *)
(***************************************************************************)
(* mutant: the list is not asked *)
BeginsAlways(r) == Head(work[r]).do = "get_cached_begin"

(* A transaction is begun if the call asks for it and it is not in the     *)
(* list.                                                                   *)
Begins(r) ==
    Head(work[r]).do = "get_cached_begin" /\ Callee(r) \notin Range(begun[r])

(* A cached session, which is opened if there is none, and if asked for    *)
(* the transaction of the adaptor.                                         *)
GetCached(r) ==
    /\ Calling(r, {"get_cached", "get_cached_begin"})
    /\ sessions' = [sessions EXCEPT ![r] = @ \cup {Callee(r)}]
    /\ IF Begins(r) THEN Call(r, <<Step("begin", Callee(r))>>) ELSE Return(r)
    /\ UNCHANGED <<phase, operations, caught, begun, open, lmdbVars, store, lost, outcomes>>

(* begin_transaction of a model adaptor asks for the transaction of the    *)
(* adaptor it is mapped to and has none of its own; others return NULL.    *)
BeginElsewhere(r) ==
    /\ Calling(r, {"begin"})
    /\ Callee(r) \notin Transactional
    /\ IF Callee(r) \in Models
       THEN Call(r, <<Step("get_cached_begin", MappedTo[Callee(r)])>>)
       ELSE Return(r)
    /\ UNCHANGED <<phase, operations, caught, cacheVars, lmdbVars, store, lost, outcomes>>

(* begin_transaction of an lmdb adaptor takes dbLock for reading first ... *)
LockDatabase(r) ==
    /\ Calling(r, {"begin", "begin_index"})
    /\ Callee(r) \in Transactional
    /\ dbLock' = [dbLock EXCEPT ![Callee(r)] = @ + 1]
    /\ Call(r, <<Step(IF Head(work[r]).do = "begin" THEN "txn_begin"
                      ELSE "txn_begin_index", Callee(r))>>)
    /\ UNCHANGED <<phase, operations, caught, cacheVars, writer, staged, store, lost, outcomes>>

(* mutant: dbLock is kept *)
UnlockForgotten(a) == UNCHANGED dbLock
(* mutant: dbLock is given back by the error path, too *)
UnlockTwice(a) == dbLock' = [dbLock EXCEPT ![a] = @ - 2]

Unlock(a) == dbLock' = [dbLock EXCEPT ![a] = @ - 1]

(* ... and waits until nobody has a write transaction.  The session cache  *)
(* puts the transaction into its list; index_create keeps it to itself.    *)
BeginTransaction(r) ==
    /\ Calling(r, {"txn_begin", "txn_begin_index"})
    /\ LET a == Callee(r)
       IN  /\ writer[a] = NoThread
           /\ writer' = [writer EXCEPT ![a] = r]
           /\ open' = [open EXCEPT ![r] = @ \cup {a}]
           /\ begun' = [begun EXCEPT ![r] =
                            IF Head(work[r]).do = "txn_begin" THEN Append(@, a) ELSE @]
    /\ Return(r)
    /\ UNCHANGED <<phase, operations, caught, sessions, dbLock, staged, store, lost, outcomes>>

(***************************************************************************)
(* Reads, changes and the journal.                                         *)
(***************************************************************************)
ReadObject(r) ==
    /\ Calling(r, {"read_object"})
    /\ IF Callee(r) \in Models THEN Call(r, Read(MappedTo[Callee(r)])) ELSE Return(r)
    /\ UNCHANGED <<phase, operations, caught, cacheVars, lmdbVars, store, lost, outcomes>>

(* mutant: the open transaction is not used *)
WriteThrough(r) ==
    /\ store' = [store EXCEPT ![Callee(r)] = @ \cup {Change(r, Head(work[r]))}]
    /\ UNCHANGED staged

(* A change goes into the open transaction of the session; without one it  *)
(* is durable at once.                                                     *)
Write(r) ==
    LET a == Callee(r) IN
    IF a \in open[r]
    THEN /\ staged' = [staged EXCEPT ![a] = @ \cup {Change(r, Head(work[r]))}]
         /\ UNCHANGED store
    ELSE /\ store' = [store EXCEPT ![a] = @ \cup {Change(r, Head(work[r]))}]
         /\ UNCHANGED staged

(* mutant: the journal of the adaptor it is mapped to is not written *)
MappedUnjournaled(r) ==
    <<Step("get_cached_begin", MappedTo[Callee(r)]), Step("update_object", MappedTo[Callee(r)])>>

(* A model adaptor changes the adaptor it is mapped to, with all that      *)
(* comes with it, that adaptor's journal included.                         *)
Mapped(r) == Update(MappedTo[Callee(r)])

UpdateObject(r) ==
    /\ Calling(r, {"update_object", "add_entry"})
    /\ IF Callee(r) \in Models
       THEN /\ Call(r, Mapped(r))
            /\ UNCHANGED <<staged, store>>
       ELSE Write(r) /\ Return(r)
    /\ UNCHANGED <<phase, operations, caught, cacheVars, writer, dbLock, lost, outcomes>>

(* The entry for a change goes to the journal of its adaptor, in a         *)
(* transaction of that adaptor.                                            *)
JournalEpilogue(r) ==
    /\ Calling(r, {"journal_epilogue"})
    /\ LET a == Callee(r)
       IN  IF a \in DOMAIN JournalOf
           THEN Call(r, <<Step("get_cached_begin", JournalOf[a]),
                          EntryStep(JournalOf[a], a)>>)
           ELSE Return(r)
    /\ UNCHANGED <<phase, operations, caught, cacheVars, lmdbVars, store, lost, outcomes>>

(* index_create opens the database of the index in a transaction of its    *)
(* own and with dbLock for writing, so it waits until no transaction is    *)
(* open, not even one of the same request.                                 *)
OpenIndex(r) ==
    /\ Calling(r, {"open_index"})
    /\ dbLock[Callee(r)] = 0
    /\ Return(r)
    /\ UNCHANGED <<phase, operations, caught, cacheVars, lmdbVars, store, lost, outcomes>>

(***************************************************************************)
(* Errors.  An error ends the calls of its operation.  A script or the     *)
(* list of actions catches it, or the handler does and aborts.             *)
(***************************************************************************)
Throw(r) ==
    /\ work' = [work EXCEPT ![r] = <<>>]
    /\ \/ caught' = [caught EXCEPT ![r] = TRUE] /\ UNCHANGED phase
       \/ phase' = [phase EXCEPT ![r] = "abort"] /\ UNCHANGED caught

(* A call fails: no session can be had, an object is not there, a change   *)
(* is refused, also when it is already made in part.                       *)
CallThrows(r) ==
    /\ Calling(r, {"get_cached", "get_cached_begin", "read_object", "update_object",
                  "journal_epilogue", "add_entry", "open_index"})
    /\ Head(work[r]).do \in {"get_cached", "get_cached_begin"} => Callee(r) \notin sessions[r]
    /\ Throw(r)
    /\ UNCHANGED <<operations, cacheVars, lmdbVars, store, lost, outcomes>>

(* The index of a session is created without a transaction, so lmdb        *)
(* refuses to store the definition, and the transaction stays open.        *)
UpdateIndexThrows(r) ==
    /\ Calling(r, {"update_index"})
    /\ Throw(r)
    /\ UNCHANGED <<operations, cacheVars, lmdbVars, store, lost, outcomes>>

BeginFails(r) ==
    /\ "begin" \in Faults
    /\ Calling(r, {"txn_begin", "txn_begin_index"})
    /\ writer[Callee(r)] = NoThread
    /\ Unlock(Callee(r))
    /\ Throw(r)
    /\ UNCHANGED <<operations, cacheVars, writer, staged, store, lost, outcomes>>

(***************************************************************************)
(* The life of a request.                                                  *)
(***************************************************************************)
Start(r) ==
    /\ phase[r] = "idle"
    /\ Len(outcomes[r]) < MaxRequests
    /\ phase' = [phase EXCEPT ![r] = "run"]
    /\ sessions' = [sessions EXCEPT ![r] = {}]
    /\ begun' = [begun EXCEPT ![r] = <<>>]
    /\ open' = [open EXCEPT ![r] = {}]
    /\ UNCHANGED <<work, operations, caught, lmdbVars, store, lost, outcomes>>

Ask(r) ==
    /\ phase[r] = "run"
    /\ work[r] = <<>>
    /\ operations[r] < MaxOperations
    /\ \E o \in Workload[r] : work' = [work EXCEPT ![r] = Calls(o)]
    /\ operations' = [operations EXCEPT ![r] = @ + 1]
    /\ UNCHANGED <<phase, caught, cacheVars, lmdbVars, store, lost, outcomes>>

Finish(r) ==
    /\ phase[r] = "run"
    /\ work[r] = <<>>
    /\ phase' = [phase EXCEPT ![r] = "commit"]
    /\ UNCHANGED <<work, operations, caught, cacheVars, lmdbVars, store, lost, outcomes>>

(* mutant: in the order in which they began *)
NextToEndForward(r) == 1

(* The transactions end in the reverse of the order in which they began.   *)
NextToEnd(r) == Len(begun[r])

Ending(r) == begun[r][NextToEnd(r)]

EndTransaction(a) ==
    /\ writer' = [writer EXCEPT ![a] = NoThread]
    /\ staged' = [staged EXCEPT ![a] = {}]
    /\ Unlock(a)

Commit(r) ==
    /\ phase[r] = "commit"
    /\ begun[r] # <<>>
    /\ LET a == Ending(r)
       IN  /\ store' = [store EXCEPT ![a] = @ \cup staged[a]]
           /\ EndTransaction(a)
           /\ open' = [open EXCEPT ![r] = @ \ {a}]
           /\ begun' = [begun EXCEPT ![r] = RemoveAt(@, NextToEnd(r))]
    /\ UNCHANGED <<requestVars, sessions, lost, outcomes>>

Abort(r) ==
    /\ phase[r] = "abort"
    /\ begun[r] # <<>>
    /\ LET a == Ending(r)
       IN  /\ lost' = lost \cup staged[a]
           /\ EndTransaction(a)
           /\ open' = [open EXCEPT ![r] = @ \ {a}]
           /\ begun' = [begun EXCEPT ![r] = RemoveAt(@, NextToEnd(r))]
    /\ UNCHANGED <<requestVars, sessions, store, outcomes>>

(* The execution context of the request goes.                              *)
End(r, outcome) ==
    /\ phase' = [phase EXCEPT ![r] = "idle"]
    /\ operations' = [operations EXCEPT ![r] = 0]
    /\ caught' = [caught EXCEPT ![r] = FALSE]
    /\ outcomes' = [outcomes EXCEPT ![r] = Append(@, outcome)]

(* lmdb cannot commit and gives the transaction up.  The error leaves the  *)
(* handler: what is left in the list is neither committed nor aborted, and *)
(* no session is released.                                                 *)
CommitFails(r) ==
    /\ "commit" \in Faults
    /\ phase[r] = "commit"
    /\ begun[r] # <<>>
    /\ lost' = lost \cup staged[Ending(r)]
    /\ EndTransaction(Ending(r))
    /\ End(r, "failed")
    /\ UNCHANGED <<work, cacheVars, store>>

CloseSessions(r) ==
    /\ phase[r] \in {"commit", "abort"}
    /\ begun[r] = <<>>
    /\ sessions' = [sessions EXCEPT ![r] = {}]
    /\ End(r, IF phase[r] = "abort" THEN "aborted"
              ELSE IF caught[r] THEN "recovered" ELSE "committed")
    /\ UNCHANGED <<work, begun, open, lmdbVars, store, lost>>

(* The process dies and is started again: lmdb frees its writer mutex and  *)
(* forgets what was not committed.                                         *)
Crash ==
    /\ "crash" \in Faults
    /\ \E r \in Threads : phase[r] # "idle"
    /\ outcomes' = [r \in Threads |-> IF phase[r] = "idle" THEN outcomes[r]
                                      ELSE Append(outcomes[r], "crashed")]
    /\ phase' = [r \in Threads |-> "idle"]
    /\ work' = [r \in Threads |-> <<>>]
    /\ operations' = [r \in Threads |-> 0]
    /\ caught' = [r \in Threads |-> FALSE]
    /\ sessions' = [r \in Threads |-> {}]
    /\ begun' = [r \in Threads |-> <<>>]
    /\ open' = [r \in Threads |-> {}]
    /\ writer' = [a \in Transactional |-> NoThread]
    /\ dbLock' = [a \in Transactional |-> 0]
    /\ lost' = lost \cup UNION {staged[a] : a \in Transactional}
    /\ staged' = [a \in Transactional |-> {}]
    /\ UNCHANGED store

(* What a thread does by itself, and what may happen to it.                *)
Proceed(r) ==
    \/ Ask(r) \/ Finish(r) \/ GetCached(r) \/ BeginElsewhere(r) \/ LockDatabase(r)
    \/ BeginTransaction(r) \/ ReadObject(r) \/ UpdateObject(r) \/ JournalEpilogue(r)
    \/ OpenIndex(r) \/ UpdateIndexThrows(r) \/ Commit(r) \/ Abort(r) \/ CloseSessions(r)

Fail(r) == CallThrows(r) \/ BeginFails(r) \/ CommitFails(r)

Next == Crash \/ \E r \in Threads : Start(r) \/ Proceed(r) \/ Fail(r)

Spec == Init /\ [][Next]_vars

(* A thread that can go on does; one that waits for a lock does not.       *)
LiveSpec == Spec /\ \A r \in Threads : WF_vars(Proceed(r))

(***************************************************************************)
(* Properties.                                                             *)
(***************************************************************************)
Changes ==
    [by : Threads, request : Nat \ {0}, operation : Nat, on : Adaptors, of : Adaptors,
     entry : BOOLEAN, position : Nat]

Steps ==
    [do : {"get_cached", "get_cached_begin", "begin", "begin_index", "txn_begin",
           "txn_begin_index", "read_object", "update_object", "journal_epilogue",
           "add_entry", "open_index", "update_index"},
     on : Adaptors, of : Adaptors]

Outcomes == {"committed", "recovered", "aborted", "failed", "crashed"}

TypeOK ==
    /\ phase \in [Threads -> {"idle", "run", "commit", "abort"}]
    /\ work \in [Threads -> Seq(Steps)]
    /\ operations \in [Threads -> Nat]
    /\ caught \in [Threads -> BOOLEAN]
    /\ sessions \in [Threads -> SUBSET Adaptors]
    /\ begun \in [Threads -> Seq(Transactional)]
    /\ open \in [Threads -> SUBSET Transactional]
    /\ writer \in [Transactional -> Threads \cup {NoThread}]
    /\ dbLock \in [Transactional -> Nat]
    /\ staged \in [Transactional -> SUBSET Changes]
    /\ store \in [Adaptors -> SUBSET Changes]
    /\ lost \subseteq Changes
    /\ outcomes \in [Threads -> Seq(Outcomes)]

Waits(r, a) == Calling(r, {"txn_begin", "txn_begin_index"}) /\ Callee(r) = a
Waiting(a) == {r \in Threads : Waits(r, a)}

(* The transactions in the list of a request are open, its own and in      *)
(* there once, and dbLock counts exactly those who hold it: the commits    *)
(* and releases at the end of the request (afw_adaptor.c:411) never end a  *)
(* transaction twice or somebody else's, and never unlock too often.       *)
ListIsOpen ==
    /\ \A r \in Threads : phase[r] # "idle" =>
        /\ \A i, k \in DOMAIN begun[r] : begun[r][i] = begun[r][k] => i = k
        /\ \A a \in Range(begun[r]) : a \in open[r] /\ a \in sessions[r] /\ writer[a] = r
    /\ \A a \in Transactional :
        /\ dbLock[a] = Cardinality(Waiting(a)) + (IF writer[a] = NoThread THEN 0 ELSE 1)
        /\ \A c \in staged[a] : c.by = writer[a]

(* All or nothing: of a request that has ended without a fault, either     *)
(* every change in a transaction is durable or none is, and of one that    *)
(* still runs none is (begin_transaction in afw_interface.xml: "will not   *)
(* commit changes until the transactions commit function is called").      *)
Durable == UNION {store[a] : a \in Adaptors}
StagedNow == UNION {staged[a] : a \in Transactional}
RequestOf(c) == outcomes[c.by][c.request]
HasEnded(c) == c.request <= Len(outcomes[c.by])

AllOrNothing ==
    /\ \A c \in Durable : c.position > 0 =>
        IF HasEnded(c) THEN RequestOf(c) # "aborted" ELSE phase[c.by] = "commit"
    /\ \A c \in lost \cup StagedNow : HasEnded(c) =>
        RequestOf(c) \notin {"committed", "recovered"}

(* A change is durable only after every change that its request has made   *)
(* in a transaction begun later.  So whatever fails between two commits, a *)
(* change whose journal began after it is not durable without its entry    *)
(* (the reverse order of commits, afw_adaptor.c:411).                      *)
DurableInReverse ==
    \A c \in Durable : c.position > 0 =>
        \A d \in lost \cup StagedNow :
            ~(d.by = c.by /\ d.request = c.request /\ d.position > c.position)

(* A request that has committed and met no error leaves an entry in the    *)
(* journal for every change of an adaptor that has one, the changes made   *)
(* through a model adaptor included (afw_adaptor_journal.c:48).            *)
IsEntryFor(e, c) ==
    /\ e.entry /\ e.of = c.on
    /\ e.by = c.by /\ e.request = c.request /\ e.operation = c.operation

EntryFor(c) == \E e \in store[JournalOf[c.on]] : IsEntryFor(e, c)

CommittedIsJournaled ==
    \A c \in Durable :
        (~c.entry /\ c.on \in DOMAIN JournalOf /\ HasEnded(c)) =>
            (RequestOf(c) = "committed" => EntryFor(c))

(* Whom a thread waits for, and a lock that nobody will give back.         *)
WaitsFor(r) ==
    IF Calling(r, {"txn_begin", "txn_begin_index"}) THEN {writer[Callee(r)]} \ {NoThread}
    ELSE IF Calling(r, {"open_index"}) THEN Waiting(Callee(r)) \cup ({writer[Callee(r)]} \ {NoThread})
    ELSE {}

Abandoned(r) ==
    \E a \in Transactional :
        writer[a] = r /\ (phase[r] = "idle" \/ a \notin Range(begun[r]))

Deadlocked(S) ==
    /\ S # {}
    /\ \A r \in S : \E t \in WaitsFor(r) : t \in S \/ Abandoned(t)

(* Requests of one operation each never wait for each other in a circle:   *)
(* it takes a request that begins the transactions of two operations in    *)
(* another order than somebody else, or a lock that was not given back.    *)
OneOperationNeverDeadlocks ==
    \A S \in SUBSET Threads :
        Deadlocked(S) => \E r \in S : operations[r] > 1 \/ \E t \in WaitsFor(r) : Abandoned(t)

(* Every request ends, or waits in a circle or for an abandoned lock: there *)
(* is no other way to lose a request.                                      *)
RequestEnds ==
    \A r \in Threads :
        phase[r] # "idle" ~>
            (phase[r] = "idle" \/ \E S \in SUBSET Threads : r \in S /\ Deadlocked(S))

(* afw_adaptor.h:185 "This function will call the commit() method of all   *)
(* active transactions in the reverse order they began, then close all     *)
(* sessions": a request that has ended holds no write transaction.         *)
EndedHoldsNothing ==
    \A r \in Threads : phase[r] = "idle" => \A a \in Transactional : writer[a] # r

(***************************************************************************)
(* The inductive invariant behind the safety properties.                   *)
(***************************************************************************)
Openers == {"get_cached", "get_cached_begin", "begin", "txn_begin", "txn_begin_index"}
Beginners == {"get_cached_begin", "begin", "txn_begin"}

StepInOrder(s, opened) ==
    /\ s.do \in {"txn_begin", "txn_begin_index"} => s.on \in Transactional
    /\ s.do \in {"begin", "txn_begin"} => s.on \in opened
    /\ s.do = "add_entry" => s.of \in DOMAIN JournalOf /\ s.on = JournalOf[s.of]
    /\ s.do = "update_object" => s.of = s.on

(* A call that begins a transaction is the next one, a change of an lmdb     *)
(* adaptor comes after its transaction is begun, and its entry after it.     *)
CallInOrder(r, i) ==
    LET s == work[r][i] IN
    /\ StepInOrder(s, sessions[r])
    /\ i > 1 => s.do \notin Openers
    /\ (s.do \in {"update_object", "add_entry"} /\ s.on \in Transactional) =>
        \/ s.on \in Range(begun[r])
        \/ i = 2 /\ work[r][1].on = s.on /\ work[r][1].do \in Beginners
    /\ s.do = "update_object" =>
        /\ i < Len(work[r]) /\ work[r][i + 1].on = s.on
        /\ work[r][i + 1].do = "journal_epilogue"

InOrder(r) ==
    /\ phase[r] # "run" => work[r] = <<>>
    /\ \A i \in DOMAIN work[r] : CallInOrder(r, i)

WorkInOrder == \A r \in Threads : InOrder(r)

OpenIsOwn == \A r \in Threads : phase[r] # "idle" => \A a \in open[r] : writer[a] = r

(* What is staged belongs to a request that is under way, and its position   *)
(* is where the list has its transaction, or to one that has been given up.  *)
StagedIsListed ==
    \A a \in Transactional : \A c \in staged[a] :
        IF HasEnded(c)
        THEN phase[c.by] # "idle" => a \notin Range(begun[c.by])
        ELSE /\ phase[c.by] # "idle" /\ c.request = Current(c.by)
             /\ c.position \in DOMAIN begun[c.by] /\ begun[c.by][c.position] = a

DurableIsPast ==
    \A c \in Durable : ~HasEnded(c) =>
        /\ phase[c.by] # "idle" /\ c.request = Current(c.by)
        /\ c.position > 0 => c.position > Len(begun[c.by])

LostIsAborted ==
    \A c \in lost : ~HasEnded(c) => phase[c.by] = "abort" /\ c.request = Current(c.by)

(* A change of a request that has met no error has its entry, or the entry   *)
(* is still to come.                                                         *)
EntryToCome(c) ==
    /\ c.operation = operations[c.by]
    /\ \E i \in DOMAIN work[c.by] :
        LET s == work[c.by][i] IN
        \/ s.do = "journal_epilogue" /\ s.on = c.on
        \/ s.do = "add_entry" /\ s.of = c.on

EntryIsThere(c) ==
    \/ EntryFor(c)
    \/ JournalOf[c.on] \in Transactional /\ \E e \in staged[JournalOf[c.on]] : IsEntryFor(e, c)

EntryComes ==
    \A c \in Durable \cup StagedNow :
        (/\ ~c.entry /\ c.on \in DOMAIN JournalOf
         /\ ~HasEnded(c) /\ phase[c.by] \in {"run", "commit"} /\ ~caught[c.by]) =>
            EntryIsThere(c) \/ EntryToCome(c)

LockInv == TypeOK /\ WorkInOrder /\ OpenIsOwn /\ ListIsOpen

(***************************************************************************)
(* What an operation begins, and in which order: that no two requests wait *)
(* for each other in their first operation follows from this.              *)
(***************************************************************************)
(* The adaptor whose transaction is begun for a.                           *)
BegunFor(a) == IF a \in Models THEN MappedTo[a] ELSE a

(* One operation may begin the transaction of a and later that of b: b is  *)
(* the journal of a, or of a model adaptor that is mapped to a, or to an   *)
(* adaptor whose journal is a.                                             *)
InTurn(a, b) ==
    \/ a = b
    \/ \E c \in DOMAIN JournalOf :
          /\ b = JournalOf[c]
          /\ \/ a = BegunFor(c)
             \/ BegunFor(c) \in DOMAIN JournalOf /\ a = JournalOf[BegunFor(c)]

(* The configuration does not make journals of each other in a circle.     *)
NoCircleOfJournals ==
    \E rank \in [Transactional -> 0..Cardinality(Transactional)] :
        \A a, b \in Transactional : InTurn(a, b) => a = b \/ rank[b] < rank[a]

(* The call s begins the transaction of b, or comes to it.                 *)
Reaches(s, b) ==
    \/ s.do \in Beginners /\ b = BegunFor(s.on)
    \/ s.do = "update_object" /\ s.on \in Models /\
          (\/ b = BegunFor(s.on)
           \/ BegunFor(s.on) \in DOMAIN JournalOf /\ b = JournalOf[BegunFor(s.on)])
    \/ s.do = "journal_epilogue" /\ s.on \in DOMAIN JournalOf /\ b = JournalOf[s.on]

IndexWaits == {"open_index", "begin_index", "txn_begin_index"}
IndexCalls == IndexWaits \cup {"get_cached", "update_index"}

(* What a request that is in its first operation has begun, and what it is *)
(* still to begin, is in turn, and an index is created with nothing begun. *)
BeginsInTurn(r) ==
    /\ \A i \in DOMAIN work[r] : \A b \in Adaptors : Reaches(work[r][i], b) =>
        /\ \A a \in Range(begun[r]) : InTurn(a, b)
        /\ \A k \in 1..(i - 1) : \A a \in Adaptors :
              Reaches(work[r][k], a) => InTurn(a, b)
    /\ \A i \in DOMAIN work[r] : work[r][i].do \in {"begin", "txn_begin"} =>
        work[r][i].on \notin Range(begun[r])
    /\ \A i \in DOMAIN work[r] : work[r][i].do \in IndexWaits =>
        /\ work[r][i].on \in Transactional /\ begun[r] = <<>>
        /\ \A k \in DOMAIN work[r] : work[r][k].do \in IndexCalls

FirstOperation(r) ==
    /\ phase[r] = "idle" => operations[r] = 0
    /\ phase[r] = "run" /\ operations[r] = 0 => work[r] = <<>> /\ begun[r] = <<>>
    /\ phase[r] = "run" /\ operations[r] <= 1 => BeginsInTurn(r)

TurnsInv == LockInv /\ \A r \in Threads : FirstOperation(r)

(***************************************************************************)
(* All of it.                                                              *)
(***************************************************************************)
TransactionsInv ==
    /\ TurnsInv
    /\ StagedIsListed /\ DurableIsPast /\ LostIsAborted
    /\ AllOrNothing /\ DurableInReverse
    /\ EntryComes /\ CommittedIsJournaled
=============================================================================
